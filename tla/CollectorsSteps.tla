--------------------------- MODULE CollectorsSteps ---------------------------
(***************************************************************************)
(* Each action of Collectors keeps the invariant of CollectorsProofs, so   *)
(* that every behaviour has the properties that it implies.                *)
(***************************************************************************)
EXTENDS CollectorsProofs

-----------------------------------------------------------------------------
(* A step in general *)

\* Thread u becomes r, with locks that it had or that were free.
Moves(u, r, L) ==
  /\ u \in Threads /\ r \in Thread /\ L \in LockerType
  /\ th' = [th EXCEPT ![u] = r] /\ locker' = [locker EXCEPT ![u] = L]
  /\ \A k \in Held(L) : k \in HeldBy(u) \/ FreeFor(u, k)
  /\ FieldsOK(r, u) /\ LocksFit(r, L, ForwardOf(r)') /\ Follows(r, coll', obj')

\* Then all threads are where their locks and what they follow say: u because it
\* moves so, and the others because u leaves them what they have locked.
LEMMA ThreadsStep ==
  ASSUME IInv, NEW u, NEW r, NEW L, Moves(u, r, L), ObjectsKept(u), PointersKept(u)
  PROVE  /\ th' \in [Threads -> Thread] /\ LockerTypeOK' /\ Exclusive'
         /\ \A t \in Threads : ThreadOK(t)'
         /\ th'[u] = r /\ \A t \in Threads \ {u} : th'[t] = th[t]
<1>1. u \in Threads /\ th \in [Threads -> Thread] /\ locker \in [Threads -> LockerType]
  BY DEF Moves, IInv, TypeOK, LockerTypeOK, LockerType
<1>2. /\ th'[u] = r /\ locker'[u] = L
      /\ \A t \in Threads \ {u} : th'[t] = th[t] /\ locker'[t] = locker[t]
  BY <1>1 DEF Moves
<1>3. th' \in [Threads -> Thread]
  BY <1>1 DEF Moves
<1>4. LockerTypeOK'
  <2>1. locker' \in [Threads -> LockerType]
    BY <1>1 DEF Moves
  <2> QED
    BY <2>1 DEF LockerTypeOK, LockerType
<1>5. Exclusive'
  BY <1>1, ExclusiveStep DEF Moves, IInv
<1>6. ThreadOK(u)'
  <2>1. FieldsOK(r, u) /\ LocksFit(r, L, ForwardOf(r)') /\ Follows(r, coll', obj')
    BY DEF Moves
  <2> QED
    BY <1>2, <2>1 DEF ThreadOK, ForwardOf
<1>7. ASSUME NEW t \in Threads \ {u}
      PROVE  ThreadOK(t)'
  BY <1>1, <1>2, Others
<1> QED
  BY <1>2, <1>3, <1>4, <1>5, <1>6, <1>7

\* Most steps keep all pointers between collectors.
PointersSame ==
  \A d \in Collectors : coll'[d].forward = coll[d].forward /\ coll'[d].to = coll[d].to

Created(d) == d \in Collectors /\ coll[d].state = "none" /\ coll'[d].state = "live"

\* The others keep their states, an object is given a collector with references
\* or a new one, and only that is queued.
CollectorsKept ==
  /\ \A d \in Collectors : coll'[d].state = coll[d].state \/ Created(d)
  /\ \A p \in Objects :
       LET c == obj'[p].collector
       IN  c = obj[p].collector \/ c = NULL \/ Refs(c) # {} \/ Created(c)
  /\ \/ work' = work
     \/ \E x : (x \in Objects \/ Created(x)) /\ work' = Append(work, x)

\* A step that forwards and frees no collector keeps the invariant.
LEMMA PlainStep ==
  ASSUME IInv, NEW u, NEW r, NEW L, Moves(u, r, L), ObjectsKept(u),
         PointersSame, CollectorsKept, NothingStranded',
         coll' \in [Collectors -> Collector], obj' \in [Objects -> Object],
         r.c \in {th[u].c, NULL}, th[u].pc # "forward",
         r.pc = "terminate" => Refs(r.c)' = {}
  PROVE  IInv'
<1>0. PointersKept(u)
  BY DEF PointersSame, PointersKept
<1>1. /\ th' \in [Threads -> Thread] /\ LockerTypeOK' /\ Exclusive'
      /\ \A t \in Threads : ThreadOK(t)'
      /\ th'[u] = r /\ \A t \in Threads \ {u} : th'[t] = th[t]
  BY <1>0, ThreadsStep
<1>2. /\ u \in Threads /\ TypeOK
      /\ coll \in [Collectors -> Collector] /\ obj \in [Objects -> Object]
      /\ work \in Seq(Objects \cup Collectors) /\ th \in [Threads -> Thread]
  BY DEF Moves, IInv, TypeOK
<1>3. ASSUME NEW c \in Collectors, Refs(c)' # {}
      PROVE  Refs(c) # {} \/ Created(c)
  <2>1. CASE \E o \in Objects : obj'[o].collector = c
    <3>1. PICK o \in Objects : obj'[o].collector = c
      BY <2>1
    <3>2. c = obj[o].collector \/ Refs(c) # {} \/ Created(c)
      BY <3>1, NullNoLock DEF CollectorsKept
    <3> QED
      BY <3>2 DEF Refs
  <2>2. CASE \E d \in Collectors : coll'[d].forward = c
    BY <2>2 DEF PointersSame, Refs
  <2> QED
    BY <1>3, <2>1, <2>2 DEF Refs
<1>4. work' \in Seq(Objects \cup Collectors)
  BY <1>2 DEF CollectorsKept, Created
<1>5. TypeOK'
  BY <1>1, <1>4 DEF TypeOK
<1>6. RefsLive'
  <2> SUFFICES ASSUME NEW c \in Collectors, Refs(c)' # {}
               PROVE  coll'[c].state = "live"
    BY DEF RefsLive
  <2>1. CASE Created(c)
    BY <2>1 DEF Created
  <2>2. CASE Refs(c) # {}
    BY <2>2 DEF IInv, RefsLive, CollectorsKept, Created
  <2> QED
    BY <1>3, <2>1, <2>2
<1>7. ASSUME NEW t \in Threads, th'[t].c # NULL
      PROVE  th[t].c = th'[t].c
  BY <1>1, <1>7
<1>8. ASSUME NEW i \in DOMAIN work'
       PROVE  \/ i \in DOMAIN work /\ work'[i] = work[i]
              \/ Created(work'[i])
              \/ work'[i] \in Objects
  <2>1. CASE work' = work
    BY <2>1
  <2>2. ASSUME NEW x, x \in Objects \/ Created(x), work' = Append(work, x)
        PROVE  \/ i \in DOMAIN work /\ work'[i] = work[i]
               \/ work'[i] = x
    BY <1>2, <2>2
  <2> QED
    BY <2>1, <2>2 DEF CollectorsKept
<1>9. TasksLive'
  <2>1. ASSUME NEW t \in Threads, th'[t].c # NULL
        PROVE  coll'[th'[t].c].state = "live"
    <3>1. th[t].c \in Collectors /\ coll[th[t].c].state = "live"
      BY <1>2, <1>7, <2>1 DEF IInv, TasksLive, Thread
    <3> QED
      BY <1>7, <2>1, <3>1 DEF CollectorsKept, Created
  <2>2. ASSUME NEW i \in DOMAIN work', work'[i] \in Collectors
        PROVE  coll'[work'[i]].state = "live"
    <3>1. CASE i \in DOMAIN work /\ work'[i] = work[i]
      BY <2>2, <3>1 DEF IInv, TasksLive, CollectorsKept, Created
    <3>2. CASE Created(work'[i])
      BY <3>2 DEF Created
    <3>3. CASE work'[i] \in Objects
      BY <2>2, <3>3, CollectorsAssumption
    <3> QED
      BY <1>8, <3>1, <3>2, <3>3
  <2> QED
    BY <2>1, <2>2 DEF TasksLive
<1>10. RunOnce'
  <2>0. \/ work' = work
        \/ \E x : (x \in Objects \/ Created(x)) /\ work' = Append(work, x)
    BY DEF CollectorsKept
  <2>1. ASSUME NEW i \in DOMAIN work', NEW j \in DOMAIN work',
               work'[i] \in Collectors, work'[i] = work'[j]
        PROVE  i = j
    <3>1. CASE work' = work
      BY <2>1, <3>1 DEF IInv, RunOnce
    <3>2. ASSUME NEW x \in Objects \cup Collectors, x \in Collectors => Created(x), work' = Append(work, x)
          PROVE  i = j
      <4>1. ASSUME NEW k \in 1 .. Len(work)
            PROVE  work[k] \notin Collectors \/ work[k] # x
        BY <1>2, <3>2, <4>1 DEF Created, IInv, TasksLive
      <4>2. DOMAIN work' = 1 .. Len(work) + 1 /\ work'[Len(work) + 1] = x
            /\ \A k \in 1 .. Len(work) : work'[k] = work[k]
        BY <1>2, <3>2
      <4>3. Len(work) \in Nat /\ DOMAIN work = 1 .. Len(work)
        BY <1>2
      <4>4. \A k, m \in 1 .. Len(work) : work[k] \in Collectors /\ work[k] = work[m] => k = m
        BY <4>3 DEF IInv, RunOnce
      <4> QED
        BY <2>1, <4>1, <4>2, <4>3, <4>4
    <3> QED
      BY <2>0, <3>1, <3>2, CollectorsAssumption DEF Created
  <2>2. ASSUME NEW t \in Threads, NEW i \in DOMAIN work', th'[t].c = work'[i]
        PROVE  FALSE
    <3>1. work'[i] \in Objects \cup Collectors
      BY <1>4, <2>2
    <3>2. th[t].c = work'[i] /\ th[t].c # NULL
      BY <1>7, <2>2, <3>1, NullNoLock
    <3>3. th[t].c \in Collectors /\ coll[th[t].c].state = "live"
      BY <1>2, <3>2 DEF IInv, TasksLive, Thread
    <3>4. ~ Created(th[t].c) /\ th[t].c \notin Objects
      BY <3>3, CollectorsAssumption DEF Created
    <3>5. CASE i \in DOMAIN work /\ work'[i] = work[i]
      BY <3>2, <3>5 DEF IInv, RunOnce
    <3>6. CASE Created(work'[i]) \/ work'[i] \in Objects
      BY <3>2, <3>4, <3>6
    <3> QED
      BY <1>8, <3>5, <3>6
  <2>3. ASSUME NEW t \in Threads, NEW v \in Threads, th'[t].c # NULL, th'[t].c = th'[v].c
        PROVE  t = v
    BY <1>7, <2>3 DEF IInv, RunOnce
  <2> QED
    BY <2>1, <2>2, <2>3 DEF RunOnce
<1>11. ToOK'
  <2> SUFFICES ASSUME NEW c \in Collectors, NEW l \in ListNames, coll'[c].to[l] # NULL,
                      coll'[c].forward # coll'[c].to[l]
               PROVE  \E t \in Threads :
                        th'[t].pc = "forward" /\ th'[t].x = c /\ th'[t].y = coll'[c].to[l]
    BY DEF ToOK
  <2>1. PICK t \in Threads : th[t].pc = "forward" /\ th[t].x = c /\ th[t].y = coll[c].to[l]
    BY DEF IInv, ToOK, PointersSame
  <2> QED
    BY <1>1, <2>1 DEF PointersSame
<1>12. AllForwarded'
  BY DEF IInv, AllForwarded, PointersSame
<1>13. Ends'
  <2> SUFFICES ASSUME NEW t \in Threads, NEW c, c = th'[t].c, th'[t].pc = "terminate"
               PROVE  Refs(c)' = {}
    BY DEF Ends
  <2>1. CASE t = u
    BY <1>1, <2>1
  <2>2. CASE t # u
    <3>1. th'[t] = th[t] /\ c \in Collectors /\ c # NULL
      BY <1>1, <2>2, NullNoLock DEF IInv, ThreadOK, FieldsOK, TypeOK, Thread
    <3>2. Refs(c) = {}
      BY <3>1 DEF IInv, Ends
    <3>3. ~ Created(c)
      BY <3>1 DEF IInv, TasksLive, Created
    <3> QED
      BY <1>3, <3>1, <3>2, <3>3
  <2> QED
    BY <2>1, <2>2
<1> QED
  BY <1>1, <1>5, <1>6, <1>9, <1>10, <1>11, <1>12, <1>13 DEF IInv

\* A step that only moves its thread.
LEMMA QuietStep ==
  ASSUME IInv, NEW u \in Threads, NEW r \in Thread, NEW L \in LockerType,
         th' = [th EXCEPT ![u] = r], locker' = [locker EXCEPT ![u] = L],
         UNCHANGED <<coll, obj, work>>,
         \A k \in Held(L) : k \in HeldBy(u) \/ FreeFor(u, k),
         FieldsOK(r, u), LocksFit(r, L, ForwardOf(r)), Follows(r, coll, obj),
         r.c \in {th[u].c, NULL}, th[u].pc # "forward",
         r.pc = "terminate" => Refs(r.c) = {}
  PROVE  IInv'
<1>1. ForwardOf(r)' = ForwardOf(r) /\ coll' = coll /\ obj' = obj
  BY DEF ForwardOf
<1>2. Moves(u, r, L)
  BY <1>1 DEF Moves
<1>3. ObjectsKept(u) /\ PointersSame /\ CollectorsKept
  BY DEF ObjectsKept, PointersSame, CollectorsKept
<1>4. NothingStranded' /\ coll' \in [Collectors -> Collector] /\ obj' \in [Objects -> Object]
  BY DEF IInv, TypeOK, NothingStranded
<1>5. r.pc = "terminate" => Refs(r.c)' = {}
  BY DEF Refs
<1> QED
  BY <1>2, <1>3, <1>4, <1>5, PlainStep

\* What the invariant says of one thread.
LEMMA Now ==
  ASSUME IInv, NEW u \in Threads
  PROVE  /\ th[u] \in Thread /\ locker[u] \in LockerType /\ HeldBy(u) = Held(locker[u])
         /\ FieldsOK(th[u], u)
         /\ LocksFit(th[u], locker[u], ForwardOf(th[u]))
         /\ Follows(th[u], coll, obj)
BY DEF IInv, TypeOK, LockerTypeOK, LockerType, ThreadOK, HeldBy, Held

\* A worker is a thread, and not the program.
LEMMA WorkerThread ==
  ASSUME NEW w \in Workers
  PROVE  w \in Threads /\ w # Mutator
BY CollectorsAssumption

\* Where threads are named in the actions.
LEMMA Places ==
  /\ "idle" \in PCs /\ "run" \in PCs /\ "merged" \in PCs /\ "poll" \in PCs
  /\ "phantomize" \in PCs /\ "update" \in PCs /\ "updated" \in PCs /\ "recover" \in PCs
  /\ "links" \in PCs /\ "link" \in PCs /\ "await" \in PCs /\ "rebuild" \in PCs
  /\ "relink" \in PCs /\ "clean" \in PCs /\ "unlinks" \in PCs /\ "unlink" \in PCs
  /\ "dec" \in PCs /\ "del" \in PCs /\ "put" \in PCs /\ "walk" \in PCs
  /\ "add" \in PCs /\ "set" \in PCs /\ "merge" \in PCs /\ "merging" \in PCs
  /\ "forward" \in PCs /\ "equals" \in PCs /\ "finish" \in PCs /\ "ending" \in PCs
  /\ "terminate" \in PCs
BY DEF PCs, Between, HasObject, HasTarget

\* Following a pointer keeps the type of a thread.
LEMMA FollowsSet ==
  ASSUME NEW r \in Thread, NEW p \in PCs, NEW c \in Collectors \cup {NULL}
  PROVE  [r EXCEPT !.pc = p, !.x = c] \in Thread
BY DEF Thread

\* A thread goes on without a lock.
LEMMA UnlockedStep ==
  ASSUME IInv, NEW u \in Threads, NEW r \in Thread,
         th' = [th EXCEPT ![u] = r], locker' = [locker EXCEPT ![u] = NoLocks],
         UNCHANGED <<coll, obj, work>>, FieldsOK(r, u),
         \/ r.pc \in Between
         \/ /\ r.pc \in {"put", "walk"} /\ r.at[2] # "rebuild_list"
            /\ r.at[1] \in Reach(Listed(coll), r.c),
         r.c \in {th[u].c, NULL}, th[u].pc # "forward"
  PROVE  IInv'
<1>1. LocksFit(r, NoLocks, ForwardOf(r)) /\ Follows(r, coll, obj)
  BY DEF LocksFit, Follows, Between
<1>2. \A k \in Held(NoLocks) : k \in HeldBy(u) \/ FreeFor(u, k)
  BY NoLocksType, LocksOfNone DEF Held
<1>3. r.pc # "terminate"
  BY DEF Between
<1>4. NoLocks \in LockerType
  BY NoLocksType
<1> QED
  BY <1>1, <1>2, <1>3, <1>4, QuietStep

\* A thread without a lock may go on to where it needs none, or read the next
\* forward pointer of a list.
LEMMA FreeStep ==
  ASSUME IInv, NEW u \in Threads, NEW r \in Thread,
         th' = [th EXCEPT ![u] = r], UNCHANGED <<locker, coll, obj, work>>,
         th[u].pc \in Between, FieldsOK(r, u),
         \/ r.pc \in Between
         \/ /\ r.pc \in {"put", "walk"} /\ r.at[2] # "rebuild_list"
            /\ r.at[1] \in Reach(Listed(coll), r.c),
         r.c \in {th[u].c, NULL}
  PROVE  IInv'
<1>1. locker[u] = NoLocks /\ locker \in [Threads -> LockerType]
  BY DEF IInv, TypeOK, ThreadOK, LocksFit, LockerTypeOK, LockerType
<1>2. locker' = [locker EXCEPT ![u] = NoLocks]
  BY <1>1
<1>3. th[u].pc # "forward"
  BY DEF Between
<1> QED
  BY <1>2, <1>3, UnlockedStep

\* A worker that is done with the element of a list puts it on the next one.
LEMMA PutOnOK ==
  ASSUME IInv, NEW r \in Thread, NEW w \in Workers, NEW l \in {NULL, "recovery_list", "clean_list"},
         r.c # NULL, r.o # NULL, r.list \in PollLists, r.x = NULL, r.y = NULL, r.n = 0,
         r.at = NULL
  PROVE  LET s == PutOn(r, l)
         IN  /\ s \in Thread /\ FieldsOK(s, w) /\ s.c = r.c
             /\ \/ s.pc \in Between
                \/ /\ s.pc \in {"put", "walk"} /\ s.at[2] # "rebuild_list"
                   /\ s.at[1] \in Reach(Listed(coll), s.c)
<1>0. r.c \in Collectors /\ w # Mutator /\ r.o \in Objects
  BY WorkerThread DEF Thread
<1>1. CASE l = NULL
  <2> DEFINE s == [r EXCEPT !.pc = "poll", !.o = NULL]
  <2>1. /\ s \in Thread /\ s.pc = "poll" /\ s.c = r.c /\ s.list = r.list /\ s.o = NULL
        /\ s.x = r.x /\ s.y = r.y /\ s.n = r.n /\ s.at = r.at
    BY Places DEF Thread
  <2>2. PutOn(r, l) = s
    BY <1>1 DEF PutOn
  <2> HIDE DEF s
  <2>3. FieldsOK(s, w) /\ s.pc \in Between
    BY <2>1 DEF FieldsOK, HasObject, HasTarget, Between
  <2> QED
    BY <2>1, <2>2, <2>3
<1>2. CASE l # NULL
  <2> DEFINE at == <<r.c, l>>
             s == [r EXCEPT !.pc = "put", !.e = r.o, !.at = at]
  <2>1. at \in Collectors \X ListNames /\ at[1] = r.c /\ at[2] = l
    BY <1>0, <1>2 DEF ListNames
  <2>2. PutOn(r, l) = s /\ at # NULL
    <3>1. at # NULL
      BY <2>1, CollectorsAssumption
    <3> QED
      BY <1>2, <3>1 DEF PutOn
  <2> HIDE DEF at
  <2>3. /\ s \in Thread /\ s.pc = "put" /\ s.c = r.c /\ s.list = r.list /\ s.e = r.o
        /\ s.x = r.x /\ s.y = r.y /\ s.n = r.n /\ s.at = at
    BY <1>0, <2>1, Places DEF Thread
  <2> HIDE DEF s
  <2>4. FieldsOK(s, w)
    BY <1>0, <1>2, <2>1, <2>2, <2>3 DEF FieldsOK, HasObject, HasTarget
  <2>5. s.at[1] \in Reach(Listed(coll), s.c) /\ s.at[2] # "rebuild_list"
    BY <1>0, <1>2, <2>1, <2>3, ReachSelf
  <2> QED
    BY <2>2, <2>3, <2>4, <2>5
<1> QED
  BY <1>1, <1>2

\* object_clean_node looks at the counts (object.c:331-338).
LEMMA CleanStep ==
  ASSUME IInv, NEW w \in Workers, CleanNode(w)
  PROVE  IInv'
<1> DEFINE r == th[w]
<1>1. w \in Threads /\ w # Mutator /\ r \in Thread /\ FieldsOK(r, w) /\ r.pc = "clean"
  BY WorkerThread, Now DEF CleanNode, At
<1>2. CASE th' = [th EXCEPT ![w] = [r EXCEPT !.pc = "dec"]]
  <2> DEFINE s == [r EXCEPT !.pc = "dec"]
  <2>1. s \in Thread /\ s.pc = "dec" /\ s.c = r.c
    BY <1>1, Places DEF Thread
  <2>2. FieldsOK(s, w)
    BY <1>1 DEF FieldsOK, HasObject, HasTarget, PollLists, Thread
  <2>3. th' = [th EXCEPT ![w] = s] /\ UNCHANGED <<locker, coll, obj, work>>
    BY <1>2 DEF CleanNode
  <2>4. r.pc \in Between /\ s.pc \in Between
    BY <1>1, <2>1 DEF Between
  <2> HIDE DEF s
  <2> QED
    BY <1>1, <2>1, <2>2, <2>3, <2>4, FreeStep
<1>3. CASE th' = [th EXCEPT ![w] = [r EXCEPT !.pc = "unlinks",
                                      !.todo = obj[r.o].links \cup obj[r.o].phantoms]]
  <2> DEFINE todo == obj[r.o].links \cup obj[r.o].phantoms
             s == [r EXCEPT !.pc = "unlinks", !.todo = todo]
  <2>0. todo \in SUBSET Objects
    BY <1>1 DEF IInv, TypeOK, Object, FieldsOK, HasObject, Thread
  <2> HIDE DEF todo
  <2>1. /\ s \in Thread /\ s.pc = "unlinks" /\ s.c = r.c /\ s.list = r.list
        /\ s.o = r.o /\ s.t = r.t /\ s.x = r.x /\ s.y = r.y /\ s.n = r.n
        /\ s.e = r.e /\ s.at = r.at
    BY <1>1, <2>0, Places DEF Thread
  <2>3. th' = [th EXCEPT ![w] = s] /\ UNCHANGED <<locker, coll, obj, work>>
    BY <1>3 DEF CleanNode, todo
  <2>4. r.pc \in Between /\ s.pc \in Between
    BY <1>1, <2>1 DEF Between
  <2> HIDE DEF s, r
  <2>2. FieldsOK(s, w)
    BY <1>1, <2>1 DEF FieldsOK, HasObject, HasTarget, PollLists, Thread
  <2> QED
    BY <1>1, <2>1, <2>2, <2>3, <2>4, FreeStep DEF r
<1> QED
  BY <1>2, <1>3 DEF CleanNode, Goto, Become

\* A thread goes on with the locks it has.
LEMMA SameLocksStep ==
  ASSUME IInv, NEW u \in Threads, NEW r \in Thread,
         th' = [th EXCEPT ![u] = r], UNCHANGED <<locker, coll, obj, work>>,
         FieldsOK(r, u), LocksFit(r, locker[u], ForwardOf(r)), Follows(r, coll, obj),
         r.c \in {th[u].c, NULL}, th[u].pc # "forward", r.pc # "terminate"
  PROVE  IInv'
<1>1. locker[u] \in LockerType /\ HeldBy(u) = Held(locker[u])
      /\ locker' = [locker EXCEPT ![u] = locker[u]]
  BY Now DEF IInv, TypeOK, LockerTypeOK
<1> QED
  BY <1>1, QuietStep

\* It starts a section that locks the object at hand and a neighbour.
LEMMA StartsPair ==
  ASSUME NEW o \in Objects, NEW p \in Objects
  PROVE  /\ started({o, p}, NoLocks) \in LockerType
         /\ HasOne(started({o, p}, NoLocks), {o, p})
         /\ Held(started({o, p}, NoLocks)) = {}
<1>1. {o, p} \in SUBSET (Locks \cup {NULL}) /\ lock_set({o, p}) = {o, p}
  BY NullNoLock DEF lock_set
<1> QED
  BY <1>1, StartedOne

\* A thread without a lock starts to lock two objects.
LEMMA PairStep ==
  ASSUME IInv, NEW u \in Threads, NEW r \in Thread,
         th' = [th EXCEPT ![u] = r],
         locker' = [locker EXCEPT ![u] = started({r.o, r.t}, NoLocks)],
         UNCHANGED <<coll, obj, work>>, FieldsOK(r, u),
         r.pc \in {"link", "relink", "unlink", "set"},
         r.c \in {th[u].c, NULL}, th[u].pc # "forward"
  PROVE  IInv'
<1> DEFINE L == started({r.o, r.t}, NoLocks)
<1>1. r.o \in Objects /\ r.t \in Objects
  BY DEF FieldsOK, HasObject, HasTarget, Thread
<1>2. L \in LockerType /\ HasOne(L, {r.o, r.t}) /\ Held(L) = {}
  BY <1>1, StartsPair
<1> HIDE DEF L
<1>3. LocksFit(r, L, ForwardOf(r)) /\ Follows(r, coll, obj)
  BY <1>2 DEF LocksFit, Follows, Between
<1> QED
  BY <1>2, <1>3, QuietStep DEF L

-----------------------------------------------------------------------------
(* The actions that only move their thread *)

\* collector_run starts with its lists (collector.c:83-90).
LEMMA RunOnStep ==
  ASSUME IInv, NEW w \in Workers, Run(w), ~ counter_continue_waiting(th[w].c)
  PROVE  IInv'
<1> DEFINE r == th[w]
           s == [r EXCEPT !.pc = "merged"]
<1>1. w \in Threads /\ w # Mutator /\ r \in Thread /\ FieldsOK(r, w) /\ r.pc = "run"
  BY WorkerThread, Now DEF Run, At
<1>2. th' = [th EXCEPT ![w] = s] /\ UNCHANGED <<locker, coll, obj, work>>
  BY DEF Run, Goto, Become
<1>3. /\ s \in Thread /\ s.pc = "merged" /\ s.c = r.c /\ s.list = r.list
      /\ s.o = r.o /\ s.t = r.t /\ s.x = r.x /\ s.y = r.y /\ s.n = r.n
      /\ s.e = r.e /\ s.at = r.at
  BY <1>1, Places DEF Thread
<1> HIDE DEF s
<1>4. FieldsOK(s, w)
  BY <1>1, <1>3 DEF FieldsOK, HasObject, HasTarget
<1>5. r.pc \in Between /\ s.pc \in Between
  BY <1>1, <1>3 DEF Between
<1> QED
  BY <1>1, <1>2, <1>3, <1>4, <1>5, FreeStep

\* A list that is empty gives way to the next (collector.c:90-124).
LEMMA PollEmptyStep ==
  ASSUME IInv, NEW w \in Workers, Poll(w), coll[th[w].c].data[th[w].list] = <<>>
  PROVE  IInv'
<1> DEFINE r == th[w]
           s == IF r.list = "clean_list" THEN [r EXCEPT !.pc = "finish"]
                ELSE [r EXCEPT !.list = AfterList[r.list]]
<1>1. w \in Threads /\ w # Mutator /\ r \in Thread /\ FieldsOK(r, w) /\ r.pc = "poll"
  BY WorkerThread, Now DEF Poll, At
<1>2. th' = [th EXCEPT ![w] = s] /\ UNCHANGED <<locker, coll, obj, work>>
  BY DEF Poll, Become
<1>3. r.list \in PollLists
  BY <1>1 DEF FieldsOK
<1>4. r.list # "clean_list" => AfterList[r.list] \in PollLists
  BY <1>3 DEF PollLists, AfterList
<1>5. /\ s \in Thread /\ s.pc \in {"poll", "finish"} /\ s.c = r.c /\ s.list \in PollLists
      /\ s.o = r.o /\ s.t = r.t /\ s.x = r.x /\ s.y = r.y /\ s.n = r.n
      /\ s.e = r.e /\ s.at = r.at
  BY <1>1, <1>3, <1>4, Places DEF Thread
<1> HIDE DEF s
<1>6. FieldsOK(s, w)
  BY <1>1, <1>5 DEF FieldsOK, HasObject, HasTarget, PollLists
<1>7. r.pc \in Between /\ s.pc \in Between
  BY <1>1, <1>5 DEF Between
<1> QED
  BY <1>1, <1>2, <1>5, <1>6, <1>7, FreeStep

\* The pointer of a list leads on.
LEMMA ListedStep ==
  ASSUME IInv, NEW r \in Thread, r.at # NULL, r.at[1] \in Reach(Listed(coll), r.c),
         coll[r.at[1]].to[r.at[2]] # NULL
  PROVE  LET f == coll[r.at[1]].to[r.at[2]]
         IN  f \in Collectors /\ f \in Reach(Listed(coll), r.c)
<1>1. r.at[1] \in Collectors /\ r.at[2] \in ListNames
  BY DEF Thread
<1>2. coll[r.at[1]].to[r.at[2]] \in Collectors
  BY <1>1, ListedRefs
<1>3. coll[r.at[1]].to[r.at[2]] \in Listed(coll)[r.at[1]]
  BY <1>1 DEF Listed
<1> QED
  BY <1>2, <1>3, ReachStep

\* A worker goes on to where the list is forwarded, from the list or from one on
\* the way.
LEMMA WalkOnStep ==
  ASSUME IInv, NEW w \in Workers, th[w].pc \in {"put", "walk"},
         coll[th[w].at[1]].to[th[w].at[2]] # NULL,
         Become(w, [th[w] EXCEPT !.pc = "walk",
                                 !.at = <<coll[th[w].at[1]].to[th[w].at[2]],
                                          Receiver(th[w].at[2])>>]),
         UNCHANGED <<locker, coll, obj, work>>
  PROVE  IInv'
<1> DEFINE r == th[w]
           at == <<coll[r.at[1]].to[r.at[2]], Receiver(r.at[2])>>
           s == [r EXCEPT !.pc = "walk", !.at = at]
<1>1. /\ w \in Threads /\ w # Mutator /\ r \in Thread /\ FieldsOK(r, w)
      /\ LocksFit(r, locker[w], ForwardOf(r)) /\ r.at[1] \in Reach(Listed(coll), r.c)
  BY WorkerThread, Now DEF Follows
<1>2. th' = [th EXCEPT ![w] = s]
  BY DEF Become
<1>3. r.at # NULL /\ r.at \in Collectors \X ListNames
  BY <1>1 DEF FieldsOK, Thread
<1>4. /\ at \in Collectors \X ListNames /\ at[1] \in Reach(Listed(coll), r.c)
      /\ at # NULL /\ (at[2] = "rebuild_list" <=> r.at[2] = "rebuild_list")
  <2>1. /\ coll[r.at[1]].to[r.at[2]] \in Collectors
        /\ coll[r.at[1]].to[r.at[2]] \in Reach(Listed(coll), r.c)
    BY <1>1, <1>3, ListedStep
  <2>2. /\ Receiver(r.at[2]) \in ListNames
        /\ Receiver(r.at[2]) = "rebuild_list" <=> r.at[2] = "rebuild_list"
    BY <1>3 DEF Receiver, ListNames
  <2> QED
    BY <2>1, <2>2, CollectorsAssumption
<1> HIDE DEF at
<1>5. /\ s \in Thread /\ s.pc = "walk" /\ s.c = r.c /\ s.list = r.list
      /\ s.o = r.o /\ s.t = r.t /\ s.x = r.x /\ s.y = r.y /\ s.n = r.n
      /\ s.e = r.e /\ s.at = at
  <2>1. r \in Thread /\ at \in (Collectors \X ListNames) \cup {NULL} /\ "walk" \in PCs
    BY <1>1, <1>4, Places
  <2> HIDE DEF r
  <2> QED
    BY <2>1 DEF Thread
<1> HIDE DEF s, r
<1>6. FieldsOK(s, w)
  BY <1>1, <1>4, <1>5 DEF FieldsOK, HasObject, HasTarget, r
<1>7. LocksFit(s, locker[w], ForwardOf(s))
  BY <1>1, <1>4, <1>5 DEF LocksFit, Between, r
<1>8. Follows(s, coll, obj)
  BY <1>4, <1>5 DEF Follows
<1>9. r.pc # "forward"
  BY DEF r
<1> QED
  BY <1>1, <1>2, <1>5, <1>6, <1>7, <1>8, <1>9, SameLocksStep DEF r

\* safelist_add reads a forward pointer without a lock (safelist.c:31).
LEMMA WalkStep ==
  ASSUME IInv, NEW w \in Workers, Walk(w)
  PROVE  IInv'
<1> DEFINE r == th[w]
<1>1. CASE coll[r.at[1]].to[r.at[2]] = NULL
  <2> DEFINE s == [r EXCEPT !.pc = "put"]
  <2>1. /\ w \in Threads /\ w # Mutator /\ r \in Thread /\ FieldsOK(r, w) /\ r.pc = "walk"
        /\ LocksFit(r, locker[w], ForwardOf(r)) /\ Follows(r, coll, obj)
    BY WorkerThread, Now DEF Walk, At
  <2>2. th' = [th EXCEPT ![w] = s] /\ UNCHANGED <<locker, coll, obj, work>>
    BY <1>1 DEF Walk, Become
  <2>3. /\ s \in Thread /\ s.pc = "put" /\ s.c = r.c /\ s.list = r.list
        /\ s.o = r.o /\ s.t = r.t /\ s.x = r.x /\ s.y = r.y /\ s.n = r.n
        /\ s.e = r.e /\ s.at = r.at
    BY <2>1, Places DEF Thread
  <2> HIDE DEF s, r
  <2>4. FieldsOK(s, w)
    BY <2>1, <2>3 DEF FieldsOK, HasObject, HasTarget
  <2>5. LocksFit(s, locker[w], ForwardOf(s))
    BY <2>1, <2>3 DEF LocksFit, Between
  <2>6. Follows(s, coll, obj)
    BY <2>1, <2>3 DEF Follows
  <2> QED
    BY <2>1, <2>2, <2>3, <2>4, <2>5, <2>6, SameLocksStep DEF r
<1>2. CASE coll[r.at[1]].to[r.at[2]] # NULL
  <2>1. r.pc \in {"put", "walk"} /\ UNCHANGED <<locker, coll, obj, work>>
    BY DEF Walk, At
  <2>2. Become(w, [r EXCEPT !.at = <<coll[r.at[1]].to[r.at[2]], Receiver(r.at[2])>>])
    BY <1>2 DEF Walk
  <2>3. [r EXCEPT !.at = <<coll[r.at[1]].to[r.at[2]], Receiver(r.at[2])>>]
        = [r EXCEPT !.pc = "walk", !.at = <<coll[r.at[1]].to[r.at[2]], Receiver(r.at[2])>>]
    <3>1. r.pc = "walk" /\ r \in Thread
      BY WorkerThread, Now DEF Walk, At
    <3> QED
      BY <3>1 DEF Thread
  <2> QED
    BY <1>2, <2>1, <2>2, <2>3, WalkOnStep
<1> QED
  BY <1>1, <1>2

\* The next link of a node is locked at both ends.
LEMMA NextLinkStep ==
  ASSUME IInv, NEW w \in Workers, NEW p,
         \/ th[w].pc = "links" /\ p = "link"
         \/ th[w].pc = "rebuild" /\ p = "relink"
         \/ th[w].pc = "unlinks" /\ p = "unlink",
         NEW q \in th[w].todo,
         Become(w, [th[w] EXCEPT !.pc = p, !.t = q, !.todo = @ \ {q}]),
         Start(w, {th[w].o, q}), UNCHANGED <<coll, obj, work>>
  PROVE  IInv'
<1> DEFINE r == th[w]
           todo == r.todo \ {q}
           s == [r EXCEPT !.pc = p, !.t = q, !.todo = todo]
<1>1. /\ w \in Threads /\ w # Mutator /\ r \in Thread /\ FieldsOK(r, w)
      /\ LocksFit(r, locker[w], ForwardOf(r)) /\ locker \in [Threads -> LockerType]
  BY WorkerThread, Now DEF IInv, TypeOK, LockerTypeOK, LockerType
<1>2. r.pc \in Between /\ r.pc # "forward" /\ p \in PCs
  BY Places DEF Between
<1>3. locker[w] = NoLocks
  BY <1>1, <1>2 DEF LocksFit
<1>4. q \in Objects /\ todo \in SUBSET Objects
  BY <1>1 DEF Thread
<1>5. th' = [th EXCEPT ![w] = s]
  BY DEF Become
<1> HIDE DEF todo
<1>6. /\ s \in Thread /\ s.pc = p /\ s.c = r.c /\ s.list = r.list
      /\ s.o = r.o /\ s.t = q /\ s.x = r.x /\ s.y = r.y /\ s.n = r.n
      /\ s.e = r.e /\ s.at = r.at
  <2>1. r \in Thread
    BY <1>1
  <2> HIDE DEF r
  <2> QED
    BY <1>2, <1>4, <2>1 DEF Thread
<1> HIDE DEF s
<1>7. FieldsOK(s, w)
  <2>1. q # NULL
    BY <1>4, NullNoLock
  <2> QED
    BY <1>1, <1>6, <2>1 DEF FieldsOK, HasObject, HasTarget
<1>8. locker' = [locker EXCEPT ![w] = started({s.o, s.t}, NoLocks)]
  BY <1>1, <1>3, <1>6 DEF Start
<1>9. s.pc \in {"link", "relink", "unlink", "set"}
  BY <1>6
<1> QED
  BY <1>1, <1>2, <1>5, <1>6, <1>7, <1>8, <1>9, PairStep

\* After the last one the node goes on.
LEMMA LastLinkStep ==
  ASSUME IInv, NEW w \in Workers, th[w].pc \in {"links", "rebuild"},
         NEW l \in {NULL, "recovery_list", "clean_list"},
         Become(w, PutOn(th[w], l)), UNCHANGED <<locker, coll, obj, work>>
  PROVE  IInv'
<1> DEFINE r == th[w]
           s == PutOn(r, l)
<1>1. w \in Threads /\ r \in Thread /\ FieldsOK(r, w)
  BY WorkerThread, Now
<1>2. /\ r.c # NULL /\ r.o # NULL /\ r.list \in PollLists /\ r.x = NULL /\ r.y = NULL
      /\ r.n = 0 /\ r.at = NULL
  BY <1>1 DEF FieldsOK, HasObject, PollLists
<1>3. /\ s \in Thread /\ FieldsOK(s, w) /\ s.c = r.c
      /\ \/ s.pc \in Between
         \/ /\ s.pc \in {"put", "walk"} /\ s.at[2] # "rebuild_list"
            /\ s.at[1] \in Reach(Listed(coll), s.c)
  BY <1>1, <1>2, PutOnOK
<1>4. th' = [th EXCEPT ![w] = s] /\ r.pc \in Between
  BY DEF Become, Between
<1> HIDE DEF s
<1> QED
  BY <1>1, <1>3, <1>4, FreeStep

\* object_phantomize_node takes its next link (object.c:211).
LEMMA PhantomizeNextStep ==
  ASSUME IInv, NEW w \in Workers, PhantomizeNext(w)
  PROVE  IInv'
<1>1. th[w].pc = "links" /\ UNCHANGED <<coll, obj, work>>
  BY DEF PhantomizeNext, At
<1>2. CASE Become(w, PutOn(th[w], "recovery_list")) /\ UNCHANGED locker
  BY <1>1, <1>2, LastLinkStep
<1>3. ASSUME NEW q \in th[w].todo,
             Become(w, [th[w] EXCEPT !.pc = "link", !.t = q, !.todo = @ \ {q}]),
             Start(w, {th[w].o, q})
      PROVE  IInv'
  BY <1>1, <1>3, NextLinkStep
<1> QED
  BY <1>2, <1>3 DEF PhantomizeNext

\* object_recover_node takes its next key (object.c:294-305).
LEMMA RebuildNextStep ==
  ASSUME IInv, NEW w \in Workers, RebuildNext(w)
  PROVE  IInv'
<1>1. th[w].pc = "rebuild" /\ UNCHANGED <<coll, obj, work>>
  BY DEF RebuildNext, At
<1>2. CASE Become(w, PutOn(th[w], NextList[th[w].list])) /\ UNCHANGED locker
  <2>1. th[w].list \in {"recovery_list", "rebuild_list"}
    BY <1>1, WorkerThread, Now DEF FieldsOK
  <2>2. NextList[th[w].list] \in {NULL, "recovery_list", "clean_list"}
    BY <2>1 DEF NextList
  <2> QED
    BY <1>1, <1>2, <2>2, LastLinkStep
<1>3. ASSUME NEW q \in th[w].todo,
             Become(w, [th[w] EXCEPT !.pc = "relink", !.t = q, !.todo = @ \ {q}]),
             Start(w, {th[w].o, q})
      PROVE  IInv'
  BY <1>1, <1>3, NextLinkStep
<1> QED
  BY <1>2, <1>3 DEF RebuildNext

\* object_remove_links takes its next link (object.c:90).
LEMMA RemoveNextStep ==
  ASSUME IInv, NEW w \in Workers, RemoveNext(w)
  PROVE  IInv'
<1>1. th[w].pc = "unlinks" /\ UNCHANGED <<coll, obj, work>>
  BY DEF RemoveNext, At
<1>2. CASE Goto(w, IF th[w].list = "delete" THEN "del" ELSE "dec") /\ UNCHANGED locker
  <2> DEFINE r == th[w]
             s == [r EXCEPT !.pc = IF r.list = "delete" THEN "del" ELSE "dec"]
  <2>1. w \in Threads /\ w # Mutator /\ r \in Thread /\ FieldsOK(r, w)
    BY WorkerThread, Now
  <2>2. /\ s \in Thread /\ s.pc = (IF r.list = "delete" THEN "del" ELSE "dec")
        /\ s.c = r.c /\ s.list = r.list
        /\ s.o = r.o /\ s.t = r.t /\ s.x = r.x /\ s.y = r.y /\ s.n = r.n
        /\ s.e = r.e /\ s.at = r.at
    BY <2>1, Places DEF Thread
  <2>3. th' = [th EXCEPT ![w] = s]
    BY <1>2 DEF Goto, Become
  <2> HIDE DEF s
  <2>4. FieldsOK(s, w)
    BY <1>1, <2>1, <2>2 DEF FieldsOK, HasObject, HasTarget
  <2>5. r.pc \in Between /\ s.pc \in Between
    BY <1>1, <2>2 DEF Between
  <2> QED
    BY <1>1, <1>2, <2>1, <2>2, <2>3, <2>4, <2>5, FreeStep
<1>3. ASSUME NEW q \in th[w].todo,
             Become(w, [th[w] EXCEPT !.pc = "unlink", !.t = q, !.todo = @ \ {q}]),
             Start(w, {th[w].o, q})
      PROVE  IInv'
  BY <1>1, <1>3, NextLinkStep
<1> QED
  BY <1>2, <1>3 DEF RemoveNext

\* collector->forward is read without a lock (collector.c:126).
LEMMA FinishStep ==
  ASSUME IInv, NEW w \in Workers, Finish(w)
  PROVE  IInv'
<1> DEFINE r == th[w]
           f == coll[r.c].forward
           L == started({r.c, f}, NoLocks)
           s == [r EXCEPT !.pc = "ending"]
<1>1. /\ w \in Threads /\ w # Mutator /\ r \in Thread /\ FieldsOK(r, w) /\ r.pc = "finish"
      /\ LocksFit(r, locker[w], ForwardOf(r)) /\ locker \in [Threads -> LockerType]
  BY WorkerThread, Now DEF IInv, TypeOK, LockerTypeOK, LockerType, Finish, At
<1>2. locker' = [locker EXCEPT ![w] = L]
  BY <1>1 DEF LocksFit, Between, Finish, Start
<1>3. th' = [th EXCEPT ![w] = s] /\ UNCHANGED <<coll, obj, work>>
  BY DEF Finish, Goto, Become
<1>4. r.c \in Collectors /\ f \in Collectors \cup {NULL} /\ ForwardOf(r) = f /\ r.c # NULL
  BY <1>1 DEF FieldsOK, Thread, ForwardOf, IInv, TypeOK, Collector
<1>5. L \in LockerType /\ HasOne(L, {r.c, f} \ {NULL}) /\ Held(L) = {}
  <2>1. {r.c, f} \in SUBSET (Locks \cup {NULL}) /\ lock_set({r.c, f}) = {r.c, f} \ {NULL}
    BY <1>4, NullNoLock DEF lock_set
  <2>2. lock_set({r.c, f}) # {}
    BY <1>4, <2>1
  <2> QED
    BY <2>1, <2>2, StartedOne
<1>6. /\ s \in Thread /\ s.pc = "ending" /\ s.c = r.c /\ s.list = r.list
      /\ s.o = r.o /\ s.t = r.t /\ s.x = r.x /\ s.y = r.y /\ s.n = r.n
      /\ s.e = r.e /\ s.at = r.at
  BY <1>1, Places DEF Thread
<1> HIDE DEF s, L, f
<1>7. FieldsOK(s, w)
  BY <1>1, <1>6 DEF FieldsOK, HasObject, HasTarget
<1>8. LocksFit(s, L, ForwardOf(s))
  <2>1. ForwardOf(s) = f /\ {r.c, f} \ {NULL} \in EndSets(s.c, f)
    BY <1>4, <1>6 DEF ForwardOf, EndSets
  <2>2. \E A \in EndSets(s.c, f) : HasOne(L, A)
    BY <1>5, <2>1
  <2> QED
    BY <1>6, <2>1, <2>2 DEF LocksFit, Between
<1>9. Follows(s, coll, obj)
  BY <1>6 DEF Follows
<1> QED
  BY <1>1, <1>2, <1>3, <1>5, <1>6, <1>7, <1>8, <1>9, QuietStep

\* The collector of an object that is not locked is looked for, under the lock
\* of the object.
LEMMA UpdateStep ==
  ASSUME IInv, NEW w \in Workers, Update(w)
  PROVE  IInv'
<1> DEFINE r == th[w]
           c == obj[r.o].collector
           p == taken(r.o, NoLocks)
           L == IF c = NULL THEN p ELSE started({c}, p)
           s == [r EXCEPT !.pc = IF c = NULL THEN "updated" ELSE "update", !.x = c]
<1>1. /\ w \in Threads /\ w # Mutator /\ r \in Thread /\ FieldsOK(r, w)
      /\ r.pc \in {"phantomize", "recover"}
      /\ LocksFit(r, locker[w], ForwardOf(r)) /\ locker \in [Threads -> LockerType]
  BY WorkerThread, Now DEF IInv, TypeOK, LockerTypeOK, LockerType, Update, At
<1>2. r.o \in Objects /\ c \in Collectors \cup {NULL}
  BY <1>1 DEF FieldsOK, HasObject, Thread, IInv, TypeOK, Object
<1>3. locker[w] = NoLocks /\ locker' = [locker EXCEPT ![w] = L]
  BY <1>1 DEF LocksFit, Between, Update
<1>4. th' = [th EXCEPT ![w] = s] /\ UNCHANGED <<coll, obj, work>> /\ FreeFor(w, r.o)
  BY DEF Update, Become
<1>5. /\ L \in LockerType /\ Held(L) = {r.o}
      /\ c = NULL => HasOne(L, {r.o})
      /\ c # NULL => HasTwo(L, {r.o}, {c})
  <2>1. /\ p \in LockerType /\ p.stack = <<{r.o}>> /\ HasOne(p, {r.o}) /\ Complete(p)
        /\ Held(p) = {r.o}
    BY <1>2, NullNoLock, TakenOne
  <2>2. c # NULL => {c} \in SUBSET (Locks \cup {NULL}) /\ lock_set({c}) = {c}
    BY <1>2, NullNoLock DEF lock_set
  <2> HIDE DEF p
  <2> QED
    BY <2>1, <2>2, StartedTwo
<1>6. c # NULL => Leads(coll, obj, r.o, c)
  BY <1>2, ReachSelf DEF Leads
<1> HIDE DEF L
<1>7. /\ s \in Thread /\ s.pc = (IF c = NULL THEN "updated" ELSE "update")
      /\ s.c = r.c /\ s.list = r.list
      /\ s.o = r.o /\ s.t = r.t /\ s.x = c /\ s.y = r.y /\ s.n = r.n
      /\ s.e = r.e /\ s.at = r.at
  <2> DEFINE pc == IF c = NULL THEN "updated" ELSE "update"
  <2>1. r \in Thread /\ pc \in PCs
    BY <1>1, Places
  <2>2. s = [r EXCEPT !.pc = pc, !.x = c]
    OBVIOUS
  <2> HIDE DEF c, r, s, pc
  <2>3. /\ s \in Thread /\ s.pc = pc /\ s.c = r.c /\ s.list = r.list
        /\ s.o = r.o /\ s.t = r.t /\ s.x = c /\ s.y = r.y /\ s.n = r.n
        /\ s.e = r.e /\ s.at = r.at
    BY <1>2, <2>1, <2>2 DEF Thread
  <2> QED
    BY <2>3 DEF pc
<1> HIDE DEF s, c, r
<1>8. FieldsOK(s, w)
  BY <1>1, <1>7 DEF FieldsOK, HasObject, HasTarget
<1>9. LocksFit(s, L, ForwardOf(s))
  BY <1>5, <1>7 DEF LocksFit, Between
<1>10. Follows(s, coll, obj)
  BY <1>6, <1>7 DEF Follows
<1>11. \A k \in Held(L) : k \in HeldBy(w) \/ FreeFor(w, k)
  BY <1>4, <1>5
<1>12. s.c \in {th[w].c, NULL} /\ th[w].pc # "forward" /\ s.pc # "terminate"
  BY <1>1, <1>7 DEF r
<1> QED
  BY <1>1, <1>3, <1>4, <1>5, <1>7, <1>8, <1>9, <1>10, <1>11, <1>12, QuietStep

\* The collector has been merged: it goes on to the one it forwards to.
LEMMA UpdateOnStep ==
  ASSUME IInv, NEW w \in Workers, Updated(w), coll[th[w].x].forward # NULL
  PROVE  IInv'
<1> DEFINE r == th[w]
           f == coll[r.x].forward
           L == started({f}, ended(locker[w]))
           s == [r EXCEPT !.x = f]
<1>1. /\ w \in Threads /\ w # Mutator /\ r \in Thread /\ FieldsOK(r, w)
      /\ r.pc = "update" /\ locker[w].want = {} /\ locker[w] \in LockerType
      /\ LocksFit(r, locker[w], ForwardOf(r)) /\ locker \in [Threads -> LockerType]
      /\ HeldBy(w) = Held(locker[w]) /\ Follows(r, coll, obj)
  BY WorkerThread, Now
  DEF IInv, TypeOK, LockerTypeOK, LockerType, Updated, At, Ready
<1>2. r.o \in Objects /\ Leads(coll, obj, r.o, r.x)
  BY <1>1 DEF FieldsOK, HasObject, Thread, Follows
<1>3. Leads(coll, obj, r.o, f) /\ f \in Collectors
  BY <1>2, LeadsStep, LedRefs DEF IInv
<1>4. locker' = [locker EXCEPT ![w] = L]
  BY DEF Updated, Restart
<1>5. th' = [th EXCEPT ![w] = s] /\ UNCHANGED <<coll, obj, work>>
  BY DEF Updated, Become
<1>6. HasTwo(locker[w], {r.o}, {r.x})
  BY <1>1 DEF LocksFit
<1>7. L \in LockerType /\ Held(L) = {r.o} /\ HasTwo(L, {r.o}, {f}) /\ r.o \in HeldBy(w)
  <2> DEFINE M == ended(locker[w])
  <2>1. M \in LockerType /\ M.stack = <<{r.o}>> /\ Complete(M)
    BY <1>1, <1>6, EndedTwo
  <2>2. {f} \in SUBSET (Locks \cup {NULL}) /\ lock_set({f}) = {f}
    BY <1>3, NullNoLock DEF lock_set
  <2>3. r.o \in Held(locker[w])
    BY <1>6, HeldTwo
  <2> HIDE DEF M, f
  <2> QED
    BY <1>1, <2>1, <2>2, <2>3, StartedTwo DEF M
<1> HIDE DEF L
<1>8. /\ s \in Thread /\ s.pc = "update" /\ s.c = r.c /\ s.list = r.list
      /\ s.o = r.o /\ s.t = r.t /\ s.x = f /\ s.y = r.y /\ s.n = r.n
      /\ s.e = r.e /\ s.at = r.at
  BY <1>1, <1>3 DEF Thread
<1> HIDE DEF s, f
<1>9. FieldsOK(s, w)
  BY <1>1, <1>3, <1>8, NullNoLock DEF FieldsOK, HasObject, HasTarget
<1>10. LocksFit(s, L, ForwardOf(s))
  BY <1>7, <1>8 DEF LocksFit, Between
<1>11. Follows(s, coll, obj)
  BY <1>3, <1>8 DEF Follows
<1> QED
  BY <1>1, <1>4, <1>5, <1>7, <1>8, <1>9, <1>10, <1>11, QuietStep

\* The node at hand is unlocked again.
LEMMA NodeUnlocked ==
  ASSUME IInv, NEW w \in Workers, At(w, "updated"), End(w)
  PROVE  locker' = [locker EXCEPT ![w] = NoLocks]
<1>1. locker[w] \in LockerType /\ locker[w].want = {} /\ HasOne(locker[w], {th[w].o})
  BY WorkerThread, Now DEF At, Ready, LocksFit
<1> QED
  BY <1>1, EndedOne DEF End

\* A node that has been looked at is let go of, or put on a list.
LEMMA NodeDoneStep ==
  ASSUME IInv, NEW w \in Workers, At(w, "updated"), End(w),
         NEW l \in {NULL, "recovery_list", "clean_list"},
         Become(w, PutOn(th[w], l)), UNCHANGED <<coll, obj, work>>
  PROVE  IInv'
<1> DEFINE r == th[w]
           s == PutOn(r, l)
<1>1. w \in Threads /\ r \in Thread /\ FieldsOK(r, w) /\ r.pc = "updated"
  BY WorkerThread, Now DEF At
<1>2. /\ r.c # NULL /\ r.o # NULL /\ r.list \in PollLists /\ r.x = NULL /\ r.y = NULL
      /\ r.n = 0 /\ r.at = NULL
  BY <1>1 DEF FieldsOK, HasObject, PollLists
<1>3. /\ s \in Thread /\ FieldsOK(s, w) /\ s.c = r.c
      /\ \/ s.pc \in Between
         \/ /\ s.pc \in {"put", "walk"} /\ s.at[2] # "rebuild_list"
            /\ s.at[1] \in Reach(Listed(coll), s.c)
  BY <1>1, <1>2, PutOnOK
<1>4. th' = [th EXCEPT ![w] = s]
  BY DEF Become
<1>5. locker' = [locker EXCEPT ![w] = NoLocks]
  BY NodeUnlocked
<1> HIDE DEF s
<1> QED
  BY <1>1, <1>3, <1>4, <1>5, UnlockedStep

\* A worker wakes up and looks at its node again (object.c:281-287).
LEMMA AwaitStep ==
  ASSUME IInv, NEW w \in Workers, Await(w)
  PROVE  IInv'
<1> DEFINE r == th[w]
           L == taken(r.o, NoLocks)
           s == [r EXCEPT !.pc = "updated"]
<1>1. /\ w \in Threads /\ w # Mutator /\ r \in Thread /\ FieldsOK(r, w) /\ r.pc = "await"
      /\ LocksFit(r, locker[w], ForwardOf(r)) /\ locker \in [Threads -> LockerType]
  BY WorkerThread, Now DEF IInv, TypeOK, LockerTypeOK, LockerType, Await, At
<1>2. r.o \in Objects
  BY <1>1 DEF FieldsOK, HasObject, Thread
<1>3. locker' = [locker EXCEPT ![w] = L]
  BY <1>1 DEF LocksFit, Between, Await
<1>4. th' = [th EXCEPT ![w] = s] /\ UNCHANGED <<coll, obj, work>> /\ FreeFor(w, r.o)
  BY DEF Await, Goto, Become
<1>5. L \in LockerType /\ Held(L) = {r.o} /\ HasOne(L, {r.o})
  BY <1>2, NullNoLock, TakenOne
<1>6. /\ s \in Thread /\ s.pc = "updated" /\ s.c = r.c /\ s.list = r.list
      /\ s.o = r.o /\ s.t = r.t /\ s.x = r.x /\ s.y = r.y /\ s.n = r.n
      /\ s.e = r.e /\ s.at = r.at
  BY <1>1, Places DEF Thread
<1> HIDE DEF s, L
<1>7. FieldsOK(s, w)
  BY <1>1, <1>6 DEF FieldsOK, HasObject, HasTarget
<1>8. LocksFit(s, L, ForwardOf(s))
  BY <1>5, <1>6 DEF LocksFit, Between
<1>9. Follows(s, coll, obj)
  BY <1>6 DEF Follows
<1> QED
  BY <1>1, <1>3, <1>4, <1>5, <1>6, <1>7, <1>8, <1>9, QuietStep

\* Both collectors are the same one: the merge before saw to it, and the source
\* of the link has been locked since.
LEMMA EqualsStep ==
  ASSUME IInv, NEW w \in Workers, collector_equals(w)
  PROVE  IInv'
<1> DEFINE r == th[w]
           s == [r EXCEPT !.pc = "links", !.t = NULL, !.x = NULL, !.y = NULL]
<1>1. /\ w \in Threads /\ w # Mutator /\ r \in Thread /\ FieldsOK(r, w)
      /\ r.pc = "equals" /\ locker[w].want = {} /\ locker[w] \in LockerType
      /\ LocksFit(r, locker[w], ForwardOf(r)) /\ Follows(r, coll, obj)
  BY WorkerThread, Now DEF collector_equals, At, Ready
<1>2. r.x = r.y
  BY <1>1 DEF Follows
<1>3. HasTwo(locker[w], {r.o, r.t}, {r.x} \ {NULL})
  BY <1>1 DEF LocksFit
<1>4. ended(ended(locker[w])) = NoLocks
  BY <1>1, <1>3, EndedTwo
<1>5. th' = [th EXCEPT ![w] = s] /\ UNCHANGED <<coll, obj, work>>
  BY <1>2 DEF collector_equals, Become
<1>6. locker' = [locker EXCEPT ![w] = NoLocks]
  BY <1>2, <1>4 DEF collector_equals, EndTwo
<1>7. /\ s \in Thread /\ s.pc = "links" /\ s.c = r.c /\ s.list = r.list
      /\ s.o = r.o /\ s.t = NULL /\ s.x = NULL /\ s.y = NULL /\ s.n = r.n
      /\ s.e = r.e /\ s.at = r.at
  <2>1. r \in Thread
    BY <1>1
  <2> HIDE DEF r
  <2> QED
    BY <2>1, Places DEF Thread
<1> HIDE DEF s
<1>8. FieldsOK(s, w)
  BY <1>1, <1>7 DEF FieldsOK, HasObject, HasTarget
<1>9. s.pc \in Between
  BY <1>7 DEF Between
<1> QED
  BY <1>1, <1>5, <1>6, <1>7, <1>8, <1>9, UnlockedStep

-----------------------------------------------------------------------------
(* Changes of objects *)

Objs == [Objects -> Object]

\* The objects os have the collectors that they have in old.
SameOwners(os, old) == \A p \in Objects : os[p].collector = old[p].collector

\* Writing an object's strong and weak links leaves all collectors.
LEMMA LinksSet ==
  ASSUME NEW os \in Objs, NEW o \in Objects, NEW A \in SUBSET Objects
  PROVE  [os EXCEPT ![o].links = A] \in Objs /\ SameOwners([os EXCEPT ![o].links = A], os)
BY DEF Object, Objs, SameOwners

\* So does writing its phantom links,
LEMMA PhantomsSet ==
  ASSUME NEW os \in Objs, NEW o \in Objects, NEW A \in SUBSET Objects
  PROVE  /\ [os EXCEPT ![o].phantoms = A] \in Objs
         /\ SameOwners([os EXCEPT ![o].phantoms = A], os)
BY DEF Object, Objs, SameOwners

\* its phantom count,
LEMMA PhantomSet ==
  ASSUME NEW os \in Objs, NEW o \in Objects, NEW n \in Int
  PROVE  /\ [os EXCEPT ![o].phantom = n] \in Objs
         /\ SameOwners([os EXCEPT ![o].phantom = n], os)
BY DEF Object, Objs, SameOwners

\* and its flag.
LEMMA FlagSet ==
  ASSUME NEW os \in Objs, NEW o \in Objects, NEW b \in BOOLEAN
  PROVE  /\ [os EXCEPT ![o].phantomized = b] \in Objs
         /\ SameOwners([os EXCEPT ![o].phantomized = b], os)
BY DEF Object, Objs, SameOwners

\* object_set_collector changes one collector (object.c:25-37).
LEMMA CollectorSet ==
  ASSUME NEW os \in Objs, NEW o \in Objects, NEW c \in Collectors \cup {NULL}
  PROVE  /\ object_set_collector(os, o, c) \in Objs
         /\ \A p \in Objects : object_set_collector(os, o, c)[p].collector =
                                 IF p = o THEN c ELSE os[p].collector
BY DEF Object, Objs, object_set_collector

\* object_dec_phantom at most takes the object's collector away
\* (object.c:140-160).
LEMMA DecPhantomOK ==
  ASSUME NEW os \in Objs, NEW o \in Objects
  PROVE  /\ dec_phantom(os, o) \in Objs
         /\ \A p \in Objects :
              \/ dec_phantom(os, o)[p].collector = os[p].collector
              \/ p = o /\ dec_phantom(os, o)[p].collector = NULL
<1> DEFINE m == [os EXCEPT ![o].phantom = @ - 1]
           c == IF os[o].phantom = 1 /\ InUse(os, o) THEN NULL ELSE m[o].collector
           s == [m EXCEPT ![o].collector = c]
<1>1. m \in Objs /\ SameOwners(m, os)
  BY DEF Objs, Object, SameOwners
<1>2. c \in Collectors \cup {NULL} /\ (c = NULL \/ c = m[o].collector)
  <2> HIDE DEF m
  <2> QED
    BY <1>1 DEF Object, Objs
<1>3. s \in Objs /\ \A p \in Objects : s[p].collector = IF p = o THEN c ELSE m[p].collector
  <2> HIDE DEF m, c
  <2> QED
    BY <1>1, <1>2 DEF Objs, Object
<1>4. dec_phantom(os, o) = s
  BY DEF dec_phantom
<1> HIDE DEF m, s, c
<1> QED
  BY <1>1, <1>2, <1>3, <1>4 DEF SameOwners

\* Links of o to p, of either kind, are added or removed.
LEMMA UnlinkedOK ==
  ASSUME NEW os \in Objs, NEW o \in Objects, NEW p \in Objects
  PROVE  LET s == [os EXCEPT ![o].links = @ \ {p}, ![o].phantoms = @ \ {p}]
         IN  s \in Objs /\ SameOwners(s, os)
<1> DEFINE A == os[o].links \ {p}
           m == [os EXCEPT ![o].links = A]
           B == m[o].phantoms \ {p}
           s == [m EXCEPT ![o].phantoms = B]
<1>1. m \in Objs /\ SameOwners(m, os)
  <2>1. A \in SUBSET Objects
    BY DEF Objs, Object
  <2> QED
    BY <2>1, LinksSet
<1>2. s \in Objs /\ SameOwners(s, m)
  <2>1. B \in SUBSET Objects
    BY <1>1 DEF Objs, Object
  <2> HIDE DEF m, B
  <2> QED
    BY <1>1, <2>1, PhantomsSet
<1>3. s = [os EXCEPT ![o].links = @ \ {p}, ![o].phantoms = @ \ {p}]
  OBVIOUS
<1> QED
  BY <1>1, <1>2, <1>3 DEF SameOwners

\* A phantom link becomes a strong or weak one.
LEMMA RelinkedOK ==
  ASSUME NEW os \in Objs, NEW o \in Objects, NEW p \in Objects
  PROVE  LET s == [os EXCEPT ![o].links = @ \cup {p}, ![o].phantoms = @ \ {p}]
         IN  s \in Objs /\ SameOwners(s, os)
<1> DEFINE A == os[o].links \cup {p}
           m == [os EXCEPT ![o].links = A]
           B == m[o].phantoms \ {p}
           s == [m EXCEPT ![o].phantoms = B]
<1>1. m \in Objs /\ SameOwners(m, os)
  <2>1. A \in SUBSET Objects
    BY DEF Objs, Object
  <2> QED
    BY <2>1, LinksSet
<1>2. s \in Objs /\ SameOwners(s, m)
  <2>1. B \in SUBSET Objects
    BY <1>1 DEF Objs, Object
  <2> HIDE DEF m, B
  <2> QED
    BY <1>1, <2>1, PhantomsSet
<1>3. s = [os EXCEPT ![o].links = @ \cup {p}, ![o].phantoms = @ \ {p}]
  OBVIOUS
<1> QED
  BY <1>1, <1>2, <1>3 DEF SameOwners

\* And the other way round.
LEMMA PhantomLinkOK ==
  ASSUME NEW os \in Objs, NEW o \in Objects, NEW p \in Objects
  PROVE  LET s == [os EXCEPT ![o].links = @ \ {p}, ![o].phantoms = @ \cup {p}]
         IN  s \in Objs /\ SameOwners(s, os)
<1> DEFINE A == os[o].links \ {p}
           m == [os EXCEPT ![o].links = A]
           B == m[o].phantoms \cup {p}
           s == [m EXCEPT ![o].phantoms = B]
<1>1. m \in Objs /\ SameOwners(m, os)
  <2>1. A \in SUBSET Objects
    BY DEF Objs, Object
  <2> QED
    BY <2>1, LinksSet
<1>2. s \in Objs /\ SameOwners(s, m)
  <2>1. B \in SUBSET Objects
    BY <1>1 DEF Objs, Object
  <2> HIDE DEF m, B
  <2> QED
    BY <1>1, <2>1, PhantomsSet
<1>3. s = [os EXCEPT ![o].links = @ \ {p}, ![o].phantoms = @ \cup {p}]
  OBVIOUS
<1> QED
  BY <1>1, <1>2, <1>3 DEF SameOwners

\* A step that moves its thread and changes objects, whose collectors it sets,
\* while no one else has them locked, to NULL or to one with references.
LEMMA ObjectStep ==
  ASSUME IInv, NEW u \in Threads, NEW r \in Thread, NEW L \in LockerType,
         th' = [th EXCEPT ![u] = r], locker' = [locker EXCEPT ![u] = L],
         UNCHANGED coll, obj' \in Objs,
         \A p \in Objects :
           LET c == obj'[p].collector
           IN  c = obj[p].collector \/ (FreeFor(u, p) /\ (c = NULL \/ Refs(c) # {})),
         work' = work \/ \E x \in Objects : work' = Append(work, x),
         \A k \in Held(L) : k \in HeldBy(u) \/ FreeFor(u, k),
         FieldsOK(r, u), LocksFit(r, L, ForwardOf(r)), Follows(r, coll, obj'),
         r.c \in {th[u].c, NULL}, th[u].pc # "forward", r.pc # "terminate"
  PROVE  IInv'
<1>1. ForwardOf(r)' = ForwardOf(r) /\ coll' = coll
  BY DEF ForwardOf
<1>2. Moves(u, r, L)
  BY <1>1 DEF Moves
<1>3. ObjectsKept(u) /\ PointersSame /\ CollectorsKept
  BY DEF ObjectsKept, PointersSame, CollectorsKept
<1>4. NothingStranded' /\ coll' \in [Collectors -> Collector]
  BY DEF IInv, TypeOK, NothingStranded
<1>5. obj' \in [Objects -> Object]
  BY DEF Objs
<1> QED
  BY <1>2, <1>3, <1>4, <1>5, PlainStep

\* The thread has no lock after it.
LEMMA ObjectUnlockedStep ==
  ASSUME IInv, NEW u \in Threads, NEW r \in Thread,
         th' = [th EXCEPT ![u] = r], locker' = [locker EXCEPT ![u] = NoLocks],
         UNCHANGED coll, obj' \in Objs,
         \A p \in Objects :
           LET c == obj'[p].collector
           IN  c = obj[p].collector \/ (FreeFor(u, p) /\ (c = NULL \/ Refs(c) # {})),
         work' = work \/ \E x \in Objects : work' = Append(work, x),
         FieldsOK(r, u), r.pc \in Between,
         r.c \in {th[u].c, NULL}, th[u].pc # "forward"
  PROVE  IInv'
<1>1. LocksFit(r, NoLocks, ForwardOf(r)) /\ Follows(r, coll, obj')
  BY DEF LocksFit, Follows, Between
<1>2. \A k \in Held(NoLocks) : k \in HeldBy(u) \/ FreeFor(u, k)
  BY NoLocksType, LocksOfNone DEF Held
<1>3. r.pc # "terminate"
  BY DEF Between
<1>4. NoLocks \in LockerType
  BY NoLocksType
<1> QED
  BY <1>1, <1>2, <1>3, <1>4, ObjectStep

\* What a thread has locked no one else has.
LEMMA HeldFree ==
  ASSUME IInv, NEW u \in Threads, NEW k \in HeldBy(u)
  PROVE  FreeFor(u, k)
BY DEF IInv, Exclusive

-----------------------------------------------------------------------------
(* The sections of a node, and those of a link that lists are not added to *)

\* object_phantomize_node takes its node (object.c:178-207).
LEMMA PhantomizeNodeStep ==
  ASSUME IInv, NEW w \in Workers, PhantomizeNode(w)
  PROVE  IInv'
<1> DEFINE r == th[w]
           s == [r EXCEPT !.pc = "links", !.todo = obj[r.o].links]
<1>1. At(w, "updated") /\ End(w) /\ UNCHANGED <<coll, work>> /\ r.list = "collect"
  BY DEF PhantomizeNode
<1>2. CASE Become(w, PutOn(r, "recovery_list")) /\ UNCHANGED obj
  BY <1>1, <1>2, NodeDoneStep
<1>3. CASE obj' = [obj EXCEPT ![r.o].phantomized = TRUE] /\ Become(w, s)
  <2>1. w \in Threads /\ w # Mutator /\ r \in Thread /\ FieldsOK(r, w) /\ r.pc = "updated"
    BY <1>1, WorkerThread, Now DEF At
  <2>2. r.o \in Objects /\ obj \in Objs /\ obj[r.o].links \in SUBSET Objects
    BY <2>1 DEF FieldsOK, HasObject, Thread, IInv, TypeOK, Objs, Object
  <2>3. obj' \in Objs /\ SameOwners(obj', obj)
    BY <1>3, <2>2, FlagSet
  <2>4. /\ s \in Thread /\ s.pc = "links" /\ s.c = r.c /\ s.list = r.list
        /\ s.o = r.o /\ s.t = r.t /\ s.x = r.x /\ s.y = r.y /\ s.n = r.n
        /\ s.e = r.e /\ s.at = r.at
    BY <2>1, <2>2, Places DEF Thread
  <2>5. th' = [th EXCEPT ![w] = s]
    BY <1>3 DEF Become
  <2>6. locker' = [locker EXCEPT ![w] = NoLocks]
    BY <1>1, NodeUnlocked
  <2> HIDE DEF s
  <2>7. FieldsOK(s, w) /\ s.pc \in Between
    BY <1>1, <2>1, <2>4 DEF FieldsOK, HasObject, HasTarget, Between
  <2> QED
    BY <1>1, <2>1, <2>3, <2>4, <2>5, <2>6, <2>7, ObjectUnlockedStep DEF SameOwners
<1> QED
  BY <1>2, <1>3 DEF PhantomizeNode

\* object_recover_node takes its node, or waits for it (object.c:270-292).
LEMMA RecoverNodeStep ==
  ASSUME IInv, NEW w \in Workers, RecoverNode(w)
  PROVE  IInv'
<1> DEFINE r == th[w]
<1>1. At(w, "updated") /\ End(w) /\ UNCHANGED <<coll, work>> /\ r.list # "collect"
  BY DEF RecoverNode
<1>2. w \in Threads /\ w # Mutator /\ r \in Thread /\ FieldsOK(r, w) /\ r.pc = "updated"
  BY <1>1, WorkerThread, Now DEF At
<1>3. r.list \in {"recovery_list", "rebuild_list"}
  BY <1>1, <1>2 DEF FieldsOK
<1>4. locker' = [locker EXCEPT ![w] = NoLocks]
  BY <1>1, NodeUnlocked
<1>5. CASE Become(w, PutOn(r, NextList[r.list])) /\ UNCHANGED obj
  <2>1. NextList[r.list] \in {NULL, "recovery_list", "clean_list"}
    BY <1>3 DEF NextList
  <2> QED
    BY <1>1, <1>5, <2>1, NodeDoneStep
<1>6. CASE Goto(w, "await") /\ UNCHANGED obj
  <2> DEFINE s == [r EXCEPT !.pc = "await"]
  <2>1. /\ s \in Thread /\ s.pc = "await" /\ s.c = r.c /\ s.list = r.list
        /\ s.o = r.o /\ s.t = r.t /\ s.x = r.x /\ s.y = r.y /\ s.n = r.n
        /\ s.e = r.e /\ s.at = r.at
    BY <1>2, Places DEF Thread
  <2>2. th' = [th EXCEPT ![w] = s]
    BY <1>6 DEF Goto, Become
  <2> HIDE DEF s
  <2>3. FieldsOK(s, w) /\ s.pc \in Between
    BY <1>2, <1>3, <2>1 DEF FieldsOK, HasObject, HasTarget, Between
  <2> QED
    BY <1>1, <1>2, <1>4, <1>6, <2>1, <2>2, <2>3, UnlockedStep
<1>7. CASE /\ obj' = [obj EXCEPT ![r.o].phantomized = FALSE]
           /\ Become(w, [r EXCEPT !.pc = "rebuild",
                                  !.todo = obj[r.o].links \cup obj[r.o].phantoms])
  <2> DEFINE todo == obj[r.o].links \cup obj[r.o].phantoms
             s == [r EXCEPT !.pc = "rebuild", !.todo = todo]
  <2>1. r.o \in Objects /\ obj \in Objs /\ todo \in SUBSET Objects
    BY <1>2 DEF FieldsOK, HasObject, Thread, IInv, TypeOK, Objs, Object
  <2>2. obj' \in Objs /\ SameOwners(obj', obj)
    BY <1>7, <2>1, FlagSet
  <2>3. th' = [th EXCEPT ![w] = s]
    BY <1>7 DEF Become
  <2> HIDE DEF todo
  <2>4. /\ s \in Thread /\ s.pc = "rebuild" /\ s.c = r.c /\ s.list = r.list
        /\ s.o = r.o /\ s.t = r.t /\ s.x = r.x /\ s.y = r.y /\ s.n = r.n
        /\ s.e = r.e /\ s.at = r.at
    BY <1>2, <2>1, Places DEF Thread
  <2> HIDE DEF s
  <2>5. FieldsOK(s, w) /\ s.pc \in Between
    BY <1>2, <1>3, <2>4 DEF FieldsOK, HasObject, HasTarget, Between
  <2> QED
    BY <1>1, <1>2, <1>4, <2>2, <2>3, <2>4, <2>5, ObjectUnlockedStep DEF SameOwners
<1> QED
  BY <1>5, <1>6, <1>7 DEF RecoverNode

\* The collector at the end of the chain becomes that of the node.
LEMMA UpdatedStep ==
  ASSUME IInv, NEW w \in Workers, Updated(w), coll[th[w].x].forward = NULL
  PROVE  IInv'
<1> DEFINE r == th[w]
           L == ended(locker[w])
           s == [r EXCEPT !.pc = "updated", !.x = NULL]
<1>1. /\ w \in Threads /\ w # Mutator /\ r \in Thread /\ FieldsOK(r, w)
      /\ r.pc = "update" /\ locker[w].want = {} /\ locker[w] \in LockerType
      /\ LocksFit(r, locker[w], ForwardOf(r)) /\ Follows(r, coll, obj)
      /\ HeldBy(w) = Held(locker[w])
  BY WorkerThread, Now DEF Updated, At, Ready
<1>2. /\ obj' = object_set_collector(obj, r.o, r.x) /\ th' = [th EXCEPT ![w] = s]
      /\ locker' = [locker EXCEPT ![w] = L] /\ UNCHANGED <<coll, work>>
  BY DEF Updated, Become, End
<1>3. r.o \in Objects /\ Leads(coll, obj, r.o, r.x) /\ obj \in Objs
  BY <1>1 DEF FieldsOK, HasObject, Thread, Follows, IInv, TypeOK, Objs
<1>4. r.x \in Collectors /\ Refs(r.x) # {}
  BY <1>3, LedRefs DEF IInv
<1>5. obj' \in Objs
      /\ \A p \in Objects : obj'[p].collector = IF p = r.o THEN r.x ELSE obj[p].collector
  BY <1>2, <1>3, <1>4, CollectorSet
<1>6. HasTwo(locker[w], {r.o}, {r.x})
  BY <1>1 DEF LocksFit
<1>7. L \in LockerType /\ HasOne(L, {r.o}) /\ Held(L) = {r.o}
  BY <1>1, <1>6, EndedTwo
<1>8. r.o \in HeldBy(w) /\ FreeFor(w, r.o)
  <2>1. r.o \in Held(locker[w])
    BY <1>6, HeldTwo
  <2> QED
    BY <1>1, <2>1, HeldFree
<1> HIDE DEF L
<1>9. /\ s \in Thread /\ s.pc = "updated" /\ s.c = r.c /\ s.list = r.list
      /\ s.o = r.o /\ s.t = r.t /\ s.x = NULL /\ s.y = r.y /\ s.n = r.n
      /\ s.e = r.e /\ s.at = r.at
  <2>1. r \in Thread /\ "updated" \in PCs
    BY <1>1, Places
  <2> HIDE DEF r
  <2>2. s \in Thread
    BY <2>1, FollowsSet
  <2> QED
    BY <2>1, <2>2 DEF Thread
<1> HIDE DEF s
<1>10. FieldsOK(s, w)
  BY <1>1, <1>9 DEF FieldsOK, HasObject, HasTarget
<1>11. LocksFit(s, L, ForwardOf(s))
  BY <1>7, <1>9 DEF LocksFit, Between
<1>12. Follows(s, coll, obj')
  BY <1>9 DEF Follows
<1>13. \A p \in Objects :
         LET c == obj'[p].collector
         IN  c = obj[p].collector \/ (FreeFor(w, p) /\ (c = NULL \/ Refs(c) # {}))
  BY <1>4, <1>5, <1>8
<1>14. \A k \in Held(L) : k \in HeldBy(w) \/ FreeFor(w, k)
  BY <1>7, <1>8
<1>15. s.c \in {th[w].c, NULL} /\ th[w].pc # "forward" /\ s.pc # "terminate"
  BY <1>1, <1>9
<1> HIDE DEF r
<1> QED
  BY <1>1, <1>2, <1>5, <1>7, <1>9, <1>10, <1>11, <1>12, <1>13, <1>14, <1>15,
     ObjectStep

\* An object and a neighbour of it are locked, by one locker_start.
LEMMA PairLocked ==
  ASSUME IInv, NEW u \in Threads, Ready(u),
         \/ th[u].pc \in {"link", "relink", "unlink", "set", "merge"}
         \/ th[u].pc \in {"put", "walk"} /\ th[u].at[2] = "rebuild_list"
  PROVE  LET r == th[u]
         IN  /\ r.o \in Objects /\ r.t \in Objects
             /\ locker[u].stack = <<{r.o, r.t}>> /\ Complete(locker[u])
             /\ HeldBy(u) = {r.o, r.t} /\ FreeFor(u, r.o) /\ FreeFor(u, r.t)
             /\ ended(locker[u]) = NoLocks
<1> DEFINE r == th[u]
           L == locker[u]
<1>1. /\ r \in Thread /\ L \in LockerType /\ HeldBy(u) = Held(L) /\ FieldsOK(r, u)
      /\ LocksFit(r, L, ForwardOf(r)) /\ L.want = {}
  BY Now DEF Ready
<1>2. r.o \in Objects /\ r.t \in Objects
  BY <1>1 DEF FieldsOK, HasObject, HasTarget, Thread
<1>3. HasOne(L, {r.o, r.t})
  BY <1>1 DEF LocksFit
<1>4. L.stack = <<{r.o, r.t}>> /\ Complete(L) /\ Held(L) = {r.o, r.t}
  BY <1>1, <1>3, HeldOne
<1>5. ended(L) = NoLocks
  BY <1>1, <1>3, EndedOne
<1>6. FreeFor(u, r.o) /\ FreeFor(u, r.t)
  BY <1>1, <1>4, HeldFree
<1> QED
  BY <1>1, <1>2, <1>4, <1>5, <1>6

\* An idle thread has nothing.
LEMMA IdleOK ==
  ASSUME NEW u
  PROVE  IdleThread \in Thread /\ FieldsOK(IdleThread, u) /\ IdleThread.pc \in Between
         /\ IdleThread.c = NULL
<1>1. NULL \notin PollLists \cup {"delete"}
  BY CollectorsAssumption DEF PollLists, ListNames
<1>2. IdleThread \in Thread
  BY Places DEF IdleThread, Thread
<1>3. FieldsOK(IdleThread, u)
  BY <1>1 DEF IdleThread, FieldsOK, HasObject, HasTarget
<1> QED
  BY <1>2, <1>3 DEF IdleThread, Between

\* Taking two objects keeps the type of a thread.
LEMMA PairSet ==
  ASSUME NEW r \in Thread, NEW a \in PCs,
         NEW o \in Objects \cup {NULL}, NEW p \in Objects \cup {NULL}
  PROVE  [r EXCEPT !.pc = a, !.o = o, !.t = p] \in Thread
BY DEF Thread

\* The mutator's call locks both ends of the new link.
LEMMA SetStep ==
  ASSUME IInv, NEW o \in Objects, NEW p \in Objects, Set(o, p)
  PROVE  IInv'
<1> DEFINE s == [IdleThread EXCEPT !.pc = "set", !.o = o, !.t = p]
<1>1. Mutator \in Threads /\ th[Mutator].pc = "idle"
  BY CollectorsAssumption DEF Set, At
<1>2. locker[Mutator] = NoLocks /\ locker \in [Threads -> LockerType]
  BY <1>1, Now DEF LocksFit, Between, IInv, TypeOK, LockerTypeOK, LockerType
<1>3. /\ th' = [th EXCEPT ![Mutator] = s] /\ UNCHANGED <<coll, obj, work>>
      /\ locker' = [locker EXCEPT ![Mutator] = started({o, p}, NoLocks)]
  BY <1>1, <1>2 DEF Set, Become, Start
<1>4. /\ s \in Thread /\ s.pc = "set" /\ s.c = NULL /\ s.list = NULL /\ s.o = o
      /\ s.t = p /\ s.x = NULL /\ s.y = NULL /\ s.n = 0 /\ s.e = NULL /\ s.at = NULL
  <2>1. s \in Thread
    BY IdleOK, Places, PairSet
  <2> QED
    BY <2>1, Places DEF IdleThread, Thread
<1> HIDE DEF s
<1>5. FieldsOK(s, Mutator)
  <2>1. NULL \notin PollLists /\ o # NULL /\ p # NULL
    BY CollectorsAssumption, NullNoLock DEF PollLists, ListNames
  <2> QED
    BY <1>4, <2>1 DEF FieldsOK, HasObject, HasTarget
<1> QED
  BY <1>1, <1>3, <1>4, <1>5, PairStep

\* object_set writes its link, once it has both locks (object.c:448-474).
LEMMA SetLinkStep ==
  ASSUME IInv, SetLink
  PROVE  IInv'
<1> DEFINE r == th[Mutator]
<1>1. /\ Mutator \in Threads /\ r.pc = "set" /\ Ready(Mutator) /\ r \in Thread
      /\ FieldsOK(r, Mutator) /\ LocksFit(r, locker[Mutator], ForwardOf(r))
  BY CollectorsAssumption, Now DEF SetLink, At
<1>2. CASE obj[r.o].phantomized
  <2> DEFINE s == [r EXCEPT !.pc = "merge"]
  <2>1. th' = [th EXCEPT ![Mutator] = s] /\ UNCHANGED <<locker, coll, obj, work>>
    BY <1>2 DEF SetLink, Goto, Become
  <2>2. /\ s \in Thread /\ s.pc = "merge" /\ s.c = r.c /\ s.list = r.list
        /\ s.o = r.o /\ s.t = r.t /\ s.x = r.x /\ s.y = r.y /\ s.n = r.n
        /\ s.e = r.e /\ s.at = r.at
    BY <1>1, Places DEF Thread
  <2> HIDE DEF s
  <2>3. FieldsOK(s, Mutator)
    BY <1>1, <2>2 DEF FieldsOK, HasObject, HasTarget
  <2>4. LocksFit(s, locker[Mutator], ForwardOf(s)) /\ Follows(s, coll, obj)
    BY <1>1, <2>2 DEF LocksFit, Follows, Between
  <2> QED
    BY <1>1, <2>1, <2>2, <2>3, <2>4, SameLocksStep
<1>3. CASE ~ obj[r.o].phantomized
  <2>1. r.o \in Objects /\ r.t \in Objects /\ ended(locker[Mutator]) = NoLocks
    BY <1>1, PairLocked
  <2>2. obj \in Objs /\ obj[r.o].links \cup {r.t} \in SUBSET Objects
    BY <2>1 DEF IInv, TypeOK, Objs, Object
  <2>3. /\ th' = [th EXCEPT ![Mutator] = IdleThread] /\ UNCHANGED <<coll, work>>
        /\ locker' = [locker EXCEPT ![Mutator] = NoLocks]
        /\ obj' = [obj EXCEPT ![r.o].links = @ \cup {r.t}]
    BY <1>3, <2>1 DEF SetLink, Become, End
  <2>4. obj' \in Objs /\ SameOwners(obj', obj)
    BY <2>1, <2>2, <2>3, LinksSet
  <2> QED
    BY <1>1, <2>3, <2>4, IdleOK, ObjectUnlockedStep DEF SameOwners
<1> QED
  BY <1>2, <1>3

\* The next lock of a thread is free.
LEMMA LockStep ==
  ASSUME IInv, NEW u \in Threads, Lock(u)
  PROVE  IInv'
<1> DEFINE r == th[u]
           L == locker[u]
           k == NextLock(u)
           M == locker_entry_add(k, L)
<1>1. /\ r \in Thread /\ L \in LockerType /\ HeldBy(u) = Held(L) /\ FieldsOK(r, u)
      /\ LocksFit(r, L, ForwardOf(r)) /\ Follows(r, coll, obj) /\ L.want # {}
      /\ th \in [Threads -> Thread]
  BY Now DEF Lock, idlock_lock, IInv, TypeOK
<1>2. k \in L.want /\ \A j \in L.want : Id(k) <= Id(j)
  BY <1>1, NextLockLeast DEF Ready, LockerType
<1>3. /\ locker' = [locker EXCEPT ![u] = M] /\ FreeFor(u, k)
      /\ UNCHANGED <<coll, obj, th, work>>
  BY DEF Lock, idlock_lock
<1>4. r.pc \notin Between /\ r.pc # "forward"
  BY <1>1, NoLocksType DEF LocksFit
<1>5. ~ (r.pc \in {"put", "walk"} /\ r.at[2] # "rebuild_list")
  BY <1>1, NoLocksType DEF LocksFit
<1>6. \A A : HasOne(L, A) => M \in LockerType /\ HasOne(M, A)
  BY <1>1, <1>2, AddedOne
<1>7. \A A, B : HasTwo(L, A, B) => M \in LockerType /\ HasTwo(M, A, B)
  BY <1>1, <1>2, AddedTwo
<1>8. Held(M) \subseteq Held(L) \cup {k}
  BY <1>1, <1>2, HeldAdded
<1>9. th' = [th EXCEPT ![u] = r]
  BY <1>1, <1>3
<1> HIDE DEF M, k, L
<1>10. M \in LockerType
  BY <1>1, <1>4, <1>5, <1>6, <1>7
  DEF LocksFit, PCs, HasObject, HasTarget, Between, Thread
<1>11. LocksFit(r, M, ForwardOf(r))
  BY <1>1, <1>4, <1>5, <1>6, <1>7 DEF LocksFit
<1>12. \A j \in Held(M) : j \in HeldBy(u) \/ FreeFor(u, j)
  BY <1>1, <1>3, <1>8
<1>13. r.pc = "terminate" => Refs(r.c) = {}
  BY DEF IInv, Ends
<1> QED
  BY <1>1, <1>3, <1>4, <1>9, <1>10, <1>11, <1>12, <1>13, QuietStep

\* So does taking an element to a list.
LEMMA PutSet ==
  ASSUME NEW r \in Thread, NEW p \in PCs, NEW e \in Objects \cup {NULL},
         NEW q \in (Collectors \X ListNames) \cup {NULL}
  PROVE  [r EXCEPT !.pc = p, !.e = e, !.at = q] \in Thread
<1> DEFINE s == [r EXCEPT !.pc = p, !.e = e]
<1>1. s \in Thread
  BY DEF Thread
<1>2. [r EXCEPT !.pc = p, !.e = e, !.at = q] = [s EXCEPT !.at = q]
  OBVIOUS
<1> HIDE DEF s
<1> QED
  BY <1>1, <1>2 DEF Thread

\* An object without a count is queued.
LEMMA PhantomDecremented ==
  ASSUME NEW os \in Objs, NEW o \in Objects, SameOwners(os, obj),
         DecPhantomTo(dec_phantom(os, o), o)
  PROVE  /\ obj' \in Objs
         /\ \A p \in Objects : \/ obj'[p].collector = obj[p].collector
                               \/ p = o /\ obj'[p].collector = NULL
         /\ work' = work \/ \E x \in Objects : work' = Append(work, x)
<1>1. obj' = dec_phantom(os, o)
  BY DEF DecPhantomTo
<1>2. work' = work \/ work' = Append(work, o)
  BY DEF DecPhantomTo
<1> QED
  BY <1>1, <1>2, DecPhantomOK DEF SameOwners

\* The count that an object has for its place in a list goes.
LEMMA DecPhantomStep ==
  ASSUME IInv, NEW w \in Workers, DecPhantom(w)
  PROVE  IInv'
<1> DEFINE r == th[w]
           s == [r EXCEPT !.pc = "poll", !.o = NULL]
<1>1. /\ w \in Threads /\ w # Mutator /\ r \in Thread /\ FieldsOK(r, w) /\ r.pc = "dec"
      /\ LocksFit(r, locker[w], ForwardOf(r)) /\ FreeFor(w, r.o)
      /\ locker \in [Threads -> LockerType]
  BY WorkerThread, Now DEF DecPhantom, At, IInv, TypeOK, LockerTypeOK, LockerType
<1>2. r.o \in Objects /\ obj \in Objs /\ SameOwners(obj, obj)
  BY <1>1 DEF FieldsOK, HasObject, Thread, IInv, TypeOK, Objs, SameOwners
<1>3. /\ obj' \in Objs
      /\ \A p \in Objects : \/ obj'[p].collector = obj[p].collector
                            \/ p = r.o /\ obj'[p].collector = NULL
      /\ work' = work \/ \E x \in Objects : work' = Append(work, x)
  BY <1>2, PhantomDecremented DEF DecPhantom
<1>4. th' = [th EXCEPT ![w] = s] /\ UNCHANGED coll
  BY DEF DecPhantom, Become
<1>5. locker' = [locker EXCEPT ![w] = NoLocks]
  BY <1>1 DEF DecPhantom, LocksFit, Between
<1>6. /\ s \in Thread /\ s.pc = "poll" /\ s.c = r.c /\ s.list = r.list
      /\ s.o = NULL /\ s.t = r.t /\ s.x = r.x /\ s.y = r.y /\ s.n = r.n
      /\ s.e = r.e /\ s.at = r.at
  BY <1>1, Places DEF Thread
<1> HIDE DEF s
<1>7. FieldsOK(s, w) /\ s.pc \in Between
  BY <1>1, <1>6 DEF FieldsOK, HasObject, HasTarget, Between, PollLists
<1> QED
  BY <1>1, <1>3, <1>4, <1>5, <1>6, <1>7, ObjectUnlockedStep

\* A deleted object leaves its collector.
LEMMA DelStep ==
  ASSUME IInv, NEW w \in Workers, object_del(w)
  PROVE  IInv'
<1> DEFINE r == th[w]
<1>1. /\ w \in Threads /\ r \in Thread /\ FieldsOK(r, w) /\ r.pc = "del"
      /\ LocksFit(r, locker[w], ForwardOf(r)) /\ FreeFor(w, r.o)
      /\ locker \in [Threads -> LockerType]
  BY WorkerThread, Now DEF object_del, At, IInv, TypeOK, LockerTypeOK, LockerType
<1>2. r.o \in Objects /\ obj \in Objs
  BY <1>1 DEF FieldsOK, HasObject, Thread, IInv, TypeOK, Objs
<1>3. /\ obj' \in Objs
      /\ \A p \in Objects : obj'[p].collector = IF p = r.o THEN NULL ELSE obj[p].collector
  BY <1>2, CollectorSet DEF object_del
<1>4. th' = [th EXCEPT ![w] = IdleThread] /\ UNCHANGED <<coll, work>>
  BY DEF object_del, Become
<1>5. locker' = [locker EXCEPT ![w] = NoLocks]
  BY <1>1 DEF object_del, LocksFit, Between
<1> QED
  BY <1>1, <1>3, <1>4, <1>5, IdleOK, ObjectUnlockedStep

\* A link of a recovered node is an ordinary one again, and its target goes on
\* the collector's rebuild list when it still has a collector.
LEMMA RebuildLinkStep ==
  ASSUME IInv, NEW w \in Workers, RebuildLink(w)
  PROVE  IInv'
<1> DEFINE r == th[w]
           m == [obj EXCEPT ![r.o].links = @ \cup {r.t}, ![r.o].phantoms = @ \ {r.t}]
           os == dec_phantom(m, r.t)
           s == [r EXCEPT !.pc = "rebuild", !.t = NULL]
           at == <<r.c, "rebuild_list">>
           v == [r EXCEPT !.pc = "put", !.e = r.t, !.at = at]
<1>1. /\ w \in Threads /\ w # Mutator /\ r \in Thread /\ FieldsOK(r, w)
      /\ r.pc = "relink" /\ Ready(w) /\ locker[w] \in LockerType
      /\ locker \in [Threads -> LockerType]
  BY WorkerThread, Now DEF RebuildLink, At, IInv, TypeOK, LockerTypeOK, LockerType
<1>2. /\ r.o \in Objects /\ r.t \in Objects /\ ended(locker[w]) = NoLocks
      /\ HeldBy(w) = {r.o, r.t} /\ FreeFor(w, r.t) /\ Held(locker[w]) = {r.o, r.t}
      /\ HasOne(locker[w], {r.o, r.t})
  BY <1>1, PairLocked, Now DEF HasOne
<1>3. obj \in Objs
  BY DEF IInv, TypeOK, Objs
<1>4. m \in Objs /\ SameOwners(m, obj)
  BY <1>2, <1>3, RelinkedOK
<1> HIDE DEF m
<1>5. /\ os \in Objs
      /\ \A p \in Objects : \/ os[p].collector = obj[p].collector
                            \/ p = r.t /\ os[p].collector = NULL
  BY <1>2, <1>4, DecPhantomOK DEF SameOwners
<1> HIDE DEF os
<1>6. /\ r.list \in {"recovery_list", "rebuild_list"} /\ r.list \in PollLists
      /\ r.c \in Collectors /\ r.x = NULL
  BY <1>1 DEF FieldsOK, PollLists, Thread
<1>7. ASSUME Become(w, s), End(w), obj' = obj \/ obj' = os, UNCHANGED <<coll, work>>
      PROVE  IInv'
  <2>1. th' = [th EXCEPT ![w] = s] /\ locker' = [locker EXCEPT ![w] = NoLocks]
    BY <1>2, <1>7 DEF Become, End
  <2>2. /\ s \in Thread /\ s.pc = "rebuild" /\ s.c = r.c /\ s.list = r.list
        /\ s.o = r.o /\ s.t = NULL /\ s.x = r.x /\ s.y = r.y /\ s.n = r.n
        /\ s.e = r.e /\ s.at = r.at
    BY <1>1, Places DEF Thread
  <2> HIDE DEF s
  <2>3. FieldsOK(s, w) /\ s.pc \in Between
    BY <1>1, <2>2 DEF FieldsOK, HasObject, HasTarget, Between
  <2> QED
    BY <1>1, <1>2, <1>3, <1>5, <1>7, <2>1, <2>2, <2>3, ObjectUnlockedStep
<1>8. ASSUME Become(w, v), UNCHANGED locker, obj' = os, UNCHANGED <<coll, work>>
      PROVE  IInv'
  <2>1. th' = [th EXCEPT ![w] = v] /\ locker' = [locker EXCEPT ![w] = locker[w]]
    BY <1>1, <1>8 DEF Become
  <2>2. at \in Collectors \X ListNames /\ at[1] = r.c /\ at[2] = "rebuild_list" /\ at # NULL
    BY <1>6, CollectorsAssumption DEF ListNames
  <2> HIDE DEF at
  <2>3. v \in Thread
    BY <1>1, <1>2, <2>2, Places, PutSet
  <2>4. /\ v.pc = "put" /\ v.c = r.c /\ v.list = r.list
        /\ v.o = r.o /\ v.t = r.t /\ v.x = r.x /\ v.y = r.y /\ v.n = r.n
        /\ v.e = r.t /\ v.at = at
    BY <1>1 DEF Thread
  <2> HIDE DEF v
  <2>5. FieldsOK(v, w)
    BY <1>1, <1>2, <1>6, <2>2, <2>4, NullNoLock DEF FieldsOK, HasObject, HasTarget
  <2>6. LocksFit(v, locker[w], ForwardOf(v))
    BY <1>2, <2>2, <2>4 DEF LocksFit, Between
  <2>7. Follows(v, coll, obj')
    BY <1>6, <2>2, <2>4, ReachSelf DEF Follows
  <2>8. \A p \in Objects :
          LET c == obj'[p].collector
          IN  c = obj[p].collector \/ (FreeFor(w, p) /\ (c = NULL \/ Refs(c) # {}))
    BY <1>2, <1>5, <1>8
  <2>9. \A k \in Held(locker[w]) : k \in HeldBy(w) \/ FreeFor(w, k)
    BY <1>2
  <2> QED
    BY <1>1, <1>5, <1>8, <2>1, <2>3, <2>4, <2>5, <2>6, <2>7, <2>8, <2>9, ObjectStep
<1> QED
  BY <1>7, <1>8 DEF RebuildLink, m, os

\* So does letting go of a link's target.
LEMMA TargetSet ==
  ASSUME NEW r \in Thread, NEW a \in PCs, NEW c \in Collectors \cup {NULL},
         NEW p \in Objects \cup {NULL}
  PROVE  [r EXCEPT !.pc = a, !.x = c, !.t = p] \in Thread
BY DEF Thread

-----------------------------------------------------------------------------
(* object_dec *)

\* r drops a count of the object r.t, which it has locked, perhaps for a link
\* from r.o; its locks are lk.
DropLocks(r) == IF r.list = NULL THEN {r.t} ELSE {r.o, r.t}

Dropping(u, r, lk) ==
  /\ r \in Thread /\ r.t \in Objects
  /\ \/ r.list = NULL
     \/ /\ r.list \in {"collect", "clean_list", "delete"} /\ r.o \in Objects
        /\ r.list \in PollLists => r.c # NULL
  /\ r.c \in {th[u].c, NULL} /\ th[u].pc # "forward"
  /\ r.y = NULL /\ r.n = 0 /\ r.at = NULL
  /\ lk \in LockerType /\ lk.stack = <<DropLocks(r)>> /\ Complete(lk)
  /\ \A k \in DropLocks(r) : k \in HeldBy(u) \/ FreeFor(u, k)
  /\ FreeFor(u, r.t)

\* Where object_dec returns to.
LEMMA ReturnOK ==
  ASSUME IInv, NEW u \in Threads, NEW r, NEW lk, Dropping(u, r, lk), ReturnFromDec(u, r, lk)
  PROVE  \E s \in Thread, L \in LockerType :
           /\ th' = [th EXCEPT ![u] = s] /\ locker' = [locker EXCEPT ![u] = L]
           /\ s.pc \in {"idle", "merge", "unlinks"} /\ s.c \in {th[u].c, NULL}
           /\ FieldsOK(s, u) /\ (\A f : LocksFit(s, L, f))
           /\ \A k \in Held(L) : k \in HeldBy(u) \/ FreeFor(u, k)
<1> DEFINE s == AfterDec(r)
<1>1. HasOne(lk, DropLocks(r)) /\ lk.want = {} /\ Held(lk) = DropLocks(r)
  <2>1. HasOne(lk, DropLocks(r)) /\ lk.want = {}
    BY DEF Dropping, HasOne, Complete
  <2> QED
    BY <2>1, HeldOne
<1>2. ended(lk) = NoLocks
  BY <1>1, EndedOne DEF Dropping
<1>3. th' = [th EXCEPT ![u] = s]
  BY DEF ReturnFromDec, Become
<1>4. NULL \notin {"collect", "clean_list", "delete"}
  BY CollectorsAssumption DEF ListNames
<1>5. NoLocks \in LockerType /\ Held(NoLocks) = {}
  BY NoLocksType, LocksOfNone DEF Held
<1>6. CASE r.list = NULL
  <2>1. s = IdleThread /\ locker' = [locker EXCEPT ![u] = NoLocks]
    BY <1>2, <1>4, <1>6 DEF AfterDec, ReturnFromDec
  <2>2. \A f : LocksFit(IdleThread, NoLocks, f)
    BY DEF LocksFit, IdleThread, Between
  <2> QED
    BY <1>3, <1>5, <2>1, <2>2, IdleOK DEF IdleThread
<1>7. CASE r.list = "collect"
  <2>1. s = [r EXCEPT !.pc = "merge", !.x = NULL] /\ locker' = [locker EXCEPT ![u] = lk]
    BY <1>4, <1>7 DEF AfterDec, ReturnFromDec
  <2> HIDE DEF s
  <2>2. s \in Thread
    BY <2>1, Places, FollowsSet DEF Dropping
  <2>3. /\ s.pc = "merge" /\ s.c = r.c /\ s.list = "collect" /\ s.o = r.o /\ s.t = r.t
        /\ s.x = NULL /\ s.y = NULL /\ s.n = 0 /\ s.e = r.e /\ s.at = NULL
    BY <1>7, <2>1 DEF Thread, Dropping
  <2>4. FieldsOK(s, u)
    BY <1>4, <1>7, <2>3, NullNoLock DEF FieldsOK, HasObject, HasTarget,
       Dropping, PollLists
  <2>5. \A f : LocksFit(s, lk, f)
    BY <1>1, <1>4, <1>7, <2>3 DEF LocksFit, Between, DropLocks
  <2> QED
    BY <1>1, <1>3, <2>1, <2>2, <2>3, <2>4, <2>5 DEF Dropping
<1>8. CASE r.list \in {"clean_list", "delete"}
  <2>1. /\ s = [r EXCEPT !.pc = "unlinks", !.x = NULL, !.t = NULL]
        /\ locker' = [locker EXCEPT ![u] = NoLocks]
    BY <1>2, <1>4, <1>8 DEF AfterDec, ReturnFromDec
  <2> HIDE DEF s
  <2>2. s \in Thread
    BY <2>1, Places, TargetSet DEF Dropping
  <2>3. /\ s.pc = "unlinks" /\ s.c = r.c /\ s.list = r.list /\ s.o = r.o /\ s.t = NULL
        /\ s.x = NULL /\ s.y = NULL /\ s.n = 0 /\ s.e = r.e /\ s.at = NULL
    BY <2>1 DEF Thread, Dropping
  <2>4. FieldsOK(s, u)
    BY <1>4, <1>8, <2>3, NullNoLock DEF FieldsOK, HasObject, HasTarget,
       Dropping, PollLists
  <2>5. \A f : LocksFit(s, NoLocks, f)
    BY <2>3 DEF LocksFit, Between
  <2> QED
    BY <1>3, <1>5, <2>1, <2>2, <2>3, <2>4, <2>5 DEF Dropping
<1> QED
  BY <1>6, <1>7, <1>8 DEF Dropping

\* object_dec returns with the collectors as they were (object.c:134-138).
LEMMA ReturnStep ==
  ASSUME IInv, NEW u \in Threads, NEW r, NEW lk, Dropping(u, r, lk), ReturnFromDec(u, r, lk),
         UNCHANGED coll, obj' \in Objs,
         \A p \in Objects :
           LET c == obj'[p].collector
           IN  c = obj[p].collector \/ (FreeFor(u, p) /\ (c = NULL \/ Refs(c) # {})),
         work' = work \/ \E x \in Objects : work' = Append(work, x)
  PROVE  IInv'
<1>1. PICK s \in Thread, L \in LockerType :
           /\ th' = [th EXCEPT ![u] = s] /\ locker' = [locker EXCEPT ![u] = L]
           /\ s.pc \in {"idle", "merge", "unlinks"} /\ s.c \in {th[u].c, NULL}
           /\ FieldsOK(s, u) /\ (\A f : LocksFit(s, L, f))
           /\ \A k \in Held(L) : k \in HeldBy(u) \/ FreeFor(u, k)
  BY ReturnOK
<1>2. Follows(s, coll, obj')
  BY <1>1 DEF Follows
<1>3. th[u].pc # "forward" /\ s.pc # "terminate"
  BY <1>1 DEF Dropping
<1> QED
  BY <1>1, <1>2, <1>3, ObjectStep

\* collector_create gives a collector that was not used before.
LEMMA FreshUnmade ==
  ASSUME Unmade # {}
  PROVE  FreshCollector \in Unmade
<1> DEFINE R == {Id(c) : c \in Unmade}
<1>1. R \in SUBSET Nat /\ R # {}
  BY IdType, NullNoLock DEF Unmade
<1>2. PICK x \in R : \A y \in R : x <= y
  BY <1>1, Least
<1>3. \E c \in Unmade : \A d \in Unmade : Id(c) <= Id(d)
  BY <1>2
<1> QED
  BY <1>3 DEF FreshCollector

\* An object without a count of its own goes to its collector, or to a new one.
LEMMA ToCollectorStep ==
  ASSUME IInv, NEW u \in Threads, NEW r, NEW lk, NEW os \in Objs, Dropping(u, r, lk),
         SameOwners(os, obj), ToCollector(u, r, os, lk)
  PROVE  IInv'
<1> DEFINE new == os[r.t].collector = NULL
           c == IF new THEN FreshCollector ELSE os[r.t].collector
           s == [r EXCEPT !.pc = "add", !.x = c]
           L == started({c, r.t}, lk)
<1>1. /\ coll \in [Collectors -> Collector] /\ r \in Thread /\ r.t \in Objects
      /\ FreeFor(u, r.t) /\ FieldsOK(th[u], u)
  BY Now DEF IInv, TypeOK, Dropping
<1>2. new => c \in Unmade
  BY FreshUnmade DEF ToCollector
<1>3. c \in Collectors
  BY <1>1, <1>2 DEF Unmade, Objs, Object
<1>4. /\ th' = [th EXCEPT ![u] = s] /\ locker' = [locker EXCEPT ![u] = L]
      /\ obj' = object_set_collector(os, r.t, c)
      /\ coll' = IF new THEN [coll EXCEPT ![c].state = "live"] ELSE coll
      /\ work' = IF new THEN Append(work, c) ELSE work
  BY DEF ToCollector, Become
<1>5. /\ obj' \in Objs
      /\ \A p \in Objects : obj'[p].collector = IF p = r.t THEN c ELSE obj[p].collector
  BY <1>1, <1>3, <1>4, CollectorSet DEF SameOwners
<1>6. /\ L \in LockerType /\ HasTwo(L, DropLocks(r), {c, r.t})
      /\ Held(L) = DropLocks(r)
  <2>1. {c, r.t} \in SUBSET (Locks \cup {NULL}) /\ lock_set({c, r.t}) = {c, r.t}
    BY <1>1, <1>3, NullNoLock DEF lock_set
  <2> HIDE DEF c
  <2> QED
    BY <2>1, StartedTwo DEF Dropping
<1>7. /\ coll' \in [Collectors -> Collector]
      /\ \A d \in Collectors : /\ coll'[d].forward = coll[d].forward
                               /\ coll'[d].to = coll[d].to /\ coll'[d].data = coll[d].data
                               /\ d # c \/ ~ new => coll'[d].state = coll[d].state
      /\ new => Created(c)
  <2>1. CASE new
    <3>1. coll' = [coll EXCEPT ![c].state = "live"] /\ coll[c].state = "none"
      BY <1>2, <1>4, <2>1 DEF Unmade
    <3> HIDE DEF c
    <3>2. coll' \in [Collectors -> Collector]
      BY <1>1, <1>3, <3>1 DEF Collector
    <3> QED
      BY <1>1, <1>3, <2>1, <3>1, <3>2 DEF Created, Collector
  <2>2. CASE ~ new
    BY <1>1, <1>4, <2>2
  <2> QED
    BY <2>1, <2>2
<1>8. ObjectsKept(u) /\ PointersSame /\ NothingStranded'
  BY <1>1, <1>5, <1>7 DEF ObjectsKept, PointersSame, NothingStranded, IInv
<1>9. CollectorsKept
  <2>1. \A d \in Collectors : coll'[d].state = coll[d].state \/ Created(d)
    BY <1>7
  <2>2. c = obj[r.t].collector \/ Created(c)
    BY <1>1, <1>7 DEF SameOwners
  <2>3. work' = work \/ (Created(c) /\ work' = Append(work, c))
    BY <1>4, <1>7
  <2> HIDE DEF c
  <2> QED
    BY <1>5, <2>1, <2>2, <2>3 DEF CollectorsKept
<1> HIDE DEF L, c
<1>10. s \in Thread
  BY <1>1, <1>3, Places, FollowsSet
<1>11. /\ s.pc = "add" /\ s.c = r.c /\ s.list = r.list /\ s.o = r.o /\ s.t = r.t
       /\ s.x = c /\ s.y = NULL /\ s.n = 0 /\ s.e = r.e /\ s.at = NULL
  BY <1>1 DEF Thread, Dropping
<1> HIDE DEF s
<1>12. FieldsOK(s, u)
  <2>1. NULL \notin {"collect", "clean_list", "delete"} \cup PollLists
    BY CollectorsAssumption DEF ListNames, PollLists
  <2> QED
    BY <1>1, <1>3, <1>11, <2>1, NullNoLock
    DEF FieldsOK, HasObject, HasTarget, Dropping, PollLists
<1>13. \A f : LocksFit(s, L, f)
  BY <1>6, <1>11 DEF LocksFit, Between, DropLocks
<1>14. Follows(s, coll', obj')
  <2>1. obj'[r.t].collector = c /\ c # NULL
    BY <1>1, <1>3, <1>5, NullNoLock
  <2> QED
    BY <1>3, <1>11, <2>1, ReachSelf DEF Follows, Leads
<1>15. Moves(u, s, L)
  BY <1>4, <1>6, <1>10, <1>12, <1>13, <1>14 DEF Moves, Dropping
<1>16. s.c \in {th[u].c, NULL} /\ th[u].pc # "forward" /\ s.pc # "terminate"
  BY <1>11 DEF Dropping
<1> QED
  BY <1>5, <1>7, <1>8, <1>9, <1>15, <1>16, PlainStep DEF Objs

\* object_dec drops a count: it returns, hands the object to its collector, or
\* starts a new one (object.c:120-138).
LEMMA DecStep ==
  ASSUME IInv, NEW u \in Threads, NEW r, NEW lk, NEW os \in Objs, Dropping(u, r, lk),
         SameOwners(os, obj), object_dec(u, r, os, lk)
  PROVE  IInv'
<1>1. CASE ToCollector(u, r, os, lk)
  BY <1>1, ToCollectorStep
<1>2. CASE /\ obj' = os /\ ReturnFromDec(u, r, lk) /\ UNCHANGED coll
           /\ work' = work \/ work' = Append(work, r.t)
  <2>1. r.t \in Objects
    BY DEF Dropping
  <2> QED
    BY <1>2, <2>1, ReturnStep DEF SameOwners
<1> QED
  BY <1>1, <1>2 DEF object_dec

\* Writing an object's root leaves all collectors.
LEMMA RootSet ==
  ASSUME NEW os \in Objs, NEW o \in Objects, NEW b \in BOOLEAN
  PROVE  [os EXCEPT ![o].root = b] \in Objs /\ SameOwners([os EXCEPT ![o].root = b], os)
BY DEF Objs, Object, SameOwners

\* The mutator drops what it has in a variable.
LEMMA DropStep ==
  ASSUME IInv, NEW o \in Objects, Drop(o)
  PROVE  IInv'
<1> DEFINE r == [IdleThread EXCEPT !.t = o]
           lk == taken(o, NoLocks)
           os == [obj EXCEPT ![o].root = FALSE]
<1>1. Mutator \in Threads /\ th[Mutator].pc = "idle" /\ FreeFor(Mutator, o)
  BY CollectorsAssumption DEF Drop, At
<1>2. locker[Mutator] = NoLocks
  BY <1>1, Now DEF LocksFit, Between
<1>3. os \in Objs /\ SameOwners(os, obj)
  BY RootSet DEF IInv, TypeOK, Objs
<1>4. lk \in LockerType /\ lk.stack = <<{o}>> /\ Complete(lk)
  BY NullNoLock, TakenOne
<1>5. /\ r \in Thread /\ r.t = o /\ r.list = NULL /\ r.c = NULL /\ r.y = NULL
      /\ r.n = 0 /\ r.at = NULL
  BY IdleOK DEF IdleThread, Thread
<1>6. object_dec(Mutator, r, os, lk)
  BY <1>2 DEF Drop
<1> HIDE DEF r, lk, os
<1>7. Dropping(Mutator, r, lk)
  BY <1>1, <1>4, <1>5 DEF Dropping, DropLocks
<1> QED
  BY <1>1, <1>3, <1>6, <1>7, DecStep

\* A count is dropped for a link whose ends are both locked.
LEMMA LinkDropped ==
  ASSUME IInv, NEW w \in Workers, th[w].pc \in {"link", "unlink"}, Ready(w)
  PROVE  Dropping(w, th[w], locker[w])
<1>1. w \in Threads /\ th[w] \in Thread /\ FieldsOK(th[w], w) /\ locker[w] \in LockerType
  BY WorkerThread, Now
<1>2. /\ th[w].o \in Objects /\ th[w].t \in Objects
      /\ locker[w].stack = <<{th[w].o, th[w].t}>> /\ Complete(locker[w])
      /\ HeldBy(w) = {th[w].o, th[w].t} /\ FreeFor(w, th[w].t)
  BY <1>1, PairLocked
<1>3. /\ th[w].list \in {"collect", "clean_list", "delete"} /\ th[w].list # NULL
      /\ th[w].list \in PollLists => th[w].c # NULL
  BY <1>1, CollectorsAssumption DEF FieldsOK, ListNames
<1>4. th[w].y = NULL /\ th[w].n = 0 /\ th[w].at = NULL
  BY <1>1 DEF FieldsOK
<1> QED
  BY <1>1, <1>2, <1>3, <1>4 DEF Dropping, DropLocks

\* link_phantomize drops its target's count (link.c:37-52).
LEMMA PhantomizeLinkStep ==
  ASSUME IInv, NEW w \in Workers, PhantomizeLink(w)
  PROVE  IInv'
<1> DEFINE r == th[w]
           m == [obj EXCEPT ![r.t].phantom = @ + 1]
           os == [obj EXCEPT ![r.t].phantom = @ + 1, ![r.o].links = @ \ {r.t}]
           s == [r EXCEPT !.pc = "links", !.t = NULL]
<1>1. /\ w \in Threads /\ w # Mutator /\ r \in Thread /\ FieldsOK(r, w)
      /\ r.pc = "link" /\ Ready(w)
  BY WorkerThread, Now DEF PhantomizeLink, At
<1>2. r.o \in Objects /\ r.t \in Objects /\ ended(locker[w]) = NoLocks /\ obj \in Objs
  BY <1>1, PairLocked DEF IInv, TypeOK, Objs
<1>3. CASE Become(w, s) /\ End(w) /\ UNCHANGED <<coll, obj, work>>
  <2>1. th' = [th EXCEPT ![w] = s] /\ locker' = [locker EXCEPT ![w] = NoLocks]
    BY <1>2, <1>3 DEF Become, End
  <2>2. /\ s \in Thread /\ s.pc = "links" /\ s.c = r.c /\ s.list = r.list
        /\ s.o = r.o /\ s.t = NULL /\ s.x = r.x /\ s.y = r.y /\ s.n = r.n
        /\ s.e = r.e /\ s.at = r.at
    BY <1>1, Places DEF Thread
  <2> HIDE DEF s
  <2>3. FieldsOK(s, w) /\ s.pc \in Between
    BY <1>1, <2>2 DEF FieldsOK, HasObject, HasTarget, Between
  <2> QED
    BY <1>1, <1>3, <2>1, <2>2, <2>3, UnlockedStep
<1>4. CASE object_dec(w, r, os, locker[w])
  <2>1. m \in Objs /\ SameOwners(m, obj)
    <3>1. obj[r.t].phantom + 1 \in Int
      BY <1>2 DEF Objs, Object
    <3> QED
      BY <1>2, <3>1, PhantomSet
  <2>2. os = [m EXCEPT ![r.o].links = @ \ {r.t}]
    BY <1>2
  <2>3. os \in Objs /\ SameOwners(os, m)
    <3> HIDE DEF m, os
    <3>1. m[r.o].links \ {r.t} \in SUBSET Objects
      BY <1>2, <2>1 DEF Objs, Object
    <3> QED
      BY <1>2, <2>1, <2>2, <3>1, LinksSet
  <2>4. Dropping(w, r, locker[w])
    BY <1>1, LinkDropped
  <2> HIDE DEF os, m
  <2>5. SameOwners(os, obj)
    BY <2>1, <2>3 DEF SameOwners
  <2> QED
    BY <1>1, <1>4, <2>3, <2>4, <2>5, DecStep
<1> QED
  BY <1>3, <1>4 DEF PhantomizeLink

\* object_remove_links drops a link (object.c:85-106).
LEMMA RemoveLinkStep ==
  ASSUME IInv, NEW w \in Workers, RemoveLink(w)
  PROVE  IInv'
<1> DEFINE r == th[w]
           os == [obj EXCEPT ![r.o].links = @ \ {r.t}, ![r.o].phantoms = @ \ {r.t}]
<1>1. w \in Threads /\ r.pc = "unlink" /\ Ready(w)
  BY WorkerThread DEF RemoveLink, At
<1>2. r.o \in Objects /\ r.t \in Objects /\ obj \in Objs /\ FreeFor(w, r.t)
  BY <1>1, PairLocked DEF IInv, TypeOK, Objs
<1>3. os \in Objs /\ SameOwners(os, obj)
  BY <1>2, UnlinkedOK
<1>4. Dropping(w, r, locker[w])
  BY <1>1, LinkDropped
<1> HIDE DEF os
<1>5. CASE /\ DecPhantomTo(dec_phantom(os, r.t), r.t)
           /\ ReturnFromDec(w, r, locker[w]) /\ UNCHANGED coll
  <2>1. /\ obj' \in Objs
        /\ \A p \in Objects : \/ obj'[p].collector = obj[p].collector
                              \/ p = r.t /\ obj'[p].collector = NULL
        /\ work' = work \/ \E x \in Objects : work' = Append(work, x)
    BY <1>2, <1>3, <1>5, PhantomDecremented
  <2> QED
    BY <1>1, <1>2, <1>4, <1>5, <2>1, ReturnStep
<1>6. CASE object_dec(w, r, os, locker[w])
  BY <1>1, <1>3, <1>4, <1>6, DecStep
<1> QED
  BY <1>5, <1>6 DEF RemoveLink, os

\* The lists of a collector that is locked are not forwarded before it is,
\* except by the thread that merges it.
LEMMA NotForwarded ==
  ASSUME IInv, NEW u \in Threads, NEW c \in Collectors, FreeFor(u, c),
         th[u].pc # "forward" \/ th[u].x # c, coll[c].forward = NULL, NEW l \in ListNames
  PROVE  coll[c].to[l] = NULL
<1> SUFFICES ASSUME coll[c].to[l] # NULL
             PROVE  FALSE
  OBVIOUS
<1>1. PICK v \in Threads : th[v].pc = "forward" /\ th[v].x = c
  BY DEF IInv, ToOK
<1>2. c \in HeldBy(v)
  BY <1>1, Holds
<1> QED
  BY <1>1, <1>2 DEF FreeFor

\* Something is added to a list that is not forwarded.
LEMMA PutOK ==
  ASSUME IInv, NEW c \in Collectors, NEW l \in ListNames, NEW o \in Objects,
         coll[c].to[l] = NULL, coll' = Put(coll, c, l, o)
  PROVE  /\ coll' \in [Collectors -> Collector] /\ PointersSame /\ NothingStranded'
         /\ \A d \in Collectors : coll'[d].state = coll[d].state
<1>1. coll \in [Collectors -> Collector] /\ NothingStranded
  BY DEF IInv, TypeOK
<1>2. coll' = [coll EXCEPT ![c].data[l] = Append(@, o)]
  BY DEF Put
<1>3. /\ coll' \in [Collectors -> Collector] /\ PointersSame
      /\ \A d \in Collectors : coll'[d].state = coll[d].state
  <2> DEFINE q == [coll[c].data EXCEPT ![l] = Append(@, o)]
             e == [coll[c] EXCEPT !.data = q]
  <2>1. Append(coll[c].data[l], o) \in Seq(Objects)
    BY <1>1 DEF Collector
  <2>2. q \in [ListNames -> Seq(Objects)]
    BY <1>1, <2>1 DEF Collector
  <2>3. coll' = [coll EXCEPT ![c] = e]
    BY <1>1, <1>2
  <2> HIDE DEF q
  <2>4. e \in Collector /\ e.forward = coll[c].forward /\ e.to = coll[c].to
        /\ e.state = coll[c].state
    BY <1>1, <2>2 DEF Collector
  <2> HIDE DEF e
  <2> QED
    BY <1>1, <2>3, <2>4 DEF PointersSame
<1>4. \A d \in Collectors, k \in ListNames :
        coll[d].to[k] # NULL => coll'[d].data[k] = coll[d].data[k]
  BY <1>1, <1>2 DEF Collector
<1> QED
  BY <1>1, <1>3, <1>4 DEF NothingStranded, PointersSame

-----------------------------------------------------------------------------
(* The lists *)

\* collector_add_object follows a forward pointer: it lets its locks go and
\* takes those of the next collector (collector.c:60-72).
LEMMA AddObjectOnStep ==
  ASSUME IInv, NEW u \in Threads, At(u, "add"), NEW f, f = coll[th[u].x].forward, f # NULL,
         Become(u, [th[u] EXCEPT !.x = f]), Restart(u, {f, th[u].t}),
         UNCHANGED <<coll, obj, work>>
  PROVE  IInv'
<1> DEFINE r == th[u]
           A == IF r.list = NULL THEN {r.t} ELSE {r.o, r.t}
           M == ended(locker[u])
           L == started({f, r.t}, M)
           s == [r EXCEPT !.x = f]
<1>1. /\ r \in Thread /\ FieldsOK(r, u) /\ r.pc = "add"
      /\ locker[u].want = {} /\ locker[u] \in LockerType /\ HeldBy(u) = Held(locker[u])
      /\ LocksFit(r, locker[u], ForwardOf(r)) /\ Follows(r, coll, obj)
  BY Now DEF At, Ready
<1>2. r.t \in Objects /\ Leads(coll, obj, r.t, r.x)
  BY <1>1 DEF FieldsOK, HasTarget, Thread, Follows
<1>3. Leads(coll, obj, r.t, f) /\ f \in Collectors
  BY <1>2, LeadsStep, LedRefs DEF IInv
<1>4. /\ th' = [th EXCEPT ![u] = s] /\ locker' = [locker EXCEPT ![u] = L]
  BY DEF Become, Restart
<1>5. HasTwo(locker[u], A, {r.x, r.t})
  BY <1>1 DEF LocksFit
<1>6. M \in LockerType /\ M.stack = <<A>> /\ Complete(M)
  BY <1>1, <1>5, EndedTwo
<1>7. A \subseteq HeldBy(u)
  BY <1>1, <1>5, HeldTwo
<1> HIDE DEF A, M
<1>8. L \in LockerType /\ Held(L) = A /\ HasTwo(L, A, {f, r.t})
  <2>1. {f, r.t} \in SUBSET (Locks \cup {NULL}) /\ lock_set({f, r.t}) = {f, r.t}
    BY <1>2, <1>3, NullNoLock DEF lock_set
  <2> QED
    BY <1>6, <2>1, StartedTwo
<1> HIDE DEF L
<1>9. /\ s \in Thread /\ s.pc = "add" /\ s.c = r.c /\ s.list = r.list
      /\ s.o = r.o /\ s.t = r.t /\ s.x = f /\ s.y = r.y /\ s.n = r.n
      /\ s.e = r.e /\ s.at = r.at
  BY <1>1, <1>3 DEF Thread
<1> HIDE DEF s
<1>10. FieldsOK(s, u)
  BY <1>1, <1>3, <1>9, NullNoLock DEF FieldsOK, HasObject, HasTarget
<1>11. LocksFit(s, L, ForwardOf(s))
  BY <1>8, <1>9 DEF LocksFit, Between, A
<1>12. Follows(s, coll, obj)
  BY <1>3, <1>9 DEF Follows
<1>13. \A k \in Held(L) : k \in HeldBy(u) \/ FreeFor(u, k)
  BY <1>7, <1>8
<1> QED
  BY <1>1, <1>4, <1>8, <1>9, <1>10, <1>11, <1>12, <1>13, QuietStep

\* The object is on the collect list of the collector at the end of the chain.
LEMMA AddObjectStep ==
  ASSUME IInv, NEW u \in Threads, collector_add_object(u)
  PROVE  IInv'
<1> DEFINE r == th[u]
           lk == ended(locker[u])
           os == [obj EXCEPT ![r.t].phantom = @ + 1]
<1>1. CASE coll[r.x].forward # NULL
  <2>1. /\ At(u, "add") /\ UNCHANGED <<coll, obj, work>>
        /\ Become(u, [r EXCEPT !.x = coll[r.x].forward])
        /\ Restart(u, {coll[r.x].forward, r.t})
    BY <1>1 DEF collector_add_object
  <2> QED
    BY <1>1, <2>1, AddObjectOnStep
<1>2. CASE coll[r.x].forward = NULL
  <2>1. /\ r \in Thread /\ FieldsOK(r, u) /\ r.pc = "add"
        /\ locker[u].want = {} /\ locker[u] \in LockerType /\ HeldBy(u) = Held(locker[u])
        /\ LocksFit(r, locker[u], ForwardOf(r)) /\ Follows(r, coll, obj)
    BY Now DEF collector_add_object, At, Ready
  <2>2. r.t \in Objects /\ Leads(coll, obj, r.t, r.x)
    BY <2>1 DEF FieldsOK, HasTarget, Thread, Follows
  <2>3. r.x \in Collectors /\ Refs(r.x) # {}
    BY <2>2, LedRefs DEF IInv
  <2>4. HasTwo(locker[u], DropLocks(r), {r.x, r.t})
    BY <2>1 DEF LocksFit, DropLocks
  <2>5. lk \in LockerType /\ lk.stack = <<DropLocks(r)>> /\ Complete(lk)
    BY <2>1, <2>4, EndedTwo
  <2>6. DropLocks(r) \cup {r.x, r.t} \subseteq HeldBy(u)
    BY <2>1, <2>4, HeldTwo
  <2>7. FreeFor(u, r.x) /\ FreeFor(u, r.t)
    BY <2>6, HeldFree
  <2>8. Dropping(u, r, lk)
    <3>1. \/ r.list = NULL
          \/ /\ r.list \in {"collect", "clean_list", "delete"} /\ r.o \in Objects
             /\ r.list \in PollLists => r.c # NULL
      BY <2>1 DEF FieldsOK, Thread
    <3>2. r.y = NULL /\ r.n = 0 /\ r.at = NULL
      BY <2>1 DEF FieldsOK
    <3> HIDE DEF lk
    <3> QED
      BY <2>1, <2>2, <2>5, <2>6, <2>7, <3>1, <3>2 DEF Dropping
  <2>9. /\ coll' = Put(coll, r.x, "collect", r.t) /\ work' = work
        /\ obj' = object_set_collector(os, r.t, r.x) /\ ReturnFromDec(u, r, lk)
    BY <1>2 DEF collector_add_object
  <2>10. coll[r.x].to["collect"] = NULL
    BY <1>2, <2>1, <2>3, <2>7, NotForwarded DEF ListNames
  <2>11. /\ coll' \in [Collectors -> Collector] /\ PointersSame /\ NothingStranded'
         /\ \A d \in Collectors : coll'[d].state = coll[d].state
    BY <2>2, <2>3, <2>9, <2>10, PutOK DEF ListNames
  <2>12. /\ obj' \in Objs
         /\ \A p \in Objects : obj'[p].collector = IF p = r.t THEN r.x ELSE obj[p].collector
    <3>1. obj \in Objs /\ obj[r.t].phantom + 1 \in Int
      BY <2>2 DEF IInv, TypeOK, Objs, Object
    <3>2. os \in Objs /\ SameOwners(os, obj)
      BY <2>2, <3>1, PhantomSet
    <3> HIDE DEF os
    <3> QED
      BY <2>2, <2>3, <2>9, <3>2, CollectorSet DEF SameOwners
  <2>13. PICK s \in Thread, L \in LockerType :
           /\ th' = [th EXCEPT ![u] = s] /\ locker' = [locker EXCEPT ![u] = L]
           /\ s.pc \in {"idle", "merge", "unlinks"} /\ s.c \in {th[u].c, NULL}
           /\ FieldsOK(s, u) /\ (\A f : LocksFit(s, L, f))
           /\ \A k \in Held(L) : k \in HeldBy(u) \/ FreeFor(u, k)
    BY <2>8, <2>9, ReturnOK
  <2>14. Moves(u, s, L)
    BY <2>13 DEF Moves, Follows
  <2>15. ObjectsKept(u)
    BY <2>7, <2>12 DEF ObjectsKept
  <2>16. CollectorsKept
    BY <2>3, <2>9, <2>11, <2>12 DEF CollectorsKept
  <2>17. th[u].pc # "forward" /\ s.pc # "terminate"
    BY <2>1, <2>13
  <2> QED
    BY <2>11, <2>12, <2>13, <2>14, <2>15, <2>16, <2>17, PlainStep DEF Objs
<1> QED
  BY <1>1, <1>2

\* A step of a thread that changes what lists hold and has no lock after it.
LEMMA DataStep ==
  ASSUME IInv, NEW u \in Threads, NEW r \in Thread,
         th' = [th EXCEPT ![u] = r], locker' = [locker EXCEPT ![u] = NoLocks],
         UNCHANGED <<obj, work>>, coll' \in [Collectors -> Collector],
         PointersSame, NothingStranded',
         \A d \in Collectors : coll'[d].state = coll[d].state,
         FieldsOK(r, u), r.pc \in Between, r.c \in {th[u].c, NULL}, th[u].pc # "forward"
  PROVE  IInv'
<1>1. \A f : LocksFit(r, NoLocks, f)
  BY DEF LocksFit, Between
<1>2. Follows(r, coll', obj') /\ r.pc # "terminate"
  BY DEF Follows, Between
<1>3. NoLocks \in LockerType /\ Held(NoLocks) = {}
  BY NoLocksType, LocksOfNone DEF Held
<1>4. Moves(u, r, NoLocks)
  BY <1>1, <1>2, <1>3 DEF Moves
<1>5. ObjectsKept(u) /\ CollectorsKept /\ obj' \in [Objects -> Object]
  BY DEF ObjectsKept, CollectorsKept, IInv, TypeOK
<1> QED
  BY <1>2, <1>4, <1>5, PlainStep

\* Letting go of an element keeps the type of a thread.
LEMMA DoneSet ==
  ASSUME NEW r \in Thread
  PROVE  [r EXCEPT !.e = NULL, !.at = NULL] \in Thread
BY DEF Thread

\* So does taking an object.
LEMMA ObjectSet ==
  ASSUME NEW r \in Thread, NEW a \in PCs, NEW o \in Objects \cup {NULL}
  PROVE  [r EXCEPT !.pc = a, !.o = o] \in Thread
BY DEF Thread

\* The end of a chain of lists takes the element; of a list whose collector
\* has been merged the pointer is followed.
LEMMA AddStep ==
  ASSUME IInv, NEW w \in Workers, Add(w)
  PROVE  IInv'
<1> DEFINE r == th[w]
           f == coll[r.at[1]].to[r.at[2]]
           b == IF r.at[2] = "rebuild_list" THEN [r EXCEPT !.pc = "rebuild", !.t = NULL]
                ELSE [r EXCEPT !.pc = "poll", !.o = NULL]
           s == [b EXCEPT !.e = NULL, !.at = NULL]
<1>1. /\ w \in Threads /\ w # Mutator /\ r \in Thread /\ FieldsOK(r, w) /\ r.pc = "put"
      /\ Ready(w) /\ LocksFit(r, locker[w], ForwardOf(r))
      /\ locker \in [Threads -> LockerType]
  BY WorkerThread, Now DEF Add, At, IInv, TypeOK, LockerTypeOK, LockerType
<1>2. r.at \in Collectors \X ListNames /\ r.e \in Objects
  BY <1>1 DEF FieldsOK, Thread
<1>3. CASE f # NULL
  BY <1>1, <1>3, WalkOnStep DEF Add
<1>4. CASE f = NULL
  <2>1. /\ coll' = Put(coll, r.at[1], r.at[2], r.e) /\ UNCHANGED <<obj, work>>
        /\ th' = [th EXCEPT ![w] = s]
        /\ IF r.at[2] = "rebuild_list" THEN End(w) ELSE UNCHANGED locker
    BY <1>4 DEF Add, Become
  <2>2. /\ coll' \in [Collectors -> Collector] /\ PointersSame /\ NothingStranded'
        /\ \A d \in Collectors : coll'[d].state = coll[d].state
    BY <1>2, <1>4, <2>1, PutOK
  <2>3. locker' = [locker EXCEPT ![w] = NoLocks]
    <3>1. CASE r.at[2] = "rebuild_list"
      BY <1>1, <2>1, <3>1, PairLocked DEF End
    <3>2. CASE r.at[2] # "rebuild_list"
      BY <1>1, <2>1, <3>2 DEF LocksFit
    <3> QED
      BY <3>1, <3>2
  <2>4. /\ b \in Thread /\ b.c = r.c /\ b.list = r.list /\ b.x = r.x /\ b.y = r.y
        /\ b.n = r.n
        /\ IF r.at[2] = "rebuild_list" THEN b.pc = "rebuild" /\ b.o = r.o
           ELSE b.pc = "poll"
    <3>1. CASE r.at[2] = "rebuild_list"
      <4>1. b = [r EXCEPT !.pc = "rebuild", !.t = NULL]
        BY <3>1
      <4> HIDE DEF b
      <4> QED
        BY <1>1, <3>1, <4>1, Places DEF Thread
    <3>2. CASE r.at[2] # "rebuild_list"
      <4>1. b = [r EXCEPT !.pc = "poll", !.o = NULL]
        BY <3>2
      <4> HIDE DEF b
      <4> QED
        BY <1>1, <3>2, <4>1, Places DEF Thread
    <3> QED
      BY <3>1, <3>2
  <2> HIDE DEF b
  <2>5. s \in Thread
    BY <2>4, DoneSet
  <2>6. /\ s.pc = b.pc /\ s.c = r.c /\ s.list = r.list /\ s.o = b.o /\ s.x = r.x
        /\ s.y = r.y /\ s.n = r.n /\ s.at = NULL
    BY <2>4 DEF Thread
  <2> HIDE DEF s
  <2>7. FieldsOK(s, w) /\ s.pc \in Between
    <3>1. CASE r.at[2] = "rebuild_list"
      BY <1>1, <2>4, <2>6, <3>1 DEF FieldsOK, HasObject, HasTarget, Between
    <3>2. CASE r.at[2] # "rebuild_list"
      BY <1>1, <2>4, <2>6, <3>2 DEF FieldsOK, HasObject, HasTarget, Between,
         PollLists
    <3> QED
      BY <3>1, <3>2
  <2> QED
    BY <1>1, <2>1, <2>2, <2>3, <2>5, <2>6, <2>7, DataStep
<1> QED
  BY <1>3, <1>4

\* A list that is not forwarded loses its first element.
LEMMA TakeOK ==
  ASSUME IInv, NEW c \in Collectors, NEW l \in ListNames, coll[c].data[l] # <<>>,
         coll' = [coll EXCEPT ![c].data[l] = Tail(@)]
  PROVE  /\ coll' \in [Collectors -> Collector] /\ PointersSame /\ NothingStranded'
         /\ \A d \in Collectors : coll'[d].state = coll[d].state
<1> DEFINE q == [coll[c].data EXCEPT ![l] = Tail(@)]
           e == [coll[c] EXCEPT !.data = q]
<1>1. coll \in [Collectors -> Collector] /\ NothingStranded
  BY DEF IInv, TypeOK
<1>2. coll[c].to[l] = NULL
  BY <1>1 DEF NothingStranded
<1>3. coll[c].data \in [ListNames -> Seq(Objects)] /\ Tail(coll[c].data[l]) \in Seq(Objects)
  BY <1>1 DEF Collector
<1>4. q \in [ListNames -> Seq(Objects)] /\ \A k \in ListNames \ {l} : q[k] = coll[c].data[k]
  BY <1>3
<1>5. coll' = [coll EXCEPT ![c] = e]
  BY <1>1
<1> HIDE DEF q
<1>6. /\ e \in Collector /\ e.forward = coll[c].forward /\ e.to = coll[c].to
      /\ e.state = coll[c].state /\ e.data = q
  BY <1>1, <1>4 DEF Collector
<1> HIDE DEF e
<1>7. \A d \in Collectors : coll'[d] = IF d = c THEN e ELSE coll[d]
  BY <1>1, <1>5
<1>8. NothingStranded'
  BY <1>1, <1>2, <1>4, <1>6, <1>7 DEF NothingStranded
<1> QED
  BY <1>1, <1>5, <1>6, <1>7, <1>8 DEF PointersSame

\* collector_run polls the list that it drains (collector.c:90-124).
LEMMA PollStep ==
  ASSUME IInv, NEW w \in Workers, Poll(w)
  PROVE  IInv'
<1> DEFINE r == th[w]
           data == coll[r.c].data[r.list]
           s == [r EXCEPT !.pc = Handler[r.list], !.o = Head(data)]
<1>1. CASE data = <<>>
  BY <1>1, PollEmptyStep
<1>2. CASE data # <<>>
  <2>1. /\ w \in Threads /\ w # Mutator /\ r \in Thread /\ FieldsOK(r, w) /\ r.pc = "poll"
        /\ LocksFit(r, locker[w], ForwardOf(r))
        /\ locker \in [Threads -> LockerType] /\ coll \in [Collectors -> Collector]
    BY WorkerThread, Now DEF Poll, At, IInv, TypeOK, LockerTypeOK, LockerType
  <2>2. r.c \in Collectors /\ r.list \in PollLists /\ r.list \in ListNames
    BY <2>1 DEF FieldsOK, Thread, PollLists, ListNames
  <2>3. Head(data) \in Objects
    BY <1>2, <2>1, <2>2 DEF Collector
  <2>4. /\ coll' = [coll EXCEPT ![r.c].data[r.list] = Tail(@)] /\ UNCHANGED <<obj, work>>
        /\ th' = [th EXCEPT ![w] = s]
    BY <1>2 DEF Poll, Become
  <2>5. locker' = [locker EXCEPT ![w] = NoLocks]
    BY <2>1 DEF Poll, LocksFit, Between
  <2>6. /\ coll' \in [Collectors -> Collector] /\ PointersSame /\ NothingStranded'
        /\ \A d \in Collectors : coll'[d].state = coll[d].state
    BY <1>2, <2>2, <2>4, TakeOK
  <2>7. Handler[r.list] \in PCs
        /\ \/ r.list = "collect" /\ Handler[r.list] = "phantomize"
           \/ r.list \in {"recovery_list", "rebuild_list"} /\ Handler[r.list] = "recover"
           \/ r.list = "clean_list" /\ Handler[r.list] = "clean"
    BY <2>2, Places DEF Handler, PollLists
  <2> HIDE DEF data
  <2>8. s \in Thread
    BY <2>1, <2>3, <2>7, ObjectSet
  <2>9. /\ s.pc = Handler[r.list] /\ s.c = r.c /\ s.list = r.list /\ s.o \in Objects
        /\ s.t = r.t /\ s.x = r.x /\ s.y = r.y /\ s.n = r.n /\ s.at = r.at
    BY <2>1, <2>3 DEF Thread
  <2> HIDE DEF s
  <2>10. FieldsOK(s, w) /\ s.pc \in Between
    BY <2>1, <2>7, <2>9, NullNoLock DEF FieldsOK, HasObject, HasTarget, Between
  <2> QED
    BY <2>1, <2>4, <2>5, <2>6, <2>8, <2>9, <2>10, DataStep
<1> QED
  BY <1>1, <1>2

\* The loop does not put into a list what a merge has passed (collector.c:90).
LEMMA DrainMergedStep ==
  ASSUME IInv, NEW w \in Workers, DrainMerged(w)
  PROVE  IInv'
<1> DEFINE r == th[w]
           c == r.c
           m == coll[c].data["recovery_list"] \o coll[c].data["merged_list"]
           p == [coll[c].data EXCEPT !["recovery_list"] = m]
           q == [p EXCEPT !["merged_list"] = <<>>]
           e == [coll[c] EXCEPT !.data = q]
           s == [r EXCEPT !.pc = "poll", !.list = "collect"]
<1>1. /\ w \in Threads /\ w # Mutator /\ r \in Thread /\ FieldsOK(r, w) /\ r.pc = "merged"
      /\ LocksFit(r, locker[w], ForwardOf(r)) /\ FreeFor(w, c)
      /\ locker \in [Threads -> LockerType] /\ coll \in [Collectors -> Collector]
  BY WorkerThread, Now DEF DrainMerged, At, IInv, TypeOK, LockerTypeOK, LockerType
<1>2. c \in Collectors
  BY <1>1 DEF FieldsOK, Thread
<1>3. /\ coll' = [coll EXCEPT ![c].data["recovery_list"] = m,
                              ![c].data["merged_list"] = <<>>]
      /\ UNCHANGED <<obj, work>> /\ th' = [th EXCEPT ![w] = s]
  BY <1>1, <1>2 DEF DrainMerged, Become
<1>4. locker' = [locker EXCEPT ![w] = NoLocks]
  BY <1>1 DEF DrainMerged, LocksFit, Between
<1>5. /\ coll[c].data \in [ListNames -> Seq(Objects)] /\ m \in Seq(Objects)
      /\ "recovery_list" \in ListNames /\ "merged_list" \in ListNames
  BY <1>1, <1>2 DEF Collector, ListNames
<1>6. coll[c].to["recovery_list"] # NULL => m = <<>>
  <2> SUFFICES ASSUME coll[c].to["recovery_list"] # NULL
               PROVE  m = <<>>
    OBVIOUS
  <2>1. coll[c].forward # NULL
    BY <1>1, <1>2, <1>5, NotForwarded
  <2>2. coll[c].to["merged_list"] # NULL
    BY <1>2, <1>5, <2>1 DEF IInv, AllForwarded
  <2>3. coll[c].data["recovery_list"] = <<>> /\ coll[c].data["merged_list"] = <<>>
    BY <1>2, <1>5, <2>2 DEF IInv, NothingStranded
  <2> QED
    BY <2>3
<1>7. coll' = [coll EXCEPT ![c] = e]
  BY <1>1, <1>3
<1> HIDE DEF m
<1>8. /\ q \in [ListNames -> Seq(Objects)] /\ q["recovery_list"] = m
      /\ q["merged_list"] = <<>>
      /\ \A k \in ListNames \ {"recovery_list", "merged_list"} : q[k] = coll[c].data[k]
  <2>1. /\ p \in [ListNames -> Seq(Objects)] /\ p["recovery_list"] = m
        /\ \A k \in ListNames \ {"recovery_list"} : p[k] = coll[c].data[k]
    BY <1>5
  <2> HIDE DEF p
  <2>2. <<>> \in Seq(Objects)
    OBVIOUS
  <2> QED
    BY <1>5, <2>1, <2>2
<1> HIDE DEF q
<1>9. /\ e \in Collector /\ e.forward = coll[c].forward /\ e.to = coll[c].to
      /\ e.state = coll[c].state /\ e.data = q
  BY <1>1, <1>2, <1>8 DEF Collector
<1> HIDE DEF e
<1>10. \A d \in Collectors : coll'[d] = IF d = c THEN e ELSE coll[d]
  BY <1>1, <1>2, <1>7
<1>11. NothingStranded'
  <2> SUFFICES ASSUME NEW d \in Collectors, NEW l \in ListNames, coll'[d].to[l] # NULL
               PROVE  coll'[d].data[l] = <<>>
    BY DEF NothingStranded
  <2>1. coll[d].to[l] # NULL => coll[d].data[l] = <<>>
    BY DEF IInv, NothingStranded
  <2> QED
    BY <1>6, <1>8, <1>9, <1>10, <2>1
<1>12. /\ coll' \in [Collectors -> Collector] /\ PointersSame
       /\ \A d \in Collectors : coll'[d].state = coll[d].state
  BY <1>1, <1>2, <1>7, <1>9, <1>10 DEF PointersSame
<1>13. /\ s.pc = "poll" /\ s.c = r.c /\ s.list = "collect" /\ s.o = r.o
       /\ s.t = r.t /\ s.x = r.x /\ s.y = r.y /\ s.n = r.n /\ s.at = r.at /\ s \in Thread
  BY <1>1, Places DEF Thread, PollLists
<1> HIDE DEF s
<1>14. FieldsOK(s, w) /\ s.pc \in Between
  BY <1>1, <1>13 DEF FieldsOK, HasObject, HasTarget, Between, PollLists
<1> QED
  BY <1>1, <1>3, <1>4, <1>11, <1>12, <1>13, <1>14, DataStep

-----------------------------------------------------------------------------
(* Merges *)

\* So does following two pointers at once.
LEMMA MergesSet ==
  ASSUME NEW r \in Thread, NEW a \in PCs,
         NEW x \in Collectors \cup {NULL}, NEW y \in Collectors \cup {NULL}
  PROVE  [r EXCEPT !.pc = a, !.x = x, !.y = y] \in Thread
BY DEF Thread

\* So does comparing a collector with itself.
LEMMA EqualsSet ==
  ASSUME NEW r \in Thread, NEW a \in PCs, NEW c \in Collectors \cup {NULL}
  PROVE  [r EXCEPT !.pc = a, !.x = c, !.y = c, !.n = 0] \in Thread
<1> DEFINE q == [r EXCEPT !.pc = a, !.x = c, !.y = c]
<1>1. q \in Thread
  BY MergesSet
<1>2. [r EXCEPT !.pc = a, !.x = c, !.y = c, !.n = 0] = [q EXCEPT !.n = 0]
  OBVIOUS
<1> HIDE DEF q
<1> QED
  BY <1>1, <1>2 DEF Thread

\* Both objects of a merge get one collector, and no other object does
\* (object.c:357-379).
LEMMA SetBothOK ==
  ASSUME obj \in Objs, NEW r, r.o \in Objects, r.t \in Objects,
         NEW c \in Collectors \cup {NULL}
  PROVE  /\ SetBoth(r, c) \in Objs
         /\ \A p \in Objects : SetBoth(r, c)[p].collector =
                                 IF p \in {r.o, r.t} THEN c ELSE obj[p].collector
<1> DEFINE os == object_set_collector(obj, r.t, c)
<1>1. /\ os \in Objs
      /\ \A p \in Objects : os[p].collector = IF p = r.t THEN c ELSE obj[p].collector
  BY CollectorSet
<1> HIDE DEF os
<1>2. SetBoth(r, c) = object_set_collector(os, r.o, c)
  BY DEF SetBoth, os
<1> QED
  BY <1>1, <1>2, CollectorSet

\* The thread u links its objects, which have the same collector in os; its
\* locks are lk.
Linking(u, os, lk) ==
  /\ th[u].pc \in {"merge", "merging", "forward"}
  /\ th[u].o \in Objects /\ th[u].t \in Objects
  /\ {th[u].o, th[u].t} \subseteq HeldBy(u)
  /\ os \in Objs /\ os[th[u].o].collector = os[th[u].t].collector
  /\ lk \in LockerType /\ lk.stack = <<{th[u].o, th[u].t}>> /\ Complete(lk)

\* The call that merged goes on.
LEMMA LinkedOK ==
  ASSUME IInv, NEW u \in Threads, NEW os, NEW lk, Linking(u, os, lk), Linked(u, os, lk)
  PROVE  /\ obj' \in Objs /\ SameOwners(obj', os)
         /\ \E s \in Thread, L \in LockerType :
              /\ th' = [th EXCEPT ![u] = s] /\ locker' = [locker EXCEPT ![u] = L]
              /\ s.pc \in {"idle", "equals"} /\ s.c \in {th[u].c, NULL}
              /\ FieldsOK(s, u) /\ (\A f : LocksFit(s, L, f))
              /\ \A cs : Follows(s, cs, obj')
              /\ \A k \in Held(L) : k \in HeldBy(u) \/ FreeFor(u, k)
<1> DEFINE r == th[u]
           linked == [os EXCEPT ![r.o].links = @ \ {r.t}, ![r.o].phantoms = @ \cup {r.t}]
           c == os[r.o].collector
<1>1. /\ r \in Thread /\ FieldsOK(r, u) /\ r.o \in Objects /\ r.t \in Objects
      /\ os \in Objs /\ c = os[r.t].collector /\ c \in Collectors \cup {NULL}
  BY Now DEF Linking, Objs, Object
<1>2. linked \in Objs /\ SameOwners(linked, os)
  BY <1>1, PhantomLinkOK
<1>3. HasOne(lk, {r.o, r.t}) /\ lk.want = {}
  BY DEF Linking, HasOne, Complete
<1>4. CASE u = Mutator
  <2>1. /\ obj' = [linked EXCEPT ![r.t].phantom = @ + 1]
        /\ th' = [th EXCEPT ![u] = IdleThread]
        /\ locker' = [locker EXCEPT ![u] = ended(lk)]
    BY <1>4 DEF Linked, Become
  <2> HIDE DEF linked
  <2>2. linked[r.t].phantom + 1 \in Int
    BY <1>1, <1>2 DEF Objs, Object
  <2>3. obj' \in Objs /\ SameOwners(obj', os)
    <3>1. obj' \in Objs /\ SameOwners(obj', linked)
      BY <1>1, <1>2, <2>1, <2>2, PhantomSet
    <3> QED
      BY <1>2, <3>1 DEF SameOwners
  <2>4. ended(lk) = NoLocks
    BY <1>3, EndedOne DEF Linking
  <2>5. NoLocks \in LockerType /\ Held(NoLocks) = {}
    BY NoLocksType, LocksOfNone DEF Held
  <2>6. \A f : LocksFit(IdleThread, NoLocks, f)
    BY DEF LocksFit, IdleThread, Between
  <2>7. \A cs : Follows(IdleThread, cs, obj')
    BY DEF Follows, IdleThread
  <2>8. IdleThread.pc = "idle"
    BY DEF IdleThread
  <2> QED
    BY <2>1, <2>3, <2>4, <2>5, <2>6, <2>7, <2>8, IdleOK
<1>5. CASE u # Mutator
  <2> DEFINE s == [r EXCEPT !.pc = "equals", !.x = c, !.y = c, !.n = 0]
             L == started({c, c}, lk)
  <2>1. /\ obj' = linked /\ th' = [th EXCEPT ![u] = s]
        /\ locker' = [locker EXCEPT ![u] = L]
    BY <1>1, <1>5 DEF Linked, Become
  <2> HIDE DEF linked
  <2>2. obj' \in Objs /\ SameOwners(obj', os)
    BY <1>2, <2>1
  <2>3. obj'[r.o].collector = c
    BY <1>1, <2>2 DEF SameOwners
  <2> HIDE DEF c
  <2>4. L \in LockerType /\ HasTwo(L, {r.o, r.t}, {c} \ {NULL}) /\ Held(L) = {r.o, r.t}
    <3>1. {c, c} \in SUBSET (Locks \cup {NULL}) /\ lock_set({c, c}) = {c} \ {NULL}
      BY <1>1, NullNoLock DEF lock_set
    <3> QED
      BY <3>1, StartedTwo DEF Linking
  <2> HIDE DEF L
  <2>5. s \in Thread
    BY <1>1, Places, EqualsSet
  <2>6. /\ s.pc = "equals" /\ s.c = r.c /\ s.list = r.list /\ s.o = r.o /\ s.t = r.t
        /\ s.x = c /\ s.y = c /\ s.n = 0 /\ s.e = r.e /\ s.at = r.at
    BY <1>1 DEF Thread
  <2> HIDE DEF s
  <2>7. FieldsOK(s, u)
    BY <1>1, <1>5, <2>6 DEF FieldsOK, HasObject, HasTarget, Linking
  <2>8. \A f : LocksFit(s, L, f)
    BY <2>4, <2>6 DEF LocksFit, Between
  <2>9. \A cs : Follows(s, cs, obj')
    BY <2>3, <2>6 DEF Follows
  <2>10. \A k \in Held(L) : k \in HeldBy(u) \/ FreeFor(u, k)
    BY <2>4 DEF Linking
  <2> QED
    BY <2>1, <2>2, <2>4, <2>5, <2>6, <2>7, <2>8, <2>9, <2>10
<1> QED
  BY <1>4, <1>5

\* A merge ends with both objects in one collector (object.c:370-405).
LEMMA LinkedStep ==
  ASSUME IInv, NEW u \in Threads, NEW c \in Collectors \cup {NULL},
         c = NULL \/ Refs(c) # {}, th[u].pc \in {"merge", "merging"},
         NEW lk, Linking(u, SetBoth(th[u], c), lk), Linked(u, SetBoth(th[u], c), lk),
         UNCHANGED <<coll, work>>
  PROVE  IInv'
<1> DEFINE os == SetBoth(th[u], c)
<1>1. /\ obj' \in Objs /\ SameOwners(obj', os)
      /\ \E s \in Thread, L \in LockerType :
              /\ th' = [th EXCEPT ![u] = s] /\ locker' = [locker EXCEPT ![u] = L]
              /\ s.pc \in {"idle", "equals"} /\ s.c \in {th[u].c, NULL}
              /\ FieldsOK(s, u) /\ (\A f : LocksFit(s, L, f))
              /\ \A cs : Follows(s, cs, obj')
              /\ \A k \in Held(L) : k \in HeldBy(u) \/ FreeFor(u, k)
  BY LinkedOK
<1>2. PICK s \in Thread, L \in LockerType :
              /\ th' = [th EXCEPT ![u] = s] /\ locker' = [locker EXCEPT ![u] = L]
              /\ s.pc \in {"idle", "equals"} /\ s.c \in {th[u].c, NULL}
              /\ FieldsOK(s, u) /\ (\A f : LocksFit(s, L, f))
              /\ \A cs : Follows(s, cs, obj')
              /\ \A k \in Held(L) : k \in HeldBy(u) \/ FreeFor(u, k)
  BY <1>1
<1>3. /\ th[u].o \in Objects /\ th[u].t \in Objects
      /\ FreeFor(u, th[u].o) /\ FreeFor(u, th[u].t)
  BY HeldFree DEF Linking
<1>4. \A p \in Objects :
        os[p].collector = IF p \in {th[u].o, th[u].t} THEN c ELSE obj[p].collector
  BY <1>3, SetBothOK DEF IInv, TypeOK, Objs
<1> HIDE DEF os
<1>5. \A p \in Objects :
        LET d == obj'[p].collector
        IN  d = obj[p].collector \/ (FreeFor(u, p) /\ (d = NULL \/ Refs(d) # {}))
  BY <1>1, <1>3, <1>4 DEF SameOwners
<1> QED
  BY <1>1, <1>2, <1>5, ObjectStep

\* object_merge_collectors looks at the collectors of its objects
\* (object.c:354-371).
LEMMA MergeStep ==
  ASSUME IInv, NEW u \in Threads, Merge(u)
  PROVE  IInv'
<1> DEFINE r == th[u]
           x == obj[r.o].collector
           y == obj[r.t].collector
<1>1. /\ r \in Thread /\ FieldsOK(r, u) /\ r.pc = "merge" /\ Ready(u)
      /\ locker[u] \in LockerType /\ UNCHANGED <<coll, work>>
  BY Now DEF Merge, At
<1>2. /\ r.o \in Objects /\ r.t \in Objects /\ {r.o, r.t} = HeldBy(u)
      /\ locker[u].stack = <<{r.o, r.t}>> /\ Complete(locker[u])
  BY <1>1, PairLocked
<1>3. /\ obj \in Objs /\ x \in Collectors \cup {NULL} /\ y \in Collectors \cup {NULL}
      /\ (x # NULL => Refs(x) # {}) /\ (y # NULL => Refs(y) # {})
  BY <1>2 DEF IInv, TypeOK, Objs, Object, Refs
<1>4. CASE NULL \in {x, y} \/ x = y
  <2> DEFINE c == IF x = NULL THEN y ELSE x
  <2>1. c \in Collectors \cup {NULL} /\ (c = NULL \/ Refs(c) # {})
    BY <1>3
  <2>2. Linked(u, SetBoth(r, c), locker[u])
    BY <1>4 DEF Merge
  <2> HIDE DEF c
  <2>3. /\ SetBoth(r, c) \in Objs
        /\ SetBoth(r, c)[r.o].collector = c /\ SetBoth(r, c)[r.t].collector = c
    BY <1>2, <1>3, <2>1, SetBothOK
  <2>4. Linking(u, SetBoth(r, c), locker[u])
    BY <1>1, <1>2, <2>3 DEF Linking
  <2> QED
    BY <1>1, <2>1, <2>2, <2>4, LinkedStep
<1>5. CASE NULL \notin {x, y} /\ x # y
  <2> DEFINE s == [r EXCEPT !.pc = "merging", !.x = x, !.y = y]
             L == started({y, x, r.o, r.t}, locker[u])
  <2>1. /\ th' = [th EXCEPT ![u] = s] /\ locker' = [locker EXCEPT ![u] = L]
        /\ UNCHANGED obj
    BY <1>5 DEF Merge, Become, Start
  <2>2. Leads(coll, obj, r.o, x) /\ Leads(coll, obj, r.t, y)
    BY <1>3, <1>5, ReachSelf DEF Leads
  <2> HIDE DEF x, y
  <2>3. /\ L \in LockerType /\ HasTwo(L, {r.o, r.t}, {x, y, r.o, r.t})
        /\ Held(L) = {r.o, r.t}
    <3>1. /\ {y, x, r.o, r.t} \in SUBSET (Locks \cup {NULL})
          /\ lock_set({y, x, r.o, r.t}) = {x, y, r.o, r.t}
      BY <1>2, <1>3, <1>5, NullNoLock DEF lock_set
    <3> QED
      BY <1>1, <1>2, <3>1, StartedTwo
  <2> HIDE DEF L
  <2>4. s \in Thread
    BY <1>1, <1>3, Places, MergesSet
  <2>5. /\ s.pc = "merging" /\ s.c = r.c /\ s.list = r.list /\ s.o = r.o /\ s.t = r.t
        /\ s.x = x /\ s.y = y /\ s.n = r.n /\ s.e = r.e /\ s.at = r.at
    BY <1>1 DEF Thread
  <2> HIDE DEF s
  <2>6. FieldsOK(s, u)
    BY <1>1, <1>5, <2>5 DEF FieldsOK, HasObject, HasTarget
  <2>7. LocksFit(s, L, ForwardOf(s))
    BY <2>3, <2>5 DEF LocksFit, Between
  <2>8. Follows(s, coll, obj)
    BY <1>5, <2>2, <2>5 DEF Follows
  <2>9. \A k \in Held(L) : k \in HeldBy(u) \/ FreeFor(u, k)
    BY <1>2, <2>3
  <2> QED
    BY <1>1, <2>1, <2>3, <2>4, <2>5, <2>6, <2>7, <2>8, <2>9, QuietStep
<1> QED
  BY <1>4, <1>5

\* What a thread that merges two collectors has locked.
LEMMA MergeLocks ==
  ASSUME IInv, NEW u \in Threads, th[u].pc \in {"merging", "forward"}, Ready(u)
  PROVE  LET r == th[u]
         IN  /\ r \in Thread /\ FieldsOK(r, u) /\ r.o \in Objects /\ r.t \in Objects
             /\ r.x \in Collectors /\ r.y \in Collectors
             /\ Refs(r.x) # {} /\ Refs(r.y) # {}
             /\ Leads(coll, obj, r.o, r.x) /\ Leads(coll, obj, r.t, r.y)
             /\ {r.x, r.y, r.o, r.t} \subseteq HeldBy(u)
             /\ FreeFor(u, r.x) /\ FreeFor(u, r.y) /\ FreeFor(u, r.o) /\ FreeFor(u, r.t)
             /\ ended(locker[u]) \in LockerType
             /\ ended(locker[u]).stack = <<{r.o, r.t}>> /\ Complete(ended(locker[u]))
<1> DEFINE r == th[u]
           A == {r.o, r.t}
           B == {r.x, r.y, r.o, r.t}
<1>1. /\ r \in Thread /\ FieldsOK(r, u) /\ locker[u] \in LockerType /\ locker[u].want = {}
      /\ HeldBy(u) = Held(locker[u]) /\ LocksFit(r, locker[u], ForwardOf(r))
      /\ Follows(r, coll, obj)
  BY Now DEF Ready
<1>2. HasTwo(locker[u], A, B) /\ Leads(coll, obj, r.o, r.x) /\ Leads(coll, obj, r.t, r.y)
  BY <1>1 DEF LocksFit, Follows
<1> HIDE DEF A, B
<1>3. ended(locker[u]) \in LockerType /\ ended(locker[u]).stack = <<A>>
      /\ Complete(ended(locker[u])) /\ A \cup B \subseteq HeldBy(u)
  BY <1>1, <1>2, EndedTwo, HeldTwo
<1>4. \A k \in B : FreeFor(u, k)
  BY <1>3, HeldFree
<1>5. /\ r.o \in Objects /\ r.t \in Objects /\ r.x \in Collectors /\ r.y \in Collectors
      /\ Refs(r.x) # {} /\ Refs(r.y) # {}
  BY MergedRefs
<1> QED
  BY <1>1, <1>2, <1>3, <1>4, <1>5 DEF A, B

\* One of the two has been merged into another collector, by another thread.
LEMMA MergePassStep ==
  ASSUME IInv, NEW u \in Threads, At(u, "merging"),
         NEW x \in Collectors, NEW y \in Collectors,
         Leads(coll, obj, th[u].o, x), Leads(coll, obj, th[u].t, y),
         x = y => coll[x].forward # NULL,
         Become(u, [th[u] EXCEPT !.x = x, !.y = y]),
         Restart(u, {y, x, th[u].o, th[u].t}), UNCHANGED <<coll, obj, work>>
  PROVE  IInv'
<1> DEFINE r == th[u]
           M == ended(locker[u])
           s == [r EXCEPT !.x = x, !.y = y]
           L == started({y, x, r.o, r.t}, M)
<1>1. /\ r \in Thread /\ FieldsOK(r, u) /\ r.o \in Objects /\ r.t \in Objects
      /\ {r.o, r.t} \subseteq HeldBy(u) /\ r.pc = "merging"
      /\ M \in LockerType /\ M.stack = <<{r.o, r.t}>> /\ Complete(M)
  BY MergeLocks DEF At
<1>2. th' = [th EXCEPT ![u] = s] /\ locker' = [locker EXCEPT ![u] = L]
  BY DEF Become, Restart
<1> HIDE DEF M
<1>3. /\ L \in LockerType /\ HasTwo(L, {r.o, r.t}, {x, y, r.o, r.t}) /\ Held(L) = {r.o, r.t}
  <2>1. /\ {y, x, r.o, r.t} \in SUBSET (Locks \cup {NULL})
        /\ lock_set({y, x, r.o, r.t}) = {x, y, r.o, r.t}
    BY <1>1, NullNoLock DEF lock_set
  <2> QED
    BY <1>1, <2>1, StartedTwo
<1> HIDE DEF L
<1>4. /\ s \in Thread /\ s.pc = "merging" /\ s.c = r.c /\ s.list = r.list /\ s.o = r.o
      /\ s.t = r.t /\ s.x = x /\ s.y = y /\ s.n = r.n /\ s.e = r.e /\ s.at = r.at
  BY <1>1 DEF Thread
<1> HIDE DEF s
<1>5. FieldsOK(s, u)
  BY <1>1, <1>4, NullNoLock DEF FieldsOK, HasObject, HasTarget
<1>6. LocksFit(s, L, ForwardOf(s))
  BY <1>3, <1>4 DEF LocksFit, Between
<1>7. Follows(s, coll, obj)
  BY <1>4 DEF Follows
<1>8. \A k \in Held(L) : k \in HeldBy(u) \/ FreeFor(u, k)
  BY <1>1, <1>3
<1> QED
  BY <1>1, <1>2, <1>3, <1>4, <1>5, <1>6, <1>7, <1>8, QuietStep

\* It follows their forward pointers until it has the ends of both chains
\* (object.c:370-405).
LEMMA MergingStep ==
  ASSUME IInv, NEW u \in Threads, Merging(u)
  PROVE  IInv'
<1> DEFINE r == th[u]
           f == coll[r.x].forward
           g == coll[r.y].forward
           out == ended(locker[u])
<1>1. At(u, "merging") /\ r.pc = "merging" /\ Ready(u) /\ UNCHANGED <<coll, work>>
  BY DEF Merging, At
<1>2. /\ r \in Thread /\ FieldsOK(r, u) /\ r.o \in Objects /\ r.t \in Objects
      /\ r.x \in Collectors /\ r.y \in Collectors /\ Refs(r.x) # {} /\ Refs(r.y) # {}
      /\ Leads(coll, obj, r.o, r.x) /\ Leads(coll, obj, r.t, r.y)
      /\ {r.o, r.t} \subseteq HeldBy(u)
      /\ out \in LockerType /\ out.stack = <<{r.o, r.t}>> /\ Complete(out)
  BY <1>1, MergeLocks
<1>3. r.x = r.y => f # NULL
  BY <1>1, Now DEF Follows
<1>4. ASSUME NEW c \in {r.x, r.y}, Linked(u, SetBoth(r, c), out)
      PROVE  IInv'
  <2>1. c \in Collectors \cup {NULL} /\ Refs(c) # {} /\ obj \in Objs
    BY <1>2 DEF IInv, TypeOK, Objs
  <2> HIDE DEF out
  <2>2. /\ SetBoth(r, c) \in Objs
        /\ SetBoth(r, c)[r.o].collector = c /\ SetBoth(r, c)[r.t].collector = c
    BY <1>2, <2>1, SetBothOK
  <2>3. Linking(u, SetBoth(r, c), out)
    BY <1>1, <1>2, <2>2 DEF Linking
  <2> QED
    BY <1>1, <1>4, <2>1, <2>3, LinkedStep
<1>5. CASE g = r.x /\ f = NULL
  BY <1>4, <1>5 DEF Merging
<1>6. CASE ~ (g = r.x /\ f = NULL) /\ f = r.y /\ g = NULL
  BY <1>4, <1>6 DEF Merging
<1>7. CASE /\ ~ (g = r.x /\ f = NULL) /\ ~ (f = r.y /\ g = NULL)
           /\ g # NULL
  <2>1. /\ Become(u, [r EXCEPT !.x = r.x, !.y = g])
        /\ Restart(u, {g, r.x, r.o, r.t}) /\ UNCHANGED obj
    BY <1>7 DEF Merging
  <2>2. g \in Collectors /\ Leads(coll, obj, r.t, g)
    BY <1>2, <1>7, LeadsStep, LedRefs DEF IInv
  <2>3. r.x = g => f # NULL
    BY <1>7
  <2> HIDE DEF g
  <2> QED
    BY <1>1, <1>2, <2>1, <2>2, <2>3, MergePassStep
<1>8. CASE /\ ~ (g = r.x /\ f = NULL) /\ ~ (f = r.y /\ g = NULL)
           /\ g = NULL /\ f # NULL
  <2>1. /\ Become(u, [r EXCEPT !.x = f, !.y = r.y])
        /\ Restart(u, {r.y, f, r.o, r.t}) /\ UNCHANGED obj
    BY <1>8 DEF Merging
  <2>2. f \in Collectors /\ Leads(coll, obj, r.o, f)
    BY <1>2, <1>8, LeadsStep, LedRefs DEF IInv
  <2>3. f # r.y
    BY <1>8
  <2> HIDE DEF f
  <2> QED
    BY <1>1, <1>2, <2>1, <2>2, <2>3, MergePassStep
<1>9. CASE g = NULL /\ f = NULL
  <2> DEFINE s == [r EXCEPT !.pc = "forward"]
  <2>1. r.x # NULL /\ r.y # NULL /\ r.x # r.y
    BY <1>2, <1>3, <1>9, NullNoLock
  <2>2. th' = [th EXCEPT ![u] = s] /\ UNCHANGED <<locker, obj>>
    BY <1>9, <2>1 DEF Merging, Goto, Become
  <2>3. /\ s \in Thread /\ s.pc = "forward" /\ s.c = r.c /\ s.list = r.list /\ s.o = r.o
        /\ s.t = r.t /\ s.x = r.x /\ s.y = r.y /\ s.n = r.n /\ s.e = r.e /\ s.at = r.at
    BY <1>2, Places DEF Thread
  <2> HIDE DEF s
  <2>4. FieldsOK(s, u) /\ s.n = 0
    BY <1>1, <1>2, <2>3 DEF FieldsOK, HasObject, HasTarget
  <2>5. LocksFit(s, locker[u], ForwardOf(s))
    <3>1. HasTwo(locker[u], {r.o, r.t}, {r.x, r.y, r.o, r.t}) /\ locker[u].want = {}
      BY <1>1, Now DEF LocksFit, Ready
    <3> QED
      BY <2>3, <3>1 DEF LocksFit, Between
  <2>6. Follows(s, coll, obj)
    BY <1>2, <1>9, <2>1, <2>3, <2>4 DEF Follows
  <2> QED
    BY <1>1, <1>2, <2>2, <2>3, <2>4, <2>5, <2>6, SameLocksStep
<1> QED
  BY <1>5, <1>6, <1>7, <1>8, <1>9

\* collector_forward_safelists_to leaves no list out.
LEMMA ForwardAll ==
  /\ Len(ForwardOrder) = 5
  /\ \A i \in 1 .. 5 : ForwardOrder[i] \in ListNames
  /\ \A l \in ListNames : \E i \in 1 .. 5 : ForwardOrder[i] = l
<1>1. Len(ForwardOrder) = 5
  BY DEF ForwardOrder
<1>2. /\ ForwardOrder[1] = "collect" /\ ForwardOrder[2] = "merged_list"
      /\ ForwardOrder[3] = "rebuild_list" /\ ForwardOrder[4] = "clean_list"
      /\ ForwardOrder[5] = "recovery_list"
  BY DEF ForwardOrder
<1> QED
  BY <1>1, <1>2 DEF ListNames

\* A step that leaves the queue and the states of collectors as they are.
LEMMA QueueKept ==
  ASSUME IInv, work' = work, th' \in [Threads -> Thread],
         \A d \in Collectors : coll'[d].state = coll[d].state,
         \A t \in Threads : th'[t].c \in {th[t].c, NULL}
  PROVE  RunOnce' /\ TasksLive'
<1>1. work \in Seq(Objects \cup Collectors) /\ th \in [Threads -> Thread]
  BY DEF IInv, TypeOK
<1>2. NULL \notin Collectors /\ NULL \notin Objects
  BY NullNoLock
<1>3. \A i \in DOMAIN work : work[i] # NULL
  BY <1>1, <1>2
<1>4. RunOnce'
  BY <1>3 DEF IInv, RunOnce
<1>5. \A t \in Threads : th[t].c \in Collectors \cup {NULL}
  BY <1>1 DEF Thread
<1>6. TasksLive'
  BY <1>5 DEF IInv, TasksLive
<1> QED
  BY <1>4, <1>6

\* What a list holds goes to the other collector (safelist.c:60-70).
LEMMA ForwardedList ==
  ASSUME coll \in [Collectors -> Collector], NEW x \in Collectors, NEW y \in Collectors \ {x},
         NEW l \in ListNames, coll' = safelist_forward(coll, x, l, y)
  PROVE  /\ coll' \in [Collectors -> Collector]
         /\ \A d \in Collectors : /\ coll'[d].state = coll[d].state
                                  /\ coll'[d].forward = coll[d].forward
                                  /\ d # x => coll'[d].to = coll[d].to
         /\ \A k \in ListNames :
              /\ coll'[x].to[k] = IF k = l THEN y ELSE coll[x].to[k]
              /\ coll'[x].data[k] = IF k = l THEN <<>> ELSE coll[x].data[k]
         /\ \A d \in Collectors \ {x}, k \in ListNames :
              d # y \/ k # Receiver(l) => coll'[d].data[k] = coll[d].data[k]
<1> DEFINE m == coll[y].data[Receiver(l)] \o coll[x].data[l]
           q == [coll[y].data EXCEPT ![Receiver(l)] = m]
           v == [coll[y] EXCEPT !.data = q]
           p == [coll[x].data EXCEPT ![l] = <<>>]
           a == [coll[x].to EXCEPT ![l] = y]
           b == [coll[x] EXCEPT !.data = p]
           u == [b EXCEPT !.to = a]
<1>1. coll[x] \in Collector /\ coll[y] \in Collector /\ Receiver(l) \in ListNames
  BY DEF Receiver, ListNames
<1>2. /\ coll[y].data \in [ListNames -> Seq(Objects)] /\ m \in Seq(Objects)
      /\ coll[x].data \in [ListNames -> Seq(Objects)]
      /\ coll[x].to \in [ListNames -> Collectors \cup {NULL}]
  BY <1>1 DEF Collector
<1>3. \A d \in Collectors : coll'[d] = IF d = x THEN u ELSE IF d = y THEN v ELSE coll[d]
  BY <1>1 DEF safelist_forward
<1>4. coll' = [d \in Collectors |-> coll'[d]]
  BY DEF safelist_forward
<1> HIDE DEF m
<1>5. /\ q \in [ListNames -> Seq(Objects)]
      /\ \A k \in ListNames : k # Receiver(l) => q[k] = coll[y].data[k]
  BY <1>1, <1>2
<1>6. /\ p \in [ListNames -> Seq(Objects)]
      /\ \A k \in ListNames : p[k] = IF k = l THEN <<>> ELSE coll[x].data[k]
  <2>1. <<>> \in Seq(Objects)
    OBVIOUS
  <2> QED
    BY <1>2, <2>1
<1>7. /\ a \in [ListNames -> Collectors \cup {NULL}]
      /\ \A k \in ListNames : a[k] = IF k = l THEN y ELSE coll[x].to[k]
  BY <1>2
<1> HIDE DEF p, q, a
<1>8. v \in Collector /\ v.state = coll[y].state /\ v.forward = coll[y].forward
      /\ v.to = coll[y].to /\ v.data = q
  BY <1>1, <1>5 DEF Collector
<1>9. b \in Collector /\ b.state = coll[x].state /\ b.forward = coll[x].forward
      /\ b.to = coll[x].to /\ b.data = p
  BY <1>1, <1>6 DEF Collector
<1> HIDE DEF b, v
<1>10. u \in Collector /\ u.state = coll[x].state /\ u.forward = coll[x].forward
       /\ u.to = a /\ u.data = p
  BY <1>7, <1>9 DEF Collector
<1> HIDE DEF u
<1>11. coll' \in [Collectors -> Collector]
  BY <1>3, <1>4, <1>8, <1>10
<1> QED
  BY <1>3, <1>5, <1>6, <1>7, <1>8, <1>10, <1>11

\* One list more is forwarded, under the locks of both collectors.
LEMMA ForwardListStep ==
  ASSUME IInv, NEW u \in Threads, Forward(u), th[u].n < Len(ForwardOrder)
  PROVE  IInv'
<1> DEFINE r == th[u]
           x == r.x
           y == r.y
           l == ForwardOrder[r.n + 1]
           s == [r EXCEPT !.n = @ + 1]
<1>1. r.pc = "forward" /\ Ready(u) /\ work' = work /\ obj' = obj /\ locker' = locker
  BY ForwardAll, Now DEF Forward, At, Thread
<1>2. /\ r \in Thread /\ FieldsOK(r, u) /\ x \in Collectors /\ y \in Collectors
      /\ FreeFor(u, x) /\ FreeFor(u, y)
      /\ Leads(coll, obj, r.o, x) /\ Leads(coll, obj, r.t, y) /\ r.n \in 0 .. 4
  <2>1. r.n \in 0 .. 4
    BY Now, ForwardAll DEF Thread
  <2> QED
    BY <1>1, <2>1, MergeLocks
<1>3. /\ x # y /\ coll[x].forward = NULL /\ coll[y].forward = NULL
      /\ \A i \in 1 .. r.n : coll[x].to[ForwardOrder[i]] = y
  BY <1>1, Now DEF Follows
<1>4. l \in ListNames /\ coll' = safelist_forward(coll, x, l, y) /\ th' = [th EXCEPT ![u] = s]
  <2>1. r.n + 1 \in 1 .. 5 /\ ~ (r.n = Len(ForwardOrder))
    BY <1>2, ForwardAll
  <2> QED
    BY <2>1, ForwardAll DEF Forward, Become
<1>5. /\ coll \in [Collectors -> Collector] /\ th \in [Threads -> Thread]
      /\ locker \in [Threads -> LockerType]
  BY DEF IInv, TypeOK, LockerTypeOK, LockerType
<1> HIDE DEF l
<1>6. /\ coll' \in [Collectors -> Collector]
      /\ \A d \in Collectors : /\ coll'[d].state = coll[d].state
                               /\ coll'[d].forward = coll[d].forward
                               /\ d # x => coll'[d].to = coll[d].to
      /\ \A k \in ListNames :
           /\ coll'[x].to[k] = IF k = l THEN y ELSE coll[x].to[k]
           /\ coll'[x].data[k] = IF k = l THEN <<>> ELSE coll[x].data[k]
      /\ \A d \in Collectors \ {x}, k \in ListNames :
           d # y \/ k # Receiver(l) => coll'[d].data[k] = coll[d].data[k]
  BY <1>2, <1>3, <1>4, <1>5, ForwardedList
\* Those of its lists that are forwarded lead to y already.
<1>7. \A k \in ListNames : coll[x].to[k] # NULL => coll[x].to[k] = y
  <2> SUFFICES ASSUME NEW k \in ListNames, coll[x].to[k] # NULL
               PROVE  coll[x].to[k] = y
    OBVIOUS
  <2>1. PICK v \in Threads : th[v].pc = "forward" /\ th[v].x = x /\ th[v].y = coll[x].to[k]
    BY <1>2, <1>3 DEF IInv, ToOK
  <2>2. x \in HeldBy(v)
    BY <2>1, Holds
  <2>3. v = u
    BY <1>2, <2>2 DEF FreeFor
  <2> QED
    BY <2>1, <2>3
<1>8. coll[y].to[Receiver(l)] = NULL
  BY <1>2, <1>3, <1>4, NotForwarded DEF Receiver, ListNames
<1>9. PointersKept(u) /\ ObjectsKept(u)
  BY <1>1, <1>2, <1>3, <1>6, <1>7 DEF PointersKept, ObjectsKept
<1>10. /\ s.pc = "forward" /\ s.c = r.c /\ s.list = r.list /\ s.o = r.o /\ s.t = r.t
       /\ s.x = x /\ s.y = y /\ s.n = r.n + 1 /\ s.e = r.e /\ s.at = r.at /\ s \in Thread
  BY <1>1, <1>2 DEF Thread
<1>11. Moves(u, s, locker[u])
  <2> HIDE DEF s
  <2>1. FieldsOK(s, u)
    BY <1>1, <1>2, <1>10 DEF FieldsOK, HasObject, HasTarget
  <2>2. LocksFit(s, locker[u], ForwardOf(s)')
    <3>1. HasTwo(locker[u], {r.o, r.t}, {x, y, r.o, r.t}) /\ locker[u].want = {}
      BY <1>1, Now DEF LocksFit, Ready
    <3> QED
      BY <1>10, <3>1 DEF LocksFit, Between
  <2>3. Ahead(coll') = Ahead(coll)
    BY <1>6 DEF Ahead
  <2>4. Leads(coll', obj', r.o, x) /\ Leads(coll', obj', r.t, y)
    BY <1>1, <1>2, <2>3 DEF Leads
  <2>5. \A i \in 1 .. s.n : coll'[x].to[ForwardOrder[i]] = y
    <3> SUFFICES ASSUME NEW i \in 1 .. s.n
                 PROVE  coll'[x].to[ForwardOrder[i]] = y
      OBVIOUS
    <3>1. i \in 1 .. 5 /\ (i = r.n + 1 \/ i \in 1 .. r.n)
      BY <1>2, <1>10
    <3>2. ForwardOrder[i] \in ListNames /\ (i = r.n + 1 => ForwardOrder[i] = l)
      BY <3>1, ForwardAll DEF l
    <3> QED
      BY <1>3, <1>6, <3>1, <3>2
  <2>6. Follows(s, coll', obj')
    BY <1>2, <1>3, <1>6, <1>10, <2>4, <2>5 DEF Follows
  <2>7. locker' = [locker EXCEPT ![u] = locker[u]]
    BY <1>1, <1>5
  <2>8. locker[u] \in LockerType /\ HeldBy(u) = Held(locker[u])
    BY Now
  <2> QED
    BY <1>4, <1>10, <2>1, <2>2, <2>6, <2>7, <2>8 DEF Moves
<1>12. /\ th' \in [Threads -> Thread] /\ LockerTypeOK' /\ Exclusive'
       /\ \A t \in Threads : ThreadOK(t)'
       /\ th'[u] = s /\ \A t \in Threads \ {u} : th'[t] = th[t]
  BY <1>9, <1>11, ThreadsStep
<1> HIDE DEF s, r
<1>13. \A t \in Threads : /\ th'[t].pc = th[t].pc /\ th'[t].x = th[t].x
                          /\ th'[t].y = th[t].y /\ th'[t].c = th[t].c
  BY <1>1, <1>10, <1>12 DEF r
<1>14. RunOnce' /\ TasksLive'
  BY <1>1, <1>6, <1>12, <1>13, QueueKept
<1>15. \A c \in Collectors : Refs(c)' = Refs(c)
  BY <1>1, <1>6 DEF Refs
<1>16. RefsLive' /\ Ends'
  <2>1. RefsLive'
    BY <1>6, <1>15 DEF IInv, RefsLive
  <2>2. ASSUME NEW t \in Threads, NEW c, c = th'[t].c, th'[t].pc = "terminate"
        PROVE  Refs(c)' = {}
    <3>1. th[t].pc = "terminate" /\ th[t].c = c /\ c \in Collectors
      BY <1>5, <1>13, <2>2 DEF IInv, ThreadOK, FieldsOK, Thread
    <3> QED
      BY <1>15, <3>1 DEF IInv, Ends
  <2> QED
    BY <2>1, <2>2 DEF Ends
<1>17. ToOK'
  <2> SUFFICES ASSUME NEW c \in Collectors, NEW k \in ListNames, coll'[c].to[k] # NULL,
                      coll'[c].forward # coll'[c].to[k]
               PROVE  \E t \in Threads :
                        th'[t].pc = "forward" /\ th'[t].x = c /\ th'[t].y = coll'[c].to[k]
    BY DEF ToOK
  <2>1. CASE c = x
    <3>1. coll'[c].to[k] = y
      BY <1>6, <1>7, <2>1
    <3> QED
      BY <1>10, <1>12, <2>1, <3>1
  <2>2. CASE c # x
    <3>1. PICK t \in Threads : th[t].pc = "forward" /\ th[t].x = c /\ th[t].y = coll[c].to[k]
      BY <1>6, <2>2 DEF IInv, ToOK
    <3> QED
      BY <1>6, <1>13, <2>2, <3>1
  <2> QED
    BY <2>1, <2>2
<1>18. AllForwarded'
  BY <1>3, <1>6 DEF IInv, AllForwarded
<1>19. NothingStranded'
  <2> SUFFICES ASSUME NEW d \in Collectors, NEW k \in ListNames, coll'[d].to[k] # NULL
               PROVE  coll'[d].data[k] = <<>>
    BY DEF NothingStranded
  <2>1. CASE d = x
    BY <1>6, <2>1 DEF IInv, NothingStranded
  <2>2. CASE d # x
    <3>1. coll[d].to[k] # NULL /\ coll[d].data[k] = <<>>
      BY <1>6, <2>2 DEF IInv, NothingStranded
    <3> QED
      BY <1>6, <1>8, <2>2, <3>1
  <2> QED
    BY <2>1, <2>2
<1>20. TypeOK'
  BY <1>1, <1>6, <1>12 DEF IInv, TypeOK
<1> QED
  BY <1>12, <1>14, <1>16, <1>17, <1>18, <1>19, <1>20 DEF IInv

\* The collector follows its lists, and the objects are linked.
LEMMA ForwardEndStep ==
  ASSUME IInv, NEW u \in Threads, Forward(u), th[u].n = Len(ForwardOrder)
  PROVE  IInv'
<1> DEFINE r == th[u]
           x == r.x
           y == r.y
           os == SetBoth(r, y)
           lk == ended(locker[u])
           e == [coll[x] EXCEPT !.forward = y]
<1>1. r.pc = "forward" /\ Ready(u) /\ work' = work /\ r.n = 5
  BY ForwardAll DEF Forward, At
<1>2. /\ r \in Thread /\ FieldsOK(r, u) /\ x \in Collectors /\ y \in Collectors
      /\ FreeFor(u, x) /\ FreeFor(u, r.o) /\ FreeFor(u, r.t) /\ Refs(y) # {}
      /\ r.o \in Objects /\ r.t \in Objects /\ {r.o, r.t} \subseteq HeldBy(u)
      /\ lk \in LockerType /\ lk.stack = <<{r.o, r.t}>> /\ Complete(lk)
  BY <1>1, MergeLocks
<1>3. /\ x # y /\ coll[x].forward = NULL /\ coll[y].forward = NULL
      /\ \A i \in 1 .. 5 : coll[x].to[ForwardOrder[i]] = y
  BY <1>1, Now DEF Follows
<1>4. \A l \in ListNames : coll[x].to[l] = y
  BY <1>3, ForwardAll
<1>5. coll' = [coll EXCEPT ![x].forward = y] /\ Linked(u, os, lk)
  BY <1>1, ForwardAll DEF Forward
<1>6. /\ coll \in [Collectors -> Collector] /\ th \in [Threads -> Thread]
      /\ y # NULL /\ obj \in Objs
  BY <1>2, NullNoLock DEF IInv, TypeOK, Objs
<1>7. /\ coll' \in [Collectors -> Collector] /\ coll'[x].forward = y
      /\ \A d \in Collectors : /\ coll'[d].state = coll[d].state
                               /\ coll'[d].to = coll[d].to /\ coll'[d].data = coll[d].data
                               /\ d # x => coll'[d].forward = coll[d].forward
  <2>1. coll[x] \in Collector
    BY <1>2, <1>6
  <2>2. e \in Collector /\ e.state = coll[x].state /\ e.forward = y
        /\ e.to = coll[x].to /\ e.data = coll[x].data
    BY <1>2, <2>1 DEF Collector
  <2>3. coll' = [coll EXCEPT ![x] = e]
    BY <1>5
  <2> HIDE DEF e
  <2> QED
    BY <1>2, <1>6, <2>2, <2>3
<1>8. /\ os \in Objs
      /\ \A p \in Objects : os[p].collector = IF p \in {r.o, r.t} THEN y ELSE obj[p].collector
  BY <1>2, <1>6, SetBothOK
<1> HIDE DEF os, lk
<1>9. Linking(u, os, lk)
  BY <1>1, <1>2, <1>8 DEF Linking
<1>10. /\ obj' \in Objs /\ SameOwners(obj', os)
       /\ \E s \in Thread, L \in LockerType :
            /\ th' = [th EXCEPT ![u] = s] /\ locker' = [locker EXCEPT ![u] = L]
            /\ s.pc \in {"idle", "equals"} /\ s.c \in {th[u].c, NULL}
            /\ FieldsOK(s, u) /\ (\A f : LocksFit(s, L, f))
            /\ \A cs : Follows(s, cs, obj')
            /\ \A k \in Held(L) : k \in HeldBy(u) \/ FreeFor(u, k)
  BY <1>5, <1>9, LinkedOK
<1>11. PICK s \in Thread, L \in LockerType :
         /\ th' = [th EXCEPT ![u] = s] /\ locker' = [locker EXCEPT ![u] = L]
         /\ s.pc \in {"idle", "equals"} /\ s.c \in {th[u].c, NULL}
         /\ FieldsOK(s, u) /\ (\A f : LocksFit(s, L, f))
         /\ \A cs : Follows(s, cs, obj')
         /\ \A k \in Held(L) : k \in HeldBy(u) \/ FreeFor(u, k)
  BY <1>10
<1>12. \A p \in Objects :
         obj'[p].collector = IF p \in {r.o, r.t} THEN y ELSE obj[p].collector
  BY <1>8, <1>10 DEF SameOwners
<1>13. PointersKept(u) /\ ObjectsKept(u)
  BY <1>2, <1>3, <1>7, <1>12 DEF PointersKept, ObjectsKept
<1>14. Moves(u, s, L)
  BY <1>11 DEF Moves
<1>15. /\ th' \in [Threads -> Thread] /\ LockerTypeOK' /\ Exclusive'
       /\ \A t \in Threads : ThreadOK(t)'
       /\ th'[u] = s /\ \A t \in Threads \ {u} : th'[t] = th[t]
  BY <1>13, <1>14, ThreadsStep
<1>16. RunOnce' /\ TasksLive'
  BY <1>1, <1>7, <1>11, <1>15, QueueKept
<1>17. \A c \in Collectors : Refs(c)' # {} => Refs(c) # {}
  BY <1>2, <1>7, <1>12 DEF Refs
<1>18. RefsLive' /\ Ends'
  <2>1. RefsLive'
    BY <1>7, <1>17 DEF IInv, RefsLive
  <2>2. ASSUME NEW t \in Threads, NEW c, c = th'[t].c, th'[t].pc = "terminate"
        PROVE  Refs(c)' = {}
    <3>1. t # u /\ th'[t] = th[t]
      BY <1>11, <1>15, <2>2
    <3>2. th[t].pc = "terminate" /\ th[t].c = c /\ c \in Collectors
      BY <1>6, <2>2, <3>1 DEF IInv, ThreadOK, FieldsOK, Thread
    <3> QED
      BY <1>17, <3>2 DEF IInv, Ends
  <2> QED
    BY <2>1, <2>2 DEF Ends
<1>19. ToOK'
  <2> SUFFICES ASSUME NEW c \in Collectors, NEW k \in ListNames, coll'[c].to[k] # NULL,
                      coll'[c].forward # coll'[c].to[k]
               PROVE  \E t \in Threads :
                        th'[t].pc = "forward" /\ th'[t].x = c /\ th'[t].y = coll'[c].to[k]
    BY DEF ToOK
  <2>1. c # x
    BY <1>4, <1>7
  <2>2. PICK t \in Threads : th[t].pc = "forward" /\ th[t].x = c /\ th[t].y = coll[c].to[k]
    BY <1>7, <2>1 DEF IInv, ToOK
  <2> QED
    BY <1>7, <1>15, <2>1, <2>2
<1>20. AllForwarded' /\ NothingStranded'
  BY <1>4, <1>6, <1>7 DEF IInv, AllForwarded, NothingStranded
<1>21. TypeOK'
  BY <1>1, <1>7, <1>10, <1>15 DEF IInv, TypeOK, Objs
<1> QED
  BY <1>15, <1>16, <1>18, <1>19, <1>20, <1>21 DEF IInv

-----------------------------------------------------------------------------
(* The queue *)

\* Where the queue and the collectors of threads change, nothing else does.
LEMMA QueueStep ==
  ASSUME IInv, NEW u \in Threads, NEW r \in Thread, NEW L \in LockerType,
         th' = [th EXCEPT ![u] = r], locker' = [locker EXCEPT ![u] = L],
         UNCHANGED <<coll, obj>>, work' \in Seq(Objects \cup Collectors),
         Held(L) \subseteq HeldBy(u), FieldsOK(r, u), LocksFit(r, L, ForwardOf(r)),
         Follows(r, coll, obj), th[u].pc # "forward", r.pc # "terminate",
         RunOnce', TasksLive'
  PROVE  IInv'
<1>1. ForwardOf(r)' = ForwardOf(r) /\ coll' = coll /\ obj' = obj
  BY DEF ForwardOf
<1>2. Moves(u, r, L)
  BY <1>1 DEF Moves
<1>3. ObjectsKept(u) /\ PointersKept(u)
  BY DEF ObjectsKept, PointersKept
<1>4. /\ th' \in [Threads -> Thread] /\ LockerTypeOK' /\ Exclusive'
      /\ \A t \in Threads : ThreadOK(t)'
      /\ th'[u] = r /\ \A t \in Threads \ {u} : th'[t] = th[t]
  BY <1>2, <1>3, ThreadsStep
<1>5. \A c : Refs(c)' = Refs(c)
  BY DEF Refs
<1>6. RefsLive' /\ AllForwarded' /\ NothingStranded'
  BY <1>5 DEF IInv, RefsLive, AllForwarded, NothingStranded
<1>7. Ends'
  BY <1>4, <1>5 DEF IInv, Ends
<1>8. ToOK'
  BY <1>4 DEF IInv, ToOK
<1>9. TypeOK'
  BY <1>4 DEF IInv, TypeOK
<1> QED
  BY <1>4, <1>6, <1>7, <1>8, <1>9 DEF IInv

\* Taking a collector keeps the type of a thread.
LEMMA RunSet ==
  ASSUME NEW r \in Thread, NEW a \in PCs, NEW c \in Collectors \cup {NULL}
  PROVE  [r EXCEPT !.pc = a, !.c = c] \in Thread
BY DEF Thread

\* So does taking an object to delete.
LEMMA DeleteSet ==
  ASSUME NEW r \in Thread, NEW a \in PCs, NEW o \in Objects, NEW A \in SUBSET Objects
  PROVE  [r EXCEPT !.pc = a, !.list = "delete", !.o = o, !.todo = A] \in Thread
<1> DEFINE q == [r EXCEPT !.pc = a, !.list = "delete"]
<1>1. q \in Thread
  BY DEF Thread
<1>2. [r EXCEPT !.pc = a, !.list = "delete", !.o = o, !.todo = A] =
        [q EXCEPT !.o = o, !.todo = A]
  OBVIOUS
<1> HIDE DEF q
<1> QED
  BY <1>1, <1>2 DEF Thread

\* A worker takes the first task: a collector to run, or an object to delete.
LEMMA GetTaskStep ==
  ASSUME IInv, NEW w \in Workers, worker_get_next_task(w)
  PROVE  IInv'
<1> DEFINE x == Head(work)
           todo == obj[x].links \cup obj[x].phantoms
           a == [IdleThread EXCEPT !.pc = "run", !.c = x]
           b == [IdleThread EXCEPT !.pc = "unlinks", !.list = "delete", !.o = x, !.todo = todo]
           s == IF x \in Collectors THEN a ELSE b
<1>1. /\ w \in Threads /\ w # Mutator /\ th[w].pc = "idle" /\ work # <<>>
      /\ LocksFit(th[w], locker[w], ForwardOf(th[w]))
      /\ work \in Seq(Objects \cup Collectors) /\ th \in [Threads -> Thread]
      /\ locker \in [Threads -> LockerType] /\ obj \in Objs
  BY WorkerThread, Now
  DEF worker_get_next_task, At, IInv, TypeOK, LockerTypeOK, LockerType, Objs
<1>2. /\ th' = [th EXCEPT ![w] = s] /\ work' = Tail(work) /\ UNCHANGED <<coll, obj>>
      /\ UNCHANGED locker
  BY DEF worker_get_next_task, Become
<1>3. locker[w] = NoLocks /\ locker' = [locker EXCEPT ![w] = NoLocks]
  BY <1>1, <1>2 DEF LocksFit, Between
<1>4. /\ Len(work) \in Nat /\ Len(work) >= 1 /\ DOMAIN work = 1 .. Len(work)
      /\ x = work[1] /\ x \in Objects \cup Collectors
      /\ DOMAIN work' = 1 .. Len(work) - 1 /\ work' \in Seq(Objects \cup Collectors)
      /\ \A i \in 1 .. Len(work) - 1 : work'[i] = work[i + 1]
  BY <1>1, <1>2
<1>5. NULL \notin PollLists /\ x # NULL /\ "delete" \notin PollLists
  BY <1>4, CollectorsAssumption, NullNoLock DEF PollLists, ListNames
<1> HIDE DEF x
<1>6. /\ s \in Thread /\ FieldsOK(s, w) /\ s.pc \in {"run", "unlinks"}
      /\ s.c = (IF x \in Collectors THEN x ELSE NULL) /\ s.at = NULL
  <2>1. CASE x \in Collectors
    <3>1. a \in Thread
      BY <2>1, IdleOK, Places, RunSet
    <3>2. /\ a.pc = "run" /\ a.c = x /\ a.list = NULL /\ a.x = NULL /\ a.y = NULL
          /\ a.n = 0 /\ a.at = NULL
      BY DEF IdleThread
    <3> HIDE DEF a
    <3> QED
      BY <1>5, <2>1, <3>1, <3>2 DEF FieldsOK, HasObject, HasTarget
  <2>2. CASE x \notin Collectors
    <3>1. x \in Objects /\ todo \in SUBSET Objects
      BY <1>1, <1>4, <2>2 DEF Objs, Object
    <3> HIDE DEF todo
    <3>2. b \in Thread
      BY <3>1, IdleOK, Places, DeleteSet
    <3>3. /\ b.pc = "unlinks" /\ b.c = NULL /\ b.list = "delete" /\ b.o = x
          /\ b.x = NULL /\ b.y = NULL /\ b.n = 0 /\ b.at = NULL
      BY DEF IdleThread
    <3> HIDE DEF b
    <3> QED
      BY <1>5, <2>2, <3>2, <3>3 DEF FieldsOK, HasObject, HasTarget
  <2> QED
    BY <2>1, <2>2
<1> HIDE DEF s
<1>7. th'[w] = s /\ \A t \in Threads \ {w} : th'[t] = th[t]
  BY <1>1, <1>2
<1>8. /\ \A i, j \in DOMAIN work : work[i] \in Collectors /\ work[i] = work[j] => i = j
      /\ \A t \in Threads, i \in DOMAIN work : th[t].c # work[i]
      /\ \A t, u \in Threads : th[t].c # NULL /\ th[t].c = th[u].c => t = u
      /\ \A i \in DOMAIN work : work[i] \in Collectors => coll[work[i]].state = "live"
      /\ \A t \in Threads : th[t].c # NULL => coll[th[t].c].state = "live"
  BY DEF IInv, RunOnce, TasksLive
<1>9. ASSUME NEW i \in DOMAIN work'
      PROVE  /\ i + 1 \in DOMAIN work /\ 1 \in DOMAIN work /\ work'[i] = work[i + 1]
             /\ i + 1 # 1
  BY <1>4, <1>9
<1>10. RunOnce'
  <2>1. ASSUME NEW i \in DOMAIN work', NEW j \in DOMAIN work',
               work'[i] \in Collectors, work'[i] = work'[j]
        PROVE  i = j
    <3>1. i + 1 = j + 1
      BY <1>8, <1>9, <2>1
    <3> QED
      BY <1>4, <3>1
  <2>2. ASSUME NEW t \in Threads, NEW i \in DOMAIN work', th'[t].c = work'[i]
        PROVE  FALSE
    <3>1. work[i + 1] \in Objects \cup Collectors /\ work[i + 1] # NULL
      BY <1>1, <1>9, NullNoLock
    <3>2. t = w /\ x \in Collectors /\ x = work[i + 1]
      BY <1>6, <1>7, <1>8, <1>9, <2>2, <3>1
    <3> QED
      BY <1>4, <1>8, <1>9, <3>2
  <2>3. ASSUME NEW t \in Threads, NEW u \in Threads, th'[t].c # NULL, th'[t].c = th'[u].c
        PROVE  t = u
    <3>1. \A v \in Threads : th[v].c # x
      BY <1>4, <1>8
    <3> QED
      BY <1>6, <1>7, <1>8, <2>3, <3>1
  <2> QED
    BY <2>1, <2>2, <2>3 DEF RunOnce
<1>11. TasksLive'
  <2>1. \A i \in DOMAIN work' : work'[i] \in Collectors => coll[work'[i]].state = "live"
    BY <1>8, <1>9
  <2>2. \A t \in Threads : th'[t].c # NULL => coll[th'[t].c].state = "live"
    BY <1>4, <1>6, <1>7, <1>8
  <2> QED
    BY <1>2, <2>1, <2>2 DEF TasksLive
<1>12. LocksFit(s, NoLocks, ForwardOf(s)) /\ Follows(s, coll, obj)
  BY <1>6 DEF LocksFit, Follows, Between
<1>13. NoLocks \in LockerType /\ Held(NoLocks) = {}
  BY NoLocksType, LocksOfNone DEF Held
<1> QED
  BY <1>1, <1>2, <1>3, <1>4, <1>6, <1>10, <1>11, <1>12, <1>13, QueueStep

\* The task is put back.
LEMMA RequeueStep ==
  ASSUME IInv, NEW w \in Workers, Requeue(w), th[w].pc \in {"run", "ending"},
         locker' = [locker EXCEPT ![w] = NoLocks], UNCHANGED <<coll, obj>>
  PROVE  IInv'
<1> DEFINE c == th[w].c
<1>1. /\ w \in Threads /\ c \in Collectors /\ c # NULL
      /\ work \in Seq(Objects \cup Collectors) /\ th \in [Threads -> Thread]
  BY WorkerThread, Now DEF IInv, TypeOK, FieldsOK, Thread
<1>2. th' = [th EXCEPT ![w] = IdleThread] /\ work' = Append(work, c)
  BY DEF Requeue, Become
<1>3. /\ Len(work) \in Nat /\ DOMAIN work = 1 .. Len(work)
      /\ DOMAIN work' = 1 .. Len(work) + 1 /\ work' \in Seq(Objects \cup Collectors)
      /\ \A i \in 1 .. Len(work) : work'[i] = work[i]
      /\ work'[Len(work) + 1] = c
  BY <1>1, <1>2
<1>4. /\ \A i, j \in DOMAIN work : work[i] \in Collectors /\ work[i] = work[j] => i = j
      /\ \A t \in Threads, i \in DOMAIN work : th[t].c # work[i]
      /\ \A t, u \in Threads : th[t].c # NULL /\ th[t].c = th[u].c => t = u
      /\ \A i \in DOMAIN work : work[i] \in Collectors => coll[work[i]].state = "live"
      /\ \A t \in Threads : th[t].c # NULL => coll[th[t].c].state = "live"
  BY DEF IInv, RunOnce, TasksLive
<1>5. th'[w].c = NULL /\ \A t \in Threads \ {w} : th'[t] = th[t]
  BY <1>1, <1>2 DEF IdleThread
<1>6. \A t \in Threads \ {w} : th[t].c # c
  BY <1>1, <1>4
<1>7. \A i \in 1 .. Len(work) : work[i] # c
  BY <1>1, <1>3, <1>4
<1> HIDE DEF c
<1>8. RunOnce'
  <2>1. \A i, j \in DOMAIN work' : work'[i] \in Collectors /\ work'[i] = work'[j] => i = j
    BY <1>3, <1>4, <1>7
  <2>2. ASSUME NEW t \in Threads, NEW i \in DOMAIN work', th'[t].c = work'[i]
        PROVE  FALSE
    <3>1. work'[i] # NULL
      BY <1>3, <2>2, NullNoLock
    <3>2. t # w /\ th[t].c = work'[i]
      BY <1>5, <2>2, <3>1
    <3>3. i = Len(work) + 1 \/ i \in DOMAIN work
      BY <1>3
    <3> QED
      BY <1>3, <1>4, <1>6, <3>2, <3>3
  <2>3. \A t, u \in Threads : th'[t].c # NULL /\ th'[t].c = th'[u].c => t = u
    BY <1>4, <1>5
  <2> QED
    BY <2>1, <2>2, <2>3 DEF RunOnce
<1>9. TasksLive'
  <2>1. coll[c].state = "live"
    BY <1>1, <1>4 DEF c
  <2>2. \A i \in DOMAIN work' : work'[i] \in Collectors => coll[work'[i]].state = "live"
    BY <1>3, <1>4, <2>1
  <2>3. \A t \in Threads : th'[t].c # NULL => coll[th'[t].c].state = "live"
    BY <1>4, <1>5
  <2> QED
    BY <2>2, <2>3 DEF TasksLive
<1>10. LocksFit(IdleThread, NoLocks, ForwardOf(IdleThread)) /\ Follows(IdleThread, coll, obj)
  BY DEF LocksFit, Follows, Between, IdleThread
<1>11. NoLocks \in LockerType /\ Held(NoLocks) = {}
  BY NoLocksType, LocksOfNone DEF Held
<1>12. IdleThread.pc = "idle" /\ th[w].pc # "forward"
  BY DEF IdleThread
<1> QED
  BY <1>1, <1>2, <1>3, <1>8, <1>9, <1>10, <1>11, <1>12, IdleOK, QueueStep

\* collector_run goes on, or puts its task back while it has to wait
\* (collector.c:83-90).
LEMMA RunStep ==
  ASSUME IInv, NEW w \in Workers, Run(w)
  PROVE  IInv'
<1>1. CASE ~ counter_continue_waiting(th[w].c)
  BY <1>1, RunOnStep
<1>2. CASE counter_continue_waiting(th[w].c)
  <2>1. w \in Threads /\ th[w].pc = "run" /\ locker[w] = NoLocks
    BY WorkerThread, Now DEF Run, At, LocksFit, Between
  <2>2. locker \in [Threads -> LockerType]
    BY DEF IInv, TypeOK, LockerTypeOK, LockerType
  <2>3. Requeue(w) /\ UNCHANGED <<coll, obj>> /\ locker' = [locker EXCEPT ![w] = NoLocks]
    BY <1>2, <2>1, <2>2 DEF Run
  <2> QED
    BY <2>1, <2>3, RequeueStep
<1> QED
  BY <1>1, <1>2

\* A collector that is done with is locked once more, with the one that it
\* forwards to, before it is freed.
LEMMA EndingStep ==
  ASSUME IInv, NEW w \in Workers, Ending(w)
  PROVE  IInv'
<1> DEFINE r == th[w]
           f == coll[r.c].forward
           s == [r EXCEPT !.pc = "terminate"]
           L == started({r.c, f}, locker[w])
<1>1. /\ w \in Threads /\ w # Mutator /\ r \in Thread /\ FieldsOK(r, w) /\ r.pc = "ending"
      /\ locker[w].want = {} /\ locker[w] \in LockerType /\ HeldBy(w) = Held(locker[w])
      /\ LocksFit(r, locker[w], ForwardOf(r)) /\ UNCHANGED <<coll, obj>>
  BY WorkerThread, Now DEF Ending, At, Ready
<1>2. r.c \in Collectors /\ r.c # NULL /\ f \in Collectors \cup {NULL} /\ ForwardOf(r) = f
  BY <1>1, NullNoLock DEF FieldsOK, Thread, ForwardOf, IInv, TypeOK, Collector
<1> HIDE DEF f
<1>3. PICK A \in EndSets(r.c, f) : HasOne(locker[w], A)
  BY <1>1, <1>2 DEF LocksFit
<1>4. CASE counter_done(r.c)
  <2>1. /\ th' = [th EXCEPT ![w] = s] /\ locker' = [locker EXCEPT ![w] = L]
        /\ work' = work /\ Refs(r.c) = {}
    BY <1>4 DEF Ending, Goto, Become, Start, counter_done, f
  <2>2. /\ locker[w].stack = <<A>> /\ Complete(locker[w]) /\ Held(locker[w]) = A
    <3>1. /\ Held(locker[w]) \cup locker[w].want = A /\ locker[w].stack = <<A>>
          /\ Complete(locker[w])
      BY <1>1, <1>3, HeldOne
    <3> QED
      BY <1>1, <3>1
  <2>3. L \in LockerType /\ HasTwo(L, A, {r.c, f} \ {NULL}) /\ Held(L) = A
    <3> DEFINE S == {r.c, f}
    <3>1. S \in SUBSET (Locks \cup {NULL}) /\ lock_set(S) = S \ {NULL}
      BY <1>2, NullNoLock DEF lock_set
    <3> HIDE DEF S
    <3>2. /\ started(S, locker[w]) \in LockerType
          /\ HasTwo(started(S, locker[w]), A, lock_set(S))
          /\ Held(started(S, locker[w])) = A
      BY <1>1, <2>2, <3>1, StartedTwo
    <3> QED
      BY <3>1, <3>2 DEF S
  <2>4. /\ s \in Thread /\ s.pc = "terminate" /\ s.c = r.c /\ s.list = r.list
        /\ s.o = r.o /\ s.t = r.t /\ s.x = r.x /\ s.y = r.y /\ s.n = r.n
        /\ s.e = r.e /\ s.at = r.at
    BY <1>1, Places DEF Thread
  <2> HIDE DEF s, L
  <2>5. FieldsOK(s, w)
    BY <1>1, <2>4 DEF FieldsOK, HasObject, HasTarget
  <2>6. LocksFit(s, L, ForwardOf(s))
    <3>1. ForwardOf(s) = f
      BY <1>2, <2>4 DEF ForwardOf
    <3> QED
      BY <2>3, <2>4, <3>1 DEF LocksFit, Between
  <2>7. Follows(s, coll, obj)
    BY <2>4 DEF Follows
  <2>8. \A k \in Held(L) : k \in HeldBy(w) \/ FreeFor(w, k)
    BY <1>1, <2>2, <2>3
  <2> QED
    BY <1>1, <2>1, <2>3, <2>4, <2>5, <2>6, <2>7, <2>8, QuietStep
<1>5. CASE ~ counter_done(r.c)
  <2>1. ended(locker[w]) = NoLocks
    BY <1>1, <1>3, EndedOne
  <2>2. Requeue(w) /\ locker' = [locker EXCEPT ![w] = NoLocks]
    BY <1>5, <2>1 DEF Ending, End
  <2> QED
    BY <1>1, <2>2, RequeueStep
<1> QED
  BY <1>4, <1>5

\* It is freed: nothing refers to it, no one has or waits for its lock, and no
\* other thread runs it.
LEMMA TerminateStep ==
  ASSUME IInv, NEW w \in Workers, Terminate(w)
  PROVE  IInv'
<1> DEFINE r == th[w]
           c == r.c
           f == ForwardOf(r)
           e == [NewCollector EXCEPT !.state = "freed"]
<1>1. /\ w \in Threads /\ r \in Thread /\ FieldsOK(r, w) /\ r.pc = "terminate"
      /\ locker[w].want = {} /\ locker[w] \in LockerType
      /\ LocksFit(r, locker[w], f) /\ UNCHANGED <<obj, work>>
      /\ coll \in [Collectors -> Collector] /\ th \in [Threads -> Thread]
      /\ work \in Seq(Objects \cup Collectors)
  BY WorkerThread, Now DEF Terminate, At, Ready, IInv, TypeOK
<1>2. c \in Collectors /\ c # NULL /\ Refs(c) = {}
  BY <1>1, NullNoLock DEF FieldsOK, Thread, IInv, Ends
<1>3. ended(ended(locker[w])) = NoLocks
  <2>1. PICK A \in EndSets(c, f) : HasTwo(locker[w], A, {c, f} \ {NULL})
    BY <1>1 DEF LocksFit
  <2> QED
    BY <1>1, <2>1, EndedTwo
<1>4. /\ th' = [th EXCEPT ![w] = IdleThread] /\ coll' = [coll EXCEPT ![c] = e]
      /\ locker' = [locker EXCEPT ![w] = NoLocks]
  BY <1>3 DEF Terminate, Become, EndTwo
<1>5. e \in Collector /\ e.forward = NULL /\ \A l \in ListNames : e.to[l] = NULL
  <2>1. <<>> \in Seq(Objects)
    OBVIOUS
  <2> QED
    BY <2>1 DEF NewCollector, Collector
<1> HIDE DEF e, c, f
<1>6. /\ coll' \in [Collectors -> Collector] /\ coll'[c] = e
      /\ \A d \in Collectors \ {c} : coll'[d] = coll[d]
  BY <1>1, <1>2, <1>4, <1>5
<1>7. PointersKept(w) /\ ObjectsKept(w)
  BY <1>1, <1>2, <1>6 DEF PointersKept, ObjectsKept, c
<1>8. Moves(w, IdleThread, NoLocks)
  <2>1. NoLocks \in LockerType /\ Held(NoLocks) = {}
    BY NoLocksType, LocksOfNone DEF Held
  <2>2. LocksFit(IdleThread, NoLocks, ForwardOf(IdleThread)')
    BY DEF LocksFit, Between, IdleThread
  <2>3. Follows(IdleThread, coll', obj')
    BY DEF Follows, IdleThread
  <2> QED
    BY <1>1, <1>4, <2>1, <2>2, <2>3, IdleOK DEF Moves
<1>9. /\ th' \in [Threads -> Thread] /\ LockerTypeOK' /\ Exclusive'
      /\ \A t \in Threads : ThreadOK(t)'
      /\ th'[w] = IdleThread /\ \A t \in Threads \ {w} : th'[t] = th[t]
  BY <1>7, <1>8, ThreadsStep
<1>10. \A d \in Collectors : Refs(d)' # {} => Refs(d) # {}
  <2> SUFFICES ASSUME NEW d \in Collectors, Refs(d)' # {}
               PROVE  Refs(d) # {}
    OBVIOUS
  <2>1. CASE \E o \in Objects : obj'[o].collector = d
    BY <1>1, <2>1 DEF Refs
  <2>2. CASE \E b \in Collectors : coll'[b].forward = d
    <3>1. PICK b \in Collectors : coll'[b].forward = d
      BY <2>2
    <3>2. b # c
      BY <1>5, <1>6, <3>1, NullNoLock
    <3> QED
      BY <1>6, <3>1, <3>2 DEF Refs
  <2> QED
    BY <2>1, <2>2 DEF Refs
<1>11. RefsLive'
  <2> SUFFICES ASSUME NEW d \in Collectors, Refs(d)' # {}
               PROVE  coll'[d].state = "live"
    BY DEF RefsLive
  <2>1. Refs(d) # {} /\ d # c
    BY <1>2, <1>10
  <2> QED
    BY <1>6, <2>1 DEF IInv, RefsLive
<1>12. Ends'
  <2> SUFFICES ASSUME NEW t \in Threads, NEW d, d = th'[t].c, th'[t].pc = "terminate"
               PROVE  Refs(d)' = {}
    BY DEF Ends
  <2>1. th'[t] = th[t]
    BY <1>9 DEF IdleThread
  <2>2. d \in Collectors /\ Refs(d) = {}
    BY <1>1, <2>1 DEF IInv, ThreadOK, FieldsOK, Thread, Ends
  <2> QED
    BY <1>10, <2>2
<1>13. AllForwarded' /\ NothingStranded'
  BY <1>5, <1>6 DEF IInv, AllForwarded, NothingStranded
<1>14. ToOK'
  <2> SUFFICES ASSUME NEW d \in Collectors, NEW l \in ListNames, coll'[d].to[l] # NULL,
                      coll'[d].forward # coll'[d].to[l]
               PROVE  \E t \in Threads :
                        th'[t].pc = "forward" /\ th'[t].x = d /\ th'[t].y = coll'[d].to[l]
    BY DEF ToOK
  <2>1. d # c
    BY <1>5, <1>6
  <2>2. PICK t \in Threads : th[t].pc = "forward" /\ th[t].x = d /\ th[t].y = coll[d].to[l]
    BY <1>6, <2>1 DEF IInv, ToOK
  <2> QED
    BY <1>1, <1>6, <1>9, <2>1, <2>2
<1>15. \A t \in Threads : th'[t].c # NULL => th'[t].c = th[t].c /\ th[t].c # c
  BY <1>1, <1>2, <1>9 DEF IdleThread, IInv, RunOnce, c
<1>16. RunOnce'
  <2>1. \A i \in DOMAIN work : work[i] # NULL
    BY <1>1, NullNoLock
  <2> QED
    BY <1>1, <1>15, <2>1 DEF IInv, RunOnce
<1>17. TasksLive'
  <2>1. ASSUME NEW i \in DOMAIN work, work[i] \in Collectors
        PROVE  coll'[work[i]].state = "live"
    BY <1>1, <1>6, <2>1 DEF IInv, RunOnce, TasksLive, c
  <2>2. ASSUME NEW t \in Threads, th'[t].c # NULL
        PROVE  coll'[th'[t].c].state = "live"
    <3>1. th[t].c \in Collectors
      BY <1>1, <1>15, <2>2 DEF Thread
    <3> QED
      BY <1>6, <1>15, <2>2, <3>1 DEF IInv, TasksLive
  <2> QED
    BY <1>1, <2>1, <2>2 DEF TasksLive
<1>18. TypeOK'
  BY <1>1, <1>6, <1>9 DEF IInv, TypeOK
<1> QED
  BY <1>9, <1>11, <1>12, <1>13, <1>14, <1>16, <1>17, <1>18 DEF IInv

-----------------------------------------------------------------------------
(* The start *)

\* An object that has a collector is in its list.
LEMMA OwnerListed ==
  ASSUME NEW g \in Starts, NEW o \in Objects
  PROVE  /\ Owner(g, o) \in Collectors \cup {NULL}
         /\ \A c \in Collectors : Owner(g, o) = c => g.lists[c] # <<>>
<1>1. CASE \E c \in Collectors : o \in ToSet(g.lists[c])
  <2>1. Owner(g, o) \in Collectors /\ o \in ToSet(g.lists[Owner(g, o)])
    BY <1>1 DEF Owner
  <2>2. ToSet(<<>>) = {}
    BY DEF ToSet
  <2> QED
    BY <2>1, <2>2
<1>2. CASE ~ \E c \in Collectors : o \in ToSet(g.lists[c])
  BY <1>2, NullNoLock DEF Owner
<1> QED
  BY <1>1, <1>2

\* The invariant holds of the graphs that the program has built.
LEMMA InitInv == Init => IInv
<1> SUFFICES ASSUME Init
             PROVE  IInv
  OBVIOUS
<1>1. PICK g \in Starts :
        /\ obj = [o \in Objects |->
             [NewObject EXCEPT !.links = g.links[o], !.root = o \in g.roots,
                               !.collector = Owner(g, o),
                               !.phantom = IF Owner(g, o) = NULL THEN 0 ELSE 1]]
        /\ coll = [c \in Collectors |->
             IF g.lists[c] = <<>> THEN NewCollector
             ELSE [NewCollector EXCEPT !.state = "live", !.data["collect"] = g.lists[c]]]
        /\ work = g.work
  BY DEF Init
<1>2. /\ g.links \in [Objects -> SUBSET Objects] /\ g.lists \in [Collectors -> Seq(Objects)]
      /\ g.work \in Seq(Collectors) /\ IsInjective(g.work)
      /\ \A c \in Collectors : c \in ToSet(g.work) <=> g.lists[c] # <<>>
  BY StartsAssumption
<1>3. th = [t \in Threads |-> IdleThread] /\ locker = [t \in Threads |-> NoLocks]
  BY DEF Init
<1>4. obj \in [Objects -> Object] /\ \A o \in Objects : obj[o].collector = Owner(g, o)
  <2>1. ASSUME NEW o \in Objects
        PROVE  obj[o] \in Object /\ obj[o].collector = Owner(g, o)
    <3> DEFINE c == Owner(g, o)
               n == IF c = NULL THEN 0 ELSE 1
               b == o \in g.roots
    <3>1. c \in Collectors \cup {NULL} /\ n \in Int /\ b \in BOOLEAN
          /\ g.links[o] \in SUBSET Objects
      BY <1>2, OwnerListed
    <3>2. obj[o] = [NewObject EXCEPT !.links = g.links[o], !.root = b,
                                     !.collector = c, !.phantom = n]
      BY <1>1
    <3> HIDE DEF c, n, b
    <3>3. obj[o] = [collector |-> c, phantom |-> n, phantomized |-> FALSE, root |-> b,
                    links |-> g.links[o], phantoms |-> {}]
      BY <3>2 DEF NewObject
    <3> QED
      BY <3>1, <3>3 DEF Object, c
  <2> QED
    BY <1>1, <2>1
<1>5. /\ coll \in [Collectors -> Collector]
      /\ \A c \in Collectors : /\ coll[c].forward = NULL
                               /\ \A l \in ListNames : coll[c].to[l] = NULL
                               /\ g.lists[c] # <<>> => coll[c].state = "live"
  <2>1. NewCollector \in Collector /\ NewCollector.forward = NULL
        /\ \A l \in ListNames : NewCollector.to[l] = NULL
    <3>1. <<>> \in Seq(Objects)
      OBVIOUS
    <3> QED
      BY <3>1 DEF NewCollector, Collector
  <2>2. ASSUME NEW c \in Collectors
        PROVE  /\ coll[c] \in Collector /\ coll[c].forward = NULL
               /\ \A l \in ListNames : coll[c].to[l] = NULL
               /\ g.lists[c] # <<>> => coll[c].state = "live"
    <3> DEFINE q == [NewCollector.data EXCEPT !["collect"] = g.lists[c]]
               a == [NewCollector EXCEPT !.state = "live"]
               b == [a EXCEPT !.data = q]
    <3>1. q \in [ListNames -> Seq(Objects)]
      BY <1>2, <2>1 DEF Collector, ListNames
    <3>2. coll[c] = IF g.lists[c] = <<>> THEN NewCollector ELSE b
      BY <1>1
    <3> HIDE DEF q
    <3>3. a \in Collector /\ a.forward = NULL /\ a.to = NewCollector.to /\ a.state = "live"
      BY <2>1 DEF Collector
    <3> HIDE DEF a
    <3>4. b \in Collector /\ b.forward = NULL /\ b.to = NewCollector.to /\ b.state = "live"
      BY <3>1, <3>3 DEF Collector
    <3> HIDE DEF b
    <3> QED
      BY <2>1, <3>2, <3>4
  <2> QED
    BY <1>1, <2>2
<1>6. TypeOK
  <2>1. LockerTypeOK
    BY <1>3, NoLocksType DEF LockerTypeOK, LockerType
  <2>2. th \in [Threads -> Thread]
    BY <1>3, IdleOK
  <2>3. work \in Seq(Objects \cup Collectors)
    BY <1>1, <1>2, SeqMonotonic
  <2> QED
    BY <1>4, <1>5, <2>1, <2>2, <2>3 DEF TypeOK
<1>7. Exclusive
  <2>1. \A t \in Threads : HeldBy(t) = {}
    BY <1>3, NoLocksType, LocksOfNone DEF HeldBy
  <2> QED
    BY <2>1 DEF Exclusive
<1>8. \A t \in Threads : ThreadOK(t)
  <2>1. \A f : LocksFit(IdleThread, NoLocks, f)
    BY DEF LocksFit, Between, IdleThread
  <2>2. Follows(IdleThread, coll, obj)
    BY DEF Follows, IdleThread
  <2> QED
    BY <1>3, <2>1, <2>2, IdleOK DEF ThreadOK
<1>9. Ends /\ ToOK /\ AllForwarded /\ NothingStranded
  BY <1>3, <1>5 DEF Ends, ToOK, AllForwarded, NothingStranded, IdleThread
<1>10. RefsLive
  <2> SUFFICES ASSUME NEW c \in Collectors, Refs(c) # {}
               PROVE  coll[c].state = "live"
    BY DEF RefsLive
  <2>1. PICK o \in Objects : obj[o].collector = c
    BY <1>5, NullNoLock DEF Refs
  <2> QED
    BY <1>4, <1>5, <2>1, OwnerListed
<1>11. RunOnce /\ TasksLive
  <2>1. \A i \in DOMAIN work : work[i] \in ToSet(work) /\ work[i] \in Collectors
    <3>1. work \in Seq(Collectors) /\ DOMAIN work = 1 .. Len(work)
      BY <1>1, <1>2, LenProperties
    <3> QED
      BY <3>1, ElementOfSeq DEF ToSet
  <2>2. \A t \in Threads : th[t].c = NULL
    BY <1>3 DEF IdleThread
  <2>3. \A i, j \in DOMAIN work : work[i] = work[j] => i = j
    BY <1>1, <1>2 DEF IsInjective
  <2>4. RunOnce
    BY <2>1, <2>2, <2>3, NullNoLock DEF RunOnce
  <2> QED
    BY <1>1, <1>2, <1>5, <2>1, <2>2, <2>4 DEF TasksLive
<1> QED
  BY <1>6, <1>7, <1>8, <1>9, <1>10, <1>11 DEF IInv

-----------------------------------------------------------------------------
(* The theorems *)

\* The steps that the program and the workers have in common keep it.
LEMMA CommonStep ==
  ASSUME IInv, NEW u \in Threads, Common(u)
  PROVE  IInv'
<1>1. CASE Forward(u)
  <2>1. th[u].n < Len(ForwardOrder) \/ th[u].n = Len(ForwardOrder)
    BY <1>1 DEF Forward
  <2> QED
    BY <1>1, <2>1, ForwardListStep, ForwardEndStep
<1> QED
  BY <1>1, LockStep, AddObjectStep, MergeStep, MergingStep DEF Common

\* So do those of a worker.
LEMMA WorkerStep ==
  ASSUME IInv, NEW w \in Workers, WorkerNext(w)
  PROVE  IInv'
<1>1. CASE Common(w)
  BY <1>1, WorkerThread, CommonStep
<1>2. CASE Updated(w)
  BY <1>2, UpdateOnStep, UpdatedStep
<1>3. CASE \/ collector_equals(w) \/ worker_get_next_task(w) \/ Run(w) \/ DrainMerged(w)
           \/ Poll(w) \/ Add(w) \/ Walk(w) \/ Update(w)
  BY <1>3, EqualsStep, GetTaskStep, RunStep, DrainMergedStep, PollStep, AddStep,
     WalkStep, UpdateStep
<1>4. CASE \/ PhantomizeNode(w) \/ PhantomizeNext(w) \/ PhantomizeLink(w)
           \/ RecoverNode(w) \/ Await(w) \/ RebuildNext(w) \/ RebuildLink(w)
  BY <1>4, PhantomizeNodeStep, PhantomizeNextStep, PhantomizeLinkStep,
     RecoverNodeStep, AwaitStep, RebuildNextStep, RebuildLinkStep
<1>5. CASE \/ CleanNode(w) \/ RemoveNext(w) \/ RemoveLink(w) \/ DecPhantom(w)
           \/ object_del(w) \/ Finish(w) \/ Ending(w) \/ Terminate(w)
  BY <1>5, CleanStep, RemoveNextStep, RemoveLinkStep, DecPhantomStep, DelStep,
     FinishStep, EndingStep, TerminateStep
<1> QED
  BY <1>1, <1>2, <1>3, <1>4, <1>5 DEF WorkerNext

\* So does every step.
LEMMA NextInv == IInv /\ [Next]_vars => IInv'
<1> SUFFICES ASSUME IInv, [Next]_vars
             PROVE  IInv'
  OBVIOUS
<1>1. ASSUME NEW w \in Workers, WorkerNext(w)
      PROVE  IInv'
  BY <1>1, WorkerStep
<1>2. CASE MutatorNext
  <2>1. Mutator \in Threads
    BY CollectorsAssumption
  <2> QED
    BY <1>2, <2>1, CommonStep, SetLinkStep, DropStep, SetStep DEF MutatorNext
<1>3. CASE UNCHANGED vars
  <2>1. \A t \in Threads : ThreadOK(t)'
    BY <1>3 DEF vars, IInv, ThreadOK, ForwardOf
  <2>2. TypeOK' /\ Exclusive'
    BY <1>3 DEF vars, IInv, TypeOK, LockerTypeOK, Exclusive, FreeFor, HeldBy
  <2>3. Ends' /\ RefsLive'
    BY <1>3 DEF vars, IInv, Ends, RefsLive, Refs
  <2>4. ToOK' /\ AllForwarded' /\ NothingStranded' /\ RunOnce' /\ TasksLive'
    BY <1>3 DEF vars, IInv, ToOK, AllForwarded, NothingStranded, RunOnce, TasksLive
  <2> QED
    BY <2>1, <2>2, <2>3, <2>4 DEF IInv
<1> QED
  BY <1>1, <1>2, <1>3 DEF Next

\* The inductive invariant holds in every execution, for any numbers of objects,
\* collectors and workers, from any graph that the program has built.
THEOREM Invariant == Spec => []IInv
<1> QED
  BY InitInv, NextInv, PTL DEF Spec

\* Whoever merges, phantomizes, recovers or ends collectors, a thread takes its
\* locks in the order of Nesting (locker.c:46, object.c:380, collector.c:63).
THEOREM SpecLocksOrdered == Spec => []LocksOrdered
<1> QED
  BY Invariant, OrderedInvariant, PTL

\* No threads of acid wait for one another's locks in a circle (idlock.c:28).
THEOREM SpecNoDeadlock == Spec => []NoDeadlock
<1> QED
  BY SpecLocksOrdered, OrderPreventsDeadlock, PTL

\* Each locker_start meets its locker_end, and collector_equals finds no pointer
\* to follow: the assertion of link_phantomize holds (link.c:48,
\* collector.c:172-175).
THEOREM SpecLocksReleased == Spec => []LocksReleased
<1> QED
  BY Invariant, ReleasedInvariant, PTL

\* No thread has, waits for or walks through a collector that was freed
\* (object.c:380-383, safelist.c:31, collector.c:126).
THEOREM SpecCollectorsAlive == Spec => []CollectorsAlive
<1> QED
  BY Invariant, AliveInvariant, PTL

\* Merges leave nothing in a list that has been forwarded (safelist.c:60-70).
THEOREM SpecNothingStranded == Spec => []NothingStranded
<1>1. IInv => NothingStranded
  BY DEF IInv
<1> QED
  BY <1>1, Invariant, PTL
==============================================================================
