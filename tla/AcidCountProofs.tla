--------------------------- MODULE AcidCountProofs ---------------------------
(***************************************************************************)
(* Every count of every object is exact, what the program can reach is     *)
(* alive, and an object is listed by the collector it points to, for       *)
(* careful programs with one worker and any number of objects, fields,     *)
(* links and collectors.  HeapCountProofs says what each function does to  *)
(* counts and owners; here is who holds and carries them.                  *)
(***************************************************************************)
EXTENDS HeapCountProofs

-----------------------------------------------------------------------------
(* The invariant *)

\* The links in tables.
TableLinks(h) == UNION {LinksOf(h, o) : o \in Objects}

\* The links that worker t has taken out of a table and still has to drop.
InHand(t) == IF t.pc = "destroy_links" THEN t.links ELSE {}

\* The links that are still counted, with l taken out by object_set.
HeldBy(h, l, t) == TableLinks(h) \cup InHand(t) \cup ({l} \ {NULL})

\* Link l stands for count i of o.
HoldsCount(h, l, o, i) == h.link[l].target = o /\ Kind(h, l) = i

\* Those of H that do.
HoldersOf(H, h, o, i) == {l \in H : HoldsCount(h, l, o, i)}

\* Worker t is at pc with o in hand.
HasAt(t, pc, o) == t.pc = pc /\ t.obj = o

\* Worker t holds o as an element of a list that counts.
Carries(t, o) ==
  t.obj = o /\ t.task.run = "collector_run" /\ t.list # "rebuild_list"

\* What variables and worker t hold of count i of o.
Owed(h, r, t, o, i) ==
  (IF i = h.obj[o].which
     THEN r[o] + (IF HasAt(t, "phantomize_node", o) THEN 1 ELSE 0) ELSE 0)
    + (IF i = Phantom /\ Carries(t, o) THEN 1 ELSE 0)

\* Each count is the number of its holders.
Counted(H, h, r, t) ==
  \A o \in Objects, i \in 0..2 :
    Unlisted(h, o, i) = Cardinality(HoldersOf(H, h, o, i)) + Owed(h, r, t, o, i)

\* A link is in one field of one table, that of its source.
Placed(h) ==
  /\ \A o, p \in Objects, f, e \in Fields :
       h.obj[o].links[f] # NULL /\ h.obj[o].links[f] = h.obj[p].links[e]
         => o = p /\ f = e
  /\ \A o \in Objects, f \in Fields :
       LET l == h.obj[o].links[f] IN l # NULL => h.link[l].src = o
  /\ \A o \in Objects : h.obj[o].state = "none" => KeysOf(h, o) = {}

\* The list that worker t drains fits where it is.
ListFits(t) ==
  /\ t.pc \in {"collect", "phantomize_node", "phantomize_links", "phantomized"}
       => t.list = "collect"
  /\ t.pc \in {"recovery_list", "recovered"} => t.list = "recovery_list"
  /\ t.pc = "rebuild_list" => t.list = "rebuild_list"
  /\ t.pc \in {"recover_node", "await", "rebuild_links", "rebuild_link"}
       => t.list \in {"recovery_list", "rebuild_list"}
  /\ t.pc \in {"clean_list", "clean_node", "dec_phantom"} => t.list = "clean_list"
  /\ t.pc \in {"remove_links", "destroy_links"} /\ t.task.run = "collector_run"
       => t.list = "clean_list"

\* What worker t has taken note of is still so.
HandOK(h, t) ==
  /\ t.pc \notin ObjectPCs => t.obj = NULL
  /\ t.pc = "phantomize_links" => t.links \subseteq LinksOf(h, t.obj)
  /\ t.pc \in {"rebuild_links", "rebuild_link"} => t.keys \subseteq KeysOf(h, t.obj)
  /\ t.pc \notin {"rebuild_links", "rebuild_link"} => t.keys = {}
  /\ t.pc = "rebuild_link" => t.lk \in TableLinks(h)
  /\ t.pc \in {"destroy_links", "delete"} /\ t.task.run = "request_delete"
       => KeysOf(h, t.obj) = {}

\* Links taken out of tables are in none.
TakenOut(h, l, t) ==
  InHand(t) \cap TableLinks(h) = {} /\ l \notin TableLinks(h)

\* Worker t has been asked to delete o.
Deletes(t, o) == t.obj = o /\ t.task.run = "request_delete"

\* Nothing counts on an object that is not live or soon will not be.
DeadOK(h, t) ==
  \A o \in Objects :
    h.obj[o].state # "live" \/ o \in Requested(h) \/ Deletes(t, o) => Zero(h, o)

\* A node that is not phantomized is not half so.
FlagsOK(h) ==
  \A o \in Objects : h.obj[o].phantomized \/ h.obj[o].phantomization_complete

\* Together with IInv and TInv, the inductive invariant for one worker t.
CountInv(H, h, r, t) ==
  /\ IsFiniteSet(H)
  /\ Counted(H, h, r, t)
  /\ Placed(h)
  /\ ListFits(t) /\ HandOK(h, t)
  /\ DeadOK(h, t)
  /\ FlagsOK(h)
  /\ Emptied(h)
  /\ h.failed = "none" => AllHaveColl(h)
  /\ h.failed \notin CountFailures

CInv ==
  \A w \in Workers :
    /\ CountInv(HeldBy(heap, old, thr[w]), heap, root, thr[w])
    /\ TakenOut(heap, old, thr[w])
    /\ old # NULL => Quiet

-----------------------------------------------------------------------------
(* Counting the links to an object *)

\* The links of S stand for the same counts in g.
SameKinds(h, g, S) ==
  \A l \in S : g.link[l].target = h.link[l].target /\ Kind(g, l) = Kind(h, l)

\* Finitely many links have finitely many holders among them.
LEMMA HoldersFinite ==
  ASSUME NEW H, IsFiniteSet(H), NEW h, NEW o, NEW i
  PROVE  /\ IsFiniteSet(HoldersOf(H, h, o, i))
         /\ Cardinality(HoldersOf(H, h, o, i)) \in Nat
<1>1. HoldersOf(H, h, o, i) \subseteq H
  BY DEF HoldersOf
<1> QED
  BY <1>1, FS_Subset, FS_CardinalityType

\* Links that stand for the same counts are the same holders.
LEMMA HoldersSame ==
  ASSUME NEW H, NEW h, NEW g, SameKinds(h, g, H), NEW o, NEW i
  PROVE  HoldersOf(H, g, o, i) = HoldersOf(H, h, o, i)
BY DEF HoldersOf, HoldsCount, SameKinds

\* A new link adds one holder.
LEMMA HoldersGain ==
  ASSUME NEW H, IsFiniteSet(H), NEW h, NEW g, SameKinds(h, g, H),
         NEW l, l \notin H, NEW o, NEW i
  PROVE  Cardinality(HoldersOf(H \cup {l}, g, o, i)) =
           Cardinality(HoldersOf(H, h, o, i))
             + (IF HoldsCount(g, l, o, i) THEN 1 ELSE 0)
<1> DEFINE A == HoldersOf(H, h, o, i)
           B == HoldersOf(H \cup {l}, g, o, i)
<1>1. HoldersOf(H, g, o, i) = A
  BY HoldersSame
<1>2. B = IF HoldsCount(g, l, o, i) THEN A \cup {l} ELSE A
  BY <1>1 DEF HoldersOf
<1>3. IsFiniteSet(A) /\ Cardinality(A) \in Nat /\ l \notin A
  BY HoldersFinite DEF HoldersOf
<1> HIDE DEF A, B
<1>4. Cardinality(A \cup {l}) = Cardinality(A) + 1
  BY <1>3, FS_AddElement
<1> QED
  BY <1>2, <1>3, <1>4 DEF A, B

\* A link that is dropped takes one away.
LEMMA HoldersLose ==
  ASSUME NEW H, IsFiniteSet(H), NEW h, NEW g, NEW l \in H,
         SameKinds(h, g, H \ {l}), NEW o, NEW i
  PROVE  /\ IsFiniteSet(H \ {l})
         /\ Cardinality(HoldersOf(H \ {l}, g, o, i)) =
              Cardinality(HoldersOf(H, h, o, i))
                - (IF HoldsCount(h, l, o, i) THEN 1 ELSE 0)
<1> DEFINE G == H \ {l}
<1>1. IsFiniteSet(G) /\ l \notin G /\ H = G \cup {l}
  BY FS_Subset
<1>2. SameKinds(h, h, G)
  BY DEF SameKinds
<1>3. HoldersOf(G, g, o, i) = HoldersOf(G, h, o, i)
  BY HoldersSame
<1> HIDE DEF G
<1>4. Cardinality(HoldersOf(H, h, o, i)) =
        Cardinality(HoldersOf(G, h, o, i))
          + (IF HoldsCount(h, l, o, i) THEN 1 ELSE 0)
  BY <1>1, <1>2, HoldersGain
<1>5. Cardinality(HoldersOf(G, h, o, i)) \in Nat
  BY <1>1, HoldersFinite
<1>6. /\ IsFiniteSet(G)
      /\ Cardinality(HoldersOf(G, g, o, i)) =
           Cardinality(HoldersOf(H, h, o, i))
             - (IF HoldsCount(h, l, o, i) THEN 1 ELSE 0)
  BY <1>1, <1>3, <1>4, <1>5
<1> QED
  BY <1>6 DEF G

\* A link that turns from one count to another takes one away here and adds
\* one there.
LEMMA HoldersTurn ==
  ASSUME NEW H, IsFiniteSet(H), NEW h, NEW g, NEW l \in H,
         SameKinds(h, g, H \ {l}), NEW o, NEW i
  PROVE  Cardinality(HoldersOf(H, g, o, i)) =
           Cardinality(HoldersOf(H, h, o, i))
             - (IF HoldsCount(h, l, o, i) THEN 1 ELSE 0)
             + (IF HoldsCount(g, l, o, i) THEN 1 ELSE 0)
<1> DEFINE G == H \ {l}
<1>1. l \notin G /\ H = G \cup {l} /\ SameKinds(g, g, G)
  BY DEF SameKinds
<1>2. /\ IsFiniteSet(G)
      /\ Cardinality(HoldersOf(G, g, o, i)) =
           Cardinality(HoldersOf(H, h, o, i))
             - (IF HoldsCount(h, l, o, i) THEN 1 ELSE 0)
  BY HoldersLose
<1> HIDE DEF G
<1>3. Cardinality(HoldersOf(H, g, o, i)) =
        Cardinality(HoldersOf(G, g, o, i))
          + (IF HoldsCount(g, l, o, i) THEN 1 ELSE 0)
  BY <1>1, <1>2, HoldersGain
<1> QED
  BY <1>2, <1>3

-----------------------------------------------------------------------------
(* What exact counts say *)

\* A count that stands for something is not zero.
Holds(h, o, i) == Unlisted(h, o, i) >= 1 /\ h.obj[o].count[i] > 0

\* Holders are counted: none of them counts less than nothing.
LEMMA CountedHolds ==
  ASSUME NEW h, Good(h), NEW H, IsFiniteSet(H), NEW r \in [Objects -> Nat],
         NEW t, Counted(H, h, r, t), NEW o \in Objects
  PROVE  /\ \A i \in 0..2 :
              /\ Cardinality(HoldersOf(H, h, o, i)) \in Nat
              /\ Owed(h, r, t, o, i) \in Nat
              /\ Unlisted(h, o, i) >= 0 /\ h.obj[o].count[i] >= 0
              /\ \A l \in H : HoldsCount(h, l, o, i) => Holds(h, o, i)
         /\ h.obj[o].which \in 0..2 /\ h.obj[o].which # Phantom
         /\ r[o] > 0 \/ HasAt(t, "phantomize_node", o) =>
              Holds(h, o, h.obj[o].which)
         /\ Carries(t, o) => Holds(h, o, Phantom)
<1>1. /\ h.obj[o].which \in 0..2 /\ h.obj[o].which # Phantom
      /\ Listed(Store(h), o, Counting) \in Nat
      /\ Listed(Store(h), o, {"collect"}) \in Nat
      /\ \A i \in 0..2 : h.obj[o].count[i] \in Int /\ Unlisted(h, o, i) \in Int
  BY UnlistedInt
<1>2. ASSUME NEW i \in 0..2
      PROVE  h.obj[o].count[i] >= Unlisted(h, o, i)
  BY <1>1 DEF Unlisted
<1>3. ASSUME NEW i \in 0..2
      PROVE  /\ Cardinality(HoldersOf(H, h, o, i)) \in Nat
             /\ Owed(h, r, t, o, i) \in Nat
             /\ Unlisted(h, o, i) = Cardinality(HoldersOf(H, h, o, i))
                                      + Owed(h, r, t, o, i)
  BY HoldersFinite DEF Owed, Counted
<1>4. ASSUME NEW i \in 0..2, Unlisted(h, o, i) >= 1
      PROVE  Holds(h, o, i)
  BY <1>1, <1>2, <1>4 DEF Holds
<1>5. ASSUME NEW i \in 0..2, NEW l \in H, HoldsCount(h, l, o, i)
      PROVE  Holds(h, o, i)
  <2>1. l \in HoldersOf(H, h, o, i)
    BY <1>5 DEF HoldersOf
  <2>2. Cardinality(HoldersOf(H, h, o, i)) # 0
    BY <2>1, HoldersFinite, FS_EmptySet
  <2>3. Unlisted(h, o, i) >= 1
    BY <1>1, <1>3, <2>2
  <2> QED
    BY <1>4, <2>3
<1>6. ASSUME NEW i \in 0..2
      PROVE  Unlisted(h, o, i) >= 0 /\ h.obj[o].count[i] >= 0
  BY <1>1, <1>2, <1>3
<1>7. ASSUME r[o] > 0 \/ HasAt(t, "phantomize_node", o)
      PROVE  Holds(h, o, h.obj[o].which)
  <2> DEFINE i == h.obj[o].which
  <2>1. r[o] \in Nat /\ (i = Phantom <=> FALSE)
    BY <1>1
  <2>2. Owed(h, r, t, o, i) >= 1
    BY <1>7, <2>1 DEF Owed
  <2> HIDE DEF i
  <2>3. i \in 0..2
    BY <1>1 DEF i
  <2>4. Holds(h, o, i)
    BY <1>1, <1>3, <1>4, <2>2, <2>3
  <2> QED
    BY <2>4 DEF i
<1>8. ASSUME Carries(t, o)
      PROVE  Holds(h, o, Phantom)
  <2>1. Owed(h, r, t, o, Phantom) >= 1
    BY <1>1, <1>8 DEF Owed, Phantom
  <2>2. Phantom \in 0..2
    BY DEF Phantom
  <2> QED
    BY <1>1, <1>3, <1>4, <2>1, <2>2
<1> QED
  BY <1>1, <1>3, <1>5, <1>6, <1>7, <1>8

\* An object that has a count is alive.
LEMMA HoldsAlive ==
  ASSUME NEW h, NEW t, DeadOK(h, t), NEW o \in Objects, NEW i \in 0..2,
         Holds(h, o, i)
  PROVE  /\ ~Zero(h, o) /\ h.obj[o].state = "live"
         /\ o \notin Requested(h) /\ ~Deletes(t, o) /\ o \in Known(h)
<1>1. ~Zero(h, o)
  BY DEF Holds, Zero
<1> QED
  BY <1>1 DEF DeadOK, Known

-----------------------------------------------------------------------------
(* Keeping the invariant *)

\* A call that moves no counts, links or tables.
Still(h, g) ==
  /\ \A p \in Objects, i \in 0..2 : Unlisted(g, p, i) = Unlisted(h, p, i)
  /\ \A p \in Objects : /\ g.obj[p].links = h.obj[p].links
                        /\ g.obj[p].which = h.obj[p].which
                        /\ g.obj[p].state = h.obj[p].state
                        /\ g.obj[p].count = h.obj[p].count
                        /\ HasColl(h, p) => HasColl(g, p)
  /\ g.link = h.link
  /\ Requested(g) \subseteq Requested(h)
  /\ Emptied(h) => Emptied(g)

\* A level call is one.
LEMMA LevelStill ==
  ASSUME NEW h, NEW g, Level(h, g)
  PROVE  Still(h, g)
<1>1. \A p \in Objects, i \in 0..2 : Unlisted(g, p, i) = Unlisted(h, p, i)
  BY LevelUnlisted
<1> QED
  BY <1>1 DEF Still, Level, SameShape

\* So is a change to an object's flags.
LEMMA CountsStill ==
  ASSUME NEW h, NEW g, SameCounts(h, g), g.link = h.link,
         \A p \in Objects : /\ g.obj[p].links = h.obj[p].links
                            /\ g.obj[p].state = h.obj[p].state
  PROVE  Still(h, g)
<1>1. /\ \A p \in Objects, i \in 0..2 : Unlisted(g, p, i) = Unlisted(h, p, i)
      /\ \A p \in Objects : HasColl(g, p) <=> HasColl(h, p)
      /\ Requested(g) = Requested(h)
      /\ Emptied(g) <=> Emptied(h)
  BY CountsSame
<1> QED
  BY <1>1 DEF Still, SameCounts

\* The same heap is still.
LEMMA SelfStill ==
  ASSUME NEW h
  PROVE  Still(h, h)
BY DEF Still

\* Calls may be still one after the other.
LEMMA StillTrans ==
  ASSUME NEW h, NEW g, NEW k, Still(h, g), Still(g, k)
  PROVE  Still(h, k)
BY DEF Still

\* A failing assertion is still.
LEMMA AssertStill ==
  ASSUME NEW h, Good(h), NEW P, NEW what \in Failures
  PROVE  LET g == assert(h, P, what)
         IN  /\ Still(h, g) /\ g.obj = h.obj /\ g.coll = h.coll
             /\ g.work = h.work /\ g.failed \in {h.failed, what}
             /\ P => g = h
<1> DEFINE g == assert(h, P, what)
<1>1. /\ g.obj = h.obj /\ g.coll = h.coll /\ g.work = h.work
      /\ g.link = h.link /\ g.failed \in {h.failed, what}
  BY DEF assert, Good, HeapType
<1>2. P => g = h
  BY AssertHolds
<1> HIDE DEF g
<1>3. SameCounts(h, g)
  BY <1>1 DEF SameCounts
<1>4. Still(h, g)
  BY <1>1, <1>3, CountsStill
<1> QED
  BY <1>1, <1>2, <1>4 DEF g

\* Worker u counts on the same objects as t, and is asked to delete no other
\* one that anything counts on.
SameHold(h, t, u) ==
  \A p \in Objects :
    /\ HasAt(u, "phantomize_node", p) <=> HasAt(t, "phantomize_node", p)
    /\ Carries(u, p) <=> Carries(t, p)
    /\ Deletes(u, p) => Deletes(t, p) \/ Zero(h, p)

\* Tables and links stay in place.
LEMMA PlacedKept ==
  ASSUME NEW h, NEW g, Placed(h),
         \A p \in Objects : /\ g.obj[p].links = h.obj[p].links
                            /\ g.obj[p].state = "none" => h.obj[p].state = "none",
         \A l \in TableLinks(h) : g.link[l].src = h.link[l].src
  PROVE  Placed(g)
<1>1. ASSUME NEW o \in Objects, NEW f \in Fields, g.obj[o].links[f] # NULL
      PROVE  g.link[g.obj[o].links[f]].src = o
  <2>1. h.obj[o].links[f] \in TableLinks(h)
    BY <1>1 DEF TableLinks, LinksOf
  <2>2. g.obj[o].links[f] = h.obj[o].links[f]
    OBVIOUS
  <2>3. h.link[h.obj[o].links[f]].src = o
    BY <1>1, <2>2 DEF Placed
  <2> QED
    BY <2>1, <2>2, <2>3
<1>2. \A o, p \in Objects, f, e \in Fields :
        g.obj[o].links[f] # NULL /\ g.obj[o].links[f] = g.obj[p].links[e]
          => o = p /\ f = e
  BY DEF Placed
<1>3. \A o \in Objects : g.obj[o].state = "none" => KeysOf(g, o) = {}
  BY DEF Placed, KeysOf
<1> QED
  BY <1>1, <1>2, <1>3 DEF Placed

\* What a worker has taken note of stays so while tables do.
LEMMA HandKept ==
  ASSUME NEW h, NEW g, NEW t, HandOK(h, t), t.pc \in ObjectPCs => t.obj \in Objects,
         \A p \in Objects : g.obj[p].links = h.obj[p].links
  PROVE  HandOK(g, t) /\ TableLinks(g) = TableLinks(h)
<1>1. \A p \in Objects : LinksOf(g, p) = LinksOf(h, p) /\ KeysOf(g, p) = KeysOf(h, p)
  BY DEF LinksOf, KeysOf
<1>2. TableLinks(g) = TableLinks(h)
  BY <1>1 DEF TableLinks
<1>3. t.pc \in {"phantomize_links", "rebuild_links", "rebuild_link",
                "destroy_links", "delete"} => t.obj \in Objects
  BY DEF ObjectPCs
<1> QED
  BY <1>1, <1>2, <1>3 DEF HandOK

\* Objects that nothing counts on stay so when another one's counts move.
LEMMA DeadKept ==
  ASSUME NEW h, NEW g, NEW t, NEW u, DeadOK(h, t), NEW x \in Objects, ~Zero(h, x),
         \A p \in Objects : g.obj[p].state = h.obj[p].state,
         \A p \in Objects \ {x} : g.obj[p].count = h.obj[p].count,
         Requests(h, g, x),
         \A p \in Objects : Deletes(u, p) => Deletes(t, p) \/ Zero(h, p)
  PROVE  DeadOK(g, u)
<1>1. ASSUME NEW o \in Objects,
             g.obj[o].state # "live" \/ o \in Requested(g) \/ Deletes(u, o)
      PROVE  Zero(g, o)
  <2>1. CASE o \in Requested(g) /\ o \notin Requested(h)
    BY <2>1 DEF Requests
  <2>2. CASE ~(o \in Requested(g) /\ o \notin Requested(h))
    <3>1. Zero(h, o)
      BY <1>1, <2>2 DEF DeadOK
    <3>2. o # x
      BY <3>1
    <3> QED
      BY <3>1, <3>2 DEF Zero
  <2> QED
    BY <2>1, <2>2
<1> QED
  BY <1>1 DEF DeadOK

\* The invariant is kept where counts stand still.
LEMMA CountFrame ==
  ASSUME NEW h, NEW g, NEW H, NEW r, NEW t, NEW u, CountInv(H, h, r, t),
         Still(h, g), FlagsOK(g), g.failed \notin CountFailures,
         g.failed = "none" => h.failed = "none",
         SameHold(h, t, u), ListFits(u), HandOK(g, u)
  PROVE  CountInv(H, g, r, u)
<1>1. ASSUME NEW o \in Objects, NEW i \in 0..2
      PROVE  Unlisted(g, o, i) = Cardinality(HoldersOf(H, g, o, i))
                                   + Owed(g, r, u, o, i)
  <2>1. HoldersOf(H, g, o, i) = HoldersOf(H, h, o, i)
    BY DEF HoldersOf, HoldsCount, Kind, Still
  <2>2. Owed(g, r, u, o, i) = Owed(h, r, t, o, i)
    BY DEF Owed, Still, SameHold
  <2>3. Unlisted(g, o, i) = Unlisted(h, o, i)
    BY DEF Still
  <2> QED
    BY <2>1, <2>2, <2>3 DEF CountInv, Counted
<1>2. Placed(g)
  <2>1. Placed(h)
    BY DEF CountInv
  <2> QED
    BY <2>1, PlacedKept DEF Still
<1>3. DeadOK(g, u)
  <2>1. ASSUME NEW o \in Objects,
               g.obj[o].state # "live" \/ o \in Requested(g) \/ Deletes(u, o)
        PROVE  Zero(g, o)
    <3>1. Zero(h, o)
      BY <2>1 DEF CountInv, DeadOK, Still, SameHold
    <3> QED
      BY <3>1 DEF Zero, Still
  <2> QED
    BY <2>1 DEF DeadOK
<1>4. /\ IsFiniteSet(H) /\ Emptied(g)
      /\ g.failed = "none" => AllHaveColl(g)
  BY DEF CountInv, AllHaveColl, Still
<1> QED
  BY <1>1, <1>2, <1>3, <1>4 DEF CountInv, Counted

\* The links held while old_link is empty.
Held(h, t) == TableLinks(h) \cup InHand(t)

\* A worker's step keeps the invariant if the heap and the worker do: while
\* old_link is not empty no worker steps.
LEMMA WorkerCounts ==
  ASSUME NEW w \in Workers, Workers = {w}, old = NULL, UNCHANGED <<root, old>>,
         CountInv(Held(heap', thr'[w]), heap', root, thr'[w]),
         InHand(thr'[w]) \cap TableLinks(heap') = {}
  PROVE  CInv'
<1>1. HeldBy(heap', NULL, thr'[w]) = Held(heap', thr'[w])
  BY DEF HeldBy, Held
<1>2. NULL \notin TableLinks(heap')
  BY DEF TableLinks, LinksOf
<1>3. TakenOut(heap', NULL, thr'[w])
  BY <1>2 DEF TakenOut
<1> QED
  BY <1>1, <1>3 DEF CInv

\* Nothing a worker does to its place or its lists matters to counts while it
\* goes on with the same node, or has none.
LEMMA HoldSame ==
  ASSUME NEW h, NEW t, NEW u,
         \/ t.obj = NULL /\ u.obj = NULL
         \/ /\ u.obj = t.obj /\ u.task = t.task
            /\ u.list = "rebuild_list" <=> t.list = "rebuild_list"
            /\ t.pc # "phantomize_node" /\ u.pc # "phantomize_node"
  PROVE  SameHold(h, t, u)
BY HeapAssumption DEF SameHold, HasAt, Carries, Deletes

\* What all this says of the one worker when it makes a step.
Ready(w) ==
  /\ old = NULL /\ Good(heap) /\ heap.failed = "none"
  /\ root \in [Objects -> Nat]
  /\ thr \in [Workers -> Thread]
  /\ thr[w] \in Thread /\ ThreadOK(heap, thr[w])
  /\ CountInv(Held(heap, thr[w]), heap, root, thr[w])
  /\ InHand(thr[w]) \cap TableLinks(heap) = {}
  /\ AllHaveColl(heap) /\ Emptied(heap) /\ FlagsOK(heap) /\ Placed(heap)
  /\ ListFits(thr[w]) /\ HandOK(heap, thr[w]) /\ DeadOK(heap, thr[w])
  /\ thr[w].pc \in CollectorPCs =>
       /\ thr[w].task.run = "collector_run"
       /\ Mine(w) \in Collectors /\ heap.coll[Mine(w)].live
  /\ thr[w].pc \in ObjectPCs => thr[w].obj \in Known(heap) /\ thr[w].obj \in Objects

\* The invariant says all of it of a worker that has something to do.
LEMMA Facts ==
  ASSUME IInv, TInv, CInv, Running, NEW w \in Workers,
         thr[w].pc # "idle" \/ heap.work # <<>>
  PROVE  Ready(w)
<1>1. old = NULL
  BY DEF CInv, Quiet, At
<1>2. /\ Good(heap) /\ heap.failed = "none"
      /\ root \in [Objects -> Nat] /\ thr \in [Workers -> Thread]
      /\ thr[w] \in Thread /\ ThreadOK(heap, thr[w])
  BY WorkerFacts DEF IInv, ThreadsOK, MutatorOK
<1>3. HeldBy(heap, NULL, thr[w]) = Held(heap, thr[w])
  BY DEF HeldBy, Held
<1>4. /\ CountInv(Held(heap, thr[w]), heap, root, thr[w])
      /\ InHand(thr[w]) \cap TableLinks(heap) = {}
  BY <1>1, <1>3 DEF CInv, TakenOut
<1>5. ASSUME thr[w].pc \in CollectorPCs
      PROVE  /\ thr[w].task.run = "collector_run"
             /\ Mine(w) \in Collectors /\ heap.coll[Mine(w)].live
  <2>1. thr[w].task = CollTask(Mine(w)) /\ Mine(w) \in Collectors
    BY <1>5, MineTask
  <2>2. RunBy(Mine(w)) # {}
    BY <2>1 DEF RunBy
  <2> QED
    BY <1>5, <2>1, <2>2, WorkerFacts DEF TInv, OneTask
<1>6. thr[w].pc \in ObjectPCs => thr[w].obj \in Known(heap) /\ thr[w].obj \in Objects
  BY WorkerFacts
<1>7. /\ AllHaveColl(heap) /\ Emptied(heap) /\ FlagsOK(heap) /\ Placed(heap)
      /\ ListFits(thr[w]) /\ HandOK(heap, thr[w]) /\ DeadOK(heap, thr[w])
  BY <1>2, <1>4 DEF CountInv
<1> QED
  BY <1>1, <1>2, <1>4, <1>5, <1>6, <1>7 DEF Ready

\* The invariant is kept by steps that move no counts.
LEMMA StillStep ==
  ASSUME NEW w \in Workers, Workers = {w}, Ready(w), UNCHANGED <<root, old>>,
         Still(heap, heap'), FlagsOK(heap'), heap'.failed \notin CountFailures,
         SameHold(heap, thr[w], thr'[w]), ListFits(thr'[w]),
         HandOK(heap', thr'[w]), InHand(thr'[w]) = InHand(thr[w])
  PROVE  CInv'
<1>1. TableLinks(heap') = TableLinks(heap)
  BY DEF Still, TableLinks, LinksOf
<1>2. Held(heap', thr'[w]) = Held(heap, thr[w])
  BY <1>1 DEF Held
<1>3. CountInv(Held(heap, thr[w]), heap, root, thr[w]) /\ heap.failed = "none"
  BY DEF Ready
<1>4. CountInv(Held(heap, thr[w]), heap', root, thr'[w])
  BY <1>3, CountFrame
<1> QED
  BY <1>1, <1>2, <1>4, WorkerCounts DEF Ready

\* No assertion has failed yet.
LEMMA NoneFailed ==
  ASSUME NEW g, g.failed = "none"
  PROVE  g.failed \notin CountFailures
BY DEF CountFailures

\* The flags are in order as long as none changes.
LEMMA FlagsKept ==
  ASSUME NEW h, NEW g, FlagsOK(h), SameFlags(h, g)
  PROVE  FlagsOK(g)
BY DEF FlagsOK, SameFlags

-----------------------------------------------------------------------------
(* The worker: tasks and lists *)

\* A worker in the loops of collector_run between two nodes.
BetweenNodes == {"collector_run", "merged", "collect", "recovery_list",
                 "rebuild_list", "clean_list", "finish"}

\* It goes on with no node in hand.
LEMMA EmptyHanded ==
  ASSUME NEW h, NEW g, NEW t, HandOK(h, t), t.pc \in BetweenNodes,
         NEW u, u.obj = NULL, u.keys = {}, u.pc \in BetweenNodes \cup {"idle"}
  PROVE  /\ SameHold(h, t, u) /\ HandOK(g, u)
         /\ InHand(u) = InHand(t)
<1>1. t.obj = NULL
  BY DEF HandOK, ObjectPCs, BetweenNodes
<1>2. SameHold(h, t, u)
  BY <1>1, HoldSame
<1>3. HandOK(g, u)
  BY DEF HandOK, ObjectPCs, BetweenNodes
<1>4. InHand(u) = InHand(t)
  BY DEF InHand, BetweenNodes
<1> QED
  BY <1>2, <1>3, <1>4

\* A collector's task that is queued again changes no counts (task.c:57-62).
LEMMA RequeueCounts ==
  ASSUME IInv, Running, NEW w \in Workers, Workers = {w}, Ready(w),
         thr[w].pc \in BetweenNodes, Requeue(w, heap)
  PROVE  CInv'
<1>1. /\ thr[w].pc \in CollectorPCs
      /\ thr[w].task = CollTask(Mine(w)) /\ Mine(w) \in Collectors
  BY MineTask DEF CollectorPCs, PCs, BetweenNodes
<1>2. heap' = task_start(heap, "collector_run", Mine(w))
  BY <1>1 DEF Requeue, Become, task_start, CollTask
<1>3. [run |-> "collector_run", arg |-> Mine(w)] \in KnownTask(heap)
  BY <1>1 DEF KnownTask
<1>4. /\ Level(heap, heap') /\ heap'.failed = heap.failed
      /\ heap'.obj = heap.obj
  BY <1>2, <1>3, StartTaskLevel DEF Ready
<1>5. thr'[w] = IdleThread
  BY DEF Requeue, Ready
<1>6. /\ SameHold(heap, thr[w], thr'[w]) /\ HandOK(heap', thr'[w])
      /\ InHand(thr'[w]) = InHand(thr[w]) /\ ListFits(thr'[w])
  BY <1>5, EmptyHanded DEF IdleThread, Ready, ListFits
<1>7. FlagsOK(heap')
  BY <1>4, FlagsKept DEF SameFlags, Ready
<1>8. heap'.failed \notin CountFailures
  BY <1>4, NoneFailed DEF Ready
<1> QED
  BY <1>4, <1>6, <1>7, <1>8, LevelStill, StillStep DEF Requeue, Become

\* Nor does collector_run between two lists (collector.c:83-124).
LEMMA BetweenListsCounts ==
  ASSUME IInv, Running, NEW w \in Workers, Workers = {w}, Ready(w),
         CollectorWaits(w) \/ CollectorStarts(w) \/ DrainMerged(w) \/ PollNothing(w)
  PROVE  CInv'
<1>1. thr[w].pc \in BetweenNodes /\ thr[w].obj = NULL /\ thr[w].keys = {}
  BY DEF CollectorWaits, CollectorStarts, DrainMerged, PollNothing, At,
         Draining, Handler, BetweenNodes, Ready, HandOK, ObjectPCs
<1>2. CASE CollectorWaits(w)
  BY <1>1, <1>2, RequeueCounts DEF CollectorWaits
<1>3. ASSUME CollectorStarts(w) \/ PollNothing(w)
      PROVE  /\ heap' = heap /\ thr'[w].obj = NULL /\ thr'[w].keys = {}
             /\ thr'[w].pc \in BetweenNodes /\ ListFits(thr'[w])
             /\ UNCHANGED <<root, old>>
  <2>1. CASE CollectorStarts(w)
    <3>1. thr'[w] = [thr[w] EXCEPT !.pc = "merged"]
      BY <2>1 DEF CollectorStarts, Goto, Ready
    <3>2. /\ thr'[w].obj = NULL /\ thr'[w].keys = {} /\ thr'[w].pc = "merged"
      BY <1>1, <3>1 DEF Ready, Thread
    <3> QED
      BY <2>1, <3>2 DEF CollectorStarts, BetweenNodes, ListFits
  <2>2. CASE PollNothing(w) /\ thr[w].list = "clean_list"
    <3>1. thr'[w] = [thr[w] EXCEPT !.pc = "finish"]
      BY <2>2 DEF PollNothing, Goto, Ready
    <3>2. /\ thr'[w].obj = NULL /\ thr'[w].keys = {} /\ thr'[w].pc = "finish"
      BY <1>1, <3>1 DEF Ready, Thread
    <3> QED
      BY <2>2, <3>2 DEF PollNothing, BetweenNodes, ListFits
  <2>3. CASE PollNothing(w) /\ thr[w].list # "clean_list"
    <3> DEFINE n == AfterList[thr[w].list]
    <3>1. n \in {"recovery_list", "rebuild_list", "clean_list"}
      BY <2>3 DEF PollNothing, Draining, Handler, AfterList, Ready, ListFits
    <3>2. thr'[w] = [thr[w] EXCEPT !.pc = n, !.list = n]
      BY <2>3 DEF PollNothing, Ready
    <3> HIDE DEF n
    <3>3. /\ thr'[w].obj = NULL /\ thr'[w].keys = {}
          /\ thr'[w].pc = n /\ thr'[w].list = n
      BY <1>1, <3>2 DEF Ready, Thread
    <3> QED
      BY <2>3, <3>1, <3>3 DEF PollNothing, BetweenNodes, ListFits
  <2> QED
    BY <1>3, <2>1, <2>2, <2>3
<1>4. CASE CollectorStarts(w) \/ PollNothing(w)
  <2>1. /\ SameHold(heap, thr[w], thr'[w]) /\ HandOK(heap', thr'[w])
        /\ InHand(thr'[w]) = InHand(thr[w])
    BY <1>1, <1>3, <1>4, EmptyHanded DEF Ready
  <2>2. Still(heap, heap') /\ FlagsOK(heap')
    BY <1>3, <1>4, SelfStill DEF Ready
  <2> QED
    BY <1>3, <1>4, <2>1, <2>2, NoneFailed, StillStep DEF Ready
<1>5. CASE DrainMerged(w)
  <2>1. thr[w].pc \in CollectorPCs
    BY <1>1 DEF BetweenNodes, CollectorPCs, PCs
  <2>2. ListsSet(heap, heap', Mine(w),
          [heap.coll[Mine(w)].lists EXCEPT
             !["recovery_list"] = @ \o heap.coll[Mine(w)].lists["merged_list"],
             !["merged_list"] = <<>>])
    BY <1>5 DEF DrainMerged, Become, ListsSet
  <2>3. /\ Level(heap, heap') /\ heap'.failed = heap.failed
        /\ heap'.obj = heap.obj
    BY <2>1, <2>2, DrainMergedLevel DEF Ready
  <2>4. thr'[w] = [thr[w] EXCEPT !.pc = "collect", !.list = "collect"]
    BY <1>5 DEF DrainMerged, Ready
  <2>5. /\ thr'[w].obj = NULL /\ thr'[w].keys = {}
        /\ thr'[w].pc = "collect" /\ thr'[w].list = "collect"
    BY <1>1, <2>4 DEF Ready, Thread
  <2>6. /\ SameHold(heap, thr[w], thr'[w]) /\ HandOK(heap', thr'[w])
        /\ InHand(thr'[w]) = InHand(thr[w]) /\ ListFits(thr'[w])
    BY <1>1, <2>5, EmptyHanded DEF Ready, ListFits, BetweenNodes
  <2>7. FlagsOK(heap')
    BY <2>3, FlagsKept DEF SameFlags, Ready
  <2> QED
    BY <1>5, <2>3, <2>6, <2>7, NoneFailed, LevelStill, StillStep
       DEF DrainMerged, Become, Ready
<1> QED
  BY <1>2, <1>4, <1>5

\* The first task of the queue asks for nothing that has counts, if it is to
\* delete (worker.c:53-78, object.c:108-114).
LEMMA NextTaskCounts ==
  ASSUME IInv, Running, NEW w \in Workers, Workers = {w}, Ready(w),
         worker_get_next_task(w)
  PROVE  CInv'
<1> DEFINE task == Head(heap.work)
           u    == thr'[w]
<1>1. /\ thr[w].pc = "idle" /\ heap.work # <<>> /\ UNCHANGED <<root, old>>
      /\ heap' = [heap EXCEPT !.work = Tail(@)]
  BY DEF worker_get_next_task, At, Become
<1>2. /\ thr[w].obj = NULL /\ thr[w].keys = {} /\ InHand(thr[w]) = {}
  BY <1>1 DEF Ready, HandOK, ObjectPCs, InHand
<1>3. heap.work \in Seq(KnownTask(heap)) /\ heap \in HeapType
  BY DEF Ready, Good, UsedOK, WorkOK
<1>4. /\ heap'.obj = heap.obj /\ heap'.coll = heap.coll /\ heap'.link = heap.link
      /\ heap'.failed = heap.failed /\ heap'.work = Tail(heap.work)
  BY <1>1, <1>3 DEF HeapType
<1>5. /\ task \in KnownTask(heap) /\ 1 \in DOMAIN heap.work /\ task = heap.work[1]
      /\ \A i \in DOMAIN Tail(heap.work) :
           i + 1 \in DOMAIN heap.work /\ Tail(heap.work)[i] = heap.work[i + 1]
  BY <1>1, <1>3, HeadTailProperties
<1>6. Requested(heap') \subseteq Requested(heap)
  BY <1>4, <1>5 DEF Requested
<1>7. Still(heap, heap')
  <2>1. /\ SameShape(heap, heap')
        /\ \A p \in Objects : heap'.obj[p].count = heap.obj[p].count
        /\ \A p \in Objects : heap'.obj[p].collector = heap.obj[p].collector
        /\ \A c \in Collectors : /\ heap'.coll[c].lists = heap.coll[c].lists
                                 /\ heap.coll[c].live => heap'.coll[c].live
    BY <1>4 DEF SameShape
  <2> QED
    BY <1>6, <2>1, LevelFrame, LevelStill DEF Ready
<1>8. FlagsOK(heap') /\ heap'.failed \notin CountFailures
  BY <1>4, FlagsKept, NoneFailed DEF SameFlags, Ready
<1>9. CASE task.run = "collector_run"
  <2>1. u = [IdleThread EXCEPT !.pc = "collector_run", !.task = task]
    BY <1>9 DEF worker_get_next_task, Ready
  <2>2. u.obj = NULL /\ u.keys = {} /\ u.pc = "collector_run"
    BY <2>1 DEF IdleThread
  <2>3. /\ SameHold(heap, thr[w], u) /\ HandOK(heap', u)
        /\ InHand(u) = InHand(thr[w]) /\ ListFits(u)
    BY <1>2, <2>2, HoldSame DEF HandOK, ObjectPCs, InHand, ListFits
  <2> QED
    BY <1>1, <1>7, <1>8, <2>3, StillStep
<1>10. CASE task.run # "collector_run"
  <2>1. task \in [run: {"request_delete"}, arg: Known(heap)]
    BY <1>5, <1>10 DEF KnownTask
  <2>2. task.run = "request_delete" /\ task.arg \in Requested(heap)
    BY <1>5, <2>1 DEF Requested
  <2>3. u = [IdleThread EXCEPT !.pc = "remove_links", !.task = task,
                               !.obj = task.arg]
    BY <1>10 DEF worker_get_next_task, Ready
  <2>4. /\ u.obj = task.arg /\ u.keys = {} /\ u.pc = "remove_links"
        /\ u.task.run = "request_delete"
    BY <2>2, <2>3 DEF IdleThread
  <2>5. task.arg \in Objects => Zero(heap, task.arg)
    BY <2>2 DEF Ready, DeadOK
  <2>6. SameHold(heap, thr[w], u)
    BY <1>1, <1>2, <2>4, <2>5, HeapAssumption
       DEF SameHold, HasAt, Carries, Deletes
  <2>7. HandOK(heap', u) /\ InHand(u) = InHand(thr[w]) /\ ListFits(u)
    BY <1>2, <2>4 DEF HandOK, ObjectPCs, InHand, ListFits
  <2> QED
    BY <1>1, <1>7, <1>8, <2>6, <2>7, StillStep
<1> QED
  BY <1>9, <1>10

\* A collector is freed when it is in nobody's way (collector.c:126-137).
LEMMA FinishCounts ==
  ASSUME IInv, Running, NEW w \in Workers, Workers = {w}, Ready(w),
         CollectorFinishes(w)
  PROVE  CInv'
<1> DEFINE c == Mine(w)
<1>1. /\ thr[w].pc \in BetweenNodes /\ thr[w].pc \in CollectorPCs
      /\ c \in Collectors
  BY DEF CollectorFinishes, At, BetweenNodes, CollectorPCs, PCs, Ready
<1>2. CASE ~counter_done(heap, c)
  BY <1>1, <1>2, RequeueCounts DEF CollectorFinishes
<1>3. CASE counter_done(heap, c)
  <2>1. /\ heap' = collector_destroy(heap, c) /\ UNCHANGED <<root, old>>
        /\ thr'[w] = IdleThread
    BY <1>3 DEF CollectorFinishes, Done, Become, Ready
  <2>2. Level(heap, heap') /\ heap'.failed = heap.failed
    BY <1>1, <1>3, <2>1, DestroyLevel DEF Ready
  <2>3. SameFlags(heap, heap')
    BY <1>1, <1>3, <2>1, DestroyFrees DEF Ready, counter_done
  <2>4. /\ SameHold(heap, thr[w], thr'[w]) /\ HandOK(heap', thr'[w])
        /\ InHand(thr'[w]) = InHand(thr[w]) /\ ListFits(thr'[w])
    BY <1>1, <2>1, EmptyHanded DEF IdleThread, Ready, ListFits
  <2> QED
    BY <2>1, <2>2, <2>3, <2>4, FlagsKept, NoneFailed, LevelStill, StillStep
       DEF Ready
<1> QED
  BY <1>2, <1>3

\* The invariant is kept by steps that move counts and leave no object that
\* is wanted dead.
LEMMA MoveStep ==
  ASSUME NEW w \in Workers, Workers = {w}, Ready(w), UNCHANGED <<root, old>>,
         IsFiniteSet(Held(heap', thr'[w])),
         Counted(Held(heap', thr'[w]), heap', root, thr'[w]),
         Placed(heap'), ListFits(thr'[w]), HandOK(heap', thr'[w]),
         DeadOK(heap', thr'[w]), FlagsOK(heap'), Emptied(heap'),
         heap'.failed = "none" => AllHaveColl(heap'),
         heap'.failed \notin CountFailures,
         InHand(thr'[w]) \cap TableLinks(heap') = {}
  PROVE  CInv'
<1>1. CountInv(Held(heap', thr'[w]), heap', root, thr'[w])
  BY DEF CountInv
<1> QED
  BY <1>1, WorkerCounts DEF Ready

\* An element that is taken off a list is in the worker's hands instead, with
\* the counts that its entry stood for (safelist.c:47-58,
\* collector.c:99-124).
LEMMA PollCounts ==
  ASSUME IInv, Running, NEW w \in Workers, Workers = {w}, Ready(w), PollObject(w)
  PROVE  CInv'
<1> DEFINE t == thr[w]
           u == thr'[w]
           n == t.list
           c == Mine(w)
           x == Head(heap.coll[c].lists[n])
<1>1. /\ t.pc \in {"collect", "recovery_list", "rebuild_list", "clean_list"}
      /\ heap.coll[c].lists[n] # <<>>
      /\ heap' = safelist_poll(heap, c, n) /\ UNCHANGED <<root, old>>
      /\ u = [t EXCEPT !.pc = Handler[n], !.obj = x]
  BY DEF PollObject, Draining, Handler, Become, Ready
<1>2. n = t.pc
  BY <1>1 DEF Ready, ListFits
<1>3. /\ t.pc \in CollectorPCs /\ t.pc \notin ObjectPCs
      /\ t.obj = NULL /\ t.keys = {} /\ InHand(t) = {}
  BY <1>1 DEF CollectorPCs, PCs, ObjectPCs, Ready, HandOK, InHand
<1>4. c \in Collectors /\ n \in ListNames /\ t.task.run = "collector_run"
  BY <1>1, <1>2, <1>3 DEF Ready, ListNames
<1>5. /\ ListsOnly(heap, heap') /\ Emptied(heap') /\ x \in Objects
      /\ \A p \in Objects, i \in 0..2 :
           Unlisted(heap', p, i) = Unlisted(heap, p, i)
             + (IF p = x /\ i = Phantom /\ n \in Counting THEN 1 ELSE 0)
             + (IF p = x /\ i = heap.obj[p].which /\ n = "collect"
                  THEN 1 ELSE 0)
  <2>1. Good(heap) /\ Emptied(heap)
    BY DEF Ready
  <2> HIDE DEF n, c, t, u
  <2> QED
    BY <1>1, <1>4, <2>1, SafelistPollStep
<1>6. Handler[n] = CASE n = "collect" -> "phantomize_node"
                     [] n = "clean_list" -> "clean_node"
                     [] OTHER -> "recover_node"
  BY <1>1, <1>2 DEF Handler
<1>7. /\ u.obj = x /\ u.task = t.task /\ u.list = n /\ u.keys = {}
      /\ u.pc = Handler[n]
  BY <1>1, <1>3, <1>6 DEF Ready, Thread
<1> HIDE DEF u, x
<1>8. InHand(u) = {} /\ ListFits(u) /\ HandOK(heap', u)
  BY <1>1, <1>2, <1>4, <1>6, <1>7 DEF InHand, ListFits, HandOK, ObjectPCs
<1>9. Held(heap', u) = Held(heap, t)
  BY <1>3, <1>5, <1>8 DEF Held, ListsOnly, TableLinks, LinksOf
<1>10. /\ IsFiniteSet(Held(heap, t)) /\ Counted(Held(heap, t), heap, root, t)
  BY DEF Ready, CountInv
<1>11. ASSUME NEW o \in Objects, NEW i \in 0..2
       PROVE  Unlisted(heap', o, i) =
                Cardinality(HoldersOf(Held(heap', u), heap', o, i))
                  + Owed(heap', root, u, o, i)
  <2>1. HoldersOf(Held(heap', u), heap', o, i) = HoldersOf(Held(heap, t), heap, o, i)
    BY <1>5, <1>9 DEF HoldersOf, HoldsCount, Kind, ListsOnly
  <2>2. ~HasAt(t, "phantomize_node", o) /\ ~Carries(t, o)
    BY <1>3, HeapAssumption DEF HasAt, Carries
  <2>3. /\ HasAt(u, "phantomize_node", o) <=> o = x /\ n = "collect"
        /\ Carries(u, o) <=> o = x /\ n \in Counting
    BY <1>1, <1>2, <1>4, <1>6, <1>7 DEF HasAt, Carries, Counting, ListNames
  <2>4. /\ heap'.obj[o].which = heap.obj[o].which
        /\ root[o] \in Nat
        /\ heap.obj[o].which \in 0..2 /\ heap.obj[o].which # Phantom
        /\ Cardinality(HoldersOf(Held(heap, t), heap, o, i)) \in Nat
    BY <1>5, <1>10, UnlistedInt, HoldersFinite DEF ListsOnly, Ready
  <2>5. Owed(heap', root, u, o, i) = Owed(heap, root, t, o, i)
             + (IF o = x /\ i = Phantom /\ n \in Counting THEN 1 ELSE 0)
             + (IF o = x /\ i = heap.obj[o].which /\ n = "collect"
                  THEN 1 ELSE 0)
    BY <2>2, <2>3, <2>4 DEF Owed
  <2>6. Unlisted(heap, o, i) = Cardinality(HoldersOf(Held(heap, t), heap, o, i))
                                 + Owed(heap, root, t, o, i)
    BY <1>10 DEF Counted
  <2>7. Owed(heap, root, t, o, i) \in Nat
    BY <2>4 DEF Owed
  <2> QED
    BY <1>5, <2>1, <2>4, <2>5, <2>6, <2>7
<1>12. DeadOK(heap', u)
  BY <1>4, <1>5, <1>7 DEF Ready, DeadOK, Deletes, ListsOnly, Requested, Zero
<1>13. Placed(heap') /\ FlagsOK(heap') /\ AllHaveColl(heap')
       /\ heap'.failed \notin CountFailures
  BY <1>5, NoneFailed
     DEF Ready, Placed, FlagsOK, AllHaveColl, HasColl, ListsOnly, KeysOf
<1> QED
  BY <1>1, <1>5, <1>8, <1>9, <1>10, <1>11, <1>12, <1>13, MoveStep
     DEF u, Counted

-----------------------------------------------------------------------------
(* The worker: phantomizing a node *)

\* object_phantomize_node leaves no node half phantomized that is not
\* phantomized (object.c:197-209).
LEMMA PhantomizeFlags ==
  ASSUME NEW h, Good(h), NEW o \in Objects, h.obj[o].collector # NULL, FlagsOK(h)
  PROVE  FlagsOK(object_phantomize_node(h, o))
<1> DEFINE h1 == FollowCollector(h, o)
           w  == h1.obj[o].which
           k  == [h1 EXCEPT !.obj[o].count[w] = @ - 1]
           P  == k.obj[o].count[k.obj[o].which] >= 0
           h2 == assert(k, P, "object_phantomize_node:182")
           h3 == BecomePhantom(h2, o)
           g  == object_phantomize_node(h, o)
<1>0. g = IF h2.obj[o].count[h2.obj[o].which] > 0 THEN h2 ELSE h3
  BY DEF object_phantomize_node, DropStrong
<1> HIDE DEF g
<1>1. /\ Mild(h, h1) /\ Good(h1)
  BY FollowGood, MildFollow DEF Keeps
<1> HIDE DEF h1
<1>2. w \in 0..2 /\ h1.obj[o].count[w] - 1 \in Int
  BY <1>1, CountsInt DEF Good, HeapType
<1>3. Mild(h1, k) /\ Good(k)
  BY <1>1, <1>2, MildCount DEF Keeps
<1> HIDE DEF k, P
<1>4. Mild(k, h2) /\ Good(h2)
  BY <1>3, MildAssert DEF Failures, Keeps
<1> HIDE DEF h2
<1>5. FlagsOK(h2)
  BY <1>1, <1>3, <1>4, FlagsKept DEF Mild
<1>6. FlagsOK(h3)
  <2> DEFINE node == h2.obj[o]
             b    == IF node.count[Flip(node.which)] > 0 THEN Flip(node.which)
                     ELSE node.which
             q    == node.phantomized /\ node.phantomization_complete
             r    == [node EXCEPT !.which = b, !.phantomized = TRUE,
                                  !.phantomization_complete = q]
  <2>1. h2 \in HeapType /\ node \in Object
    BY <1>4 DEF Good, HeapType
  <2>2. r.phantomized
    BY <2>1 DEF Object
  <2>3. h3 = [h2 EXCEPT !.obj[o] = r]
    BY DEF BecomePhantom
  <2> HIDE DEF r
  <2>4. h3.obj = [h2.obj EXCEPT ![o] = r]
    BY <2>1, <2>3 DEF HeapType
  <2>5. \A p \in Objects : h3.obj[p] = IF p = o THEN r ELSE h2.obj[p]
    BY <2>1, <2>4 DEF HeapType
  <2> QED
    BY <1>5, <2>2, <2>5 DEF FlagsOK
<1> QED
  BY <1>0, <1>5, <1>6 DEF g

\* What a worker has in hand of a node when it phantomizes or cleans it.
LEMMA InHandCounts ==
  ASSUME NEW w \in Workers, Ready(w), NEW o \in Objects
  PROVE  /\ \A i \in 0..2 :
              /\ Cardinality(HoldersOf(Held(heap, thr[w]), heap, o, i)) \in Nat
              /\ Owed(heap, root, thr[w], o, i) \in Nat
              /\ Unlisted(heap, o, i) =
                   Cardinality(HoldersOf(Held(heap, thr[w]), heap, o, i))
                     + Owed(heap, root, thr[w], o, i)
              /\ Unlisted(heap, o, i) >= 0 /\ heap.obj[o].count[i] >= 0
              /\ \A l \in Held(heap, thr[w]) :
                   HoldsCount(heap, l, o, i) => Holds(heap, o, i)
         /\ heap.obj[o].which \in 0..2 /\ heap.obj[o].which # Phantom
         /\ root[o] \in Nat
         /\ root[o] > 0 \/ HasAt(thr[w], "phantomize_node", o) =>
              Holds(heap, o, heap.obj[o].which)
         /\ Carries(thr[w], o) => Holds(heap, o, Phantom)
<1>1. /\ Good(heap) /\ root \in [Objects -> Nat]
      /\ IsFiniteSet(Held(heap, thr[w]))
      /\ Counted(Held(heap, thr[w]), heap, root, thr[w])
  BY DEF Ready, CountInv
<1>2. \A i \in 0..2 :
        Unlisted(heap, o, i) =
          Cardinality(HoldersOf(Held(heap, thr[w]), heap, o, i))
            + Owed(heap, root, thr[w], o, i)
  BY <1>1 DEF Counted
<1>3. root[o] \in Nat
  BY <1>1
<1> QED
  BY <1>1, <1>2, <1>3, CountedHolds

\* The strong count that the worker took over from a collect list goes back,
\* and a flipped bit leaves nothing uncounted (object.c:177-209).
LEMMA PhantomizeNodeCounts ==
  ASSUME IInv, Running, NEW w \in Workers, Workers = {w}, Ready(w),
         PhantomizeNode(w)
  PROVE  CInv'
<1> DEFINE t == thr[w]
           u == thr'[w]
           o == t.obj
           H == Held(heap, t)
           b == heap.obj[o].which
<1>1. /\ t.pc = "phantomize_node" /\ UNCHANGED <<root, old>>
      /\ heap' = object_phantomize_node(heap, o)
  BY DEF PhantomizeNode, At, Become
<1>2. /\ t.pc \in CollectorPCs /\ t.pc \in ObjectPCs
      /\ t.list = "collect" /\ t.keys = {} /\ InHand(t) = {}
      /\ t.task.run = "collector_run" /\ o \in Objects
  BY <1>1 DEF Ready, CollectorPCs, ObjectPCs, PCs, ListFits, HandOK, InHand
<1>3. HasAt(t, "phantomize_node", o) /\ Carries(t, o)
  BY <1>1, <1>2 DEF HasAt, Carries
<1>4. /\ Holds(heap, o, b) /\ Holds(heap, o, Phantom)
      /\ b \in 0..2 /\ b # Phantom
  BY <1>2, <1>3, InHandCounts
<1>5. heap.obj[o].collector # NULL
  BY <1>2, <1>4 DEF Holds, Ready, AllHaveColl, HasColl
<1>6. NodePhantomized(heap, heap', o)
  BY <1>1, <1>2, <1>4, <1>5, PhantomizeNodeMoves DEF Holds, Ready
<1>7. \/ /\ u = [t EXCEPT !.pc = "phantomize_links", !.links = LinksOf(heap, o)]
      \/ u = [t EXCEPT !.pc = "phantomized"]
  BY DEF PhantomizeNode, Ready
<1>8. /\ u.obj = o /\ u.task = t.task /\ u.list = t.list /\ u.keys = {}
      /\ \/ u.pc = "phantomize_links" /\ u.links = LinksOf(heap, o)
         \/ u.pc = "phantomized"
  <2>1. t \in Thread
    BY DEF Ready
  <2> HIDE DEF t, o, u
  <2> QED
    BY <1>2, <1>7, <2>1 DEF Thread, o
<1> HIDE DEF u
<1>9. /\ \A p \in Objects : /\ LinksOf(heap', p) = LinksOf(heap, p)
                            /\ KeysOf(heap', p) = KeysOf(heap, p)
      /\ TableLinks(heap') = TableLinks(heap)
      /\ heap'.link = heap.link
  BY <1>6 DEF NodePhantomized, LinksOf, KeysOf, TableLinks
<1>10. InHand(u) = {} /\ ListFits(u) /\ HandOK(heap', u)
  BY <1>2, <1>8, <1>9 DEF InHand, ListFits, HandOK, ObjectPCs
<1>11. Held(heap', u) = H
  BY <1>2, <1>9, <1>10 DEF Held
<1>12. ASSUME NEW p \in Objects, NEW i \in 0..2
       PROVE  Unlisted(heap', p, i) =
                Cardinality(HoldersOf(H, heap', p, i)) + Owed(heap', root, u, p, i)
  <2>1. HoldersOf(H, heap', p, i) = HoldersOf(H, heap, p, i)
    BY <1>9 DEF HoldersOf, HoldsCount, Kind
  <2>2. ~HasAt(u, "phantomize_node", p) /\ (Carries(u, p) <=> Carries(t, p))
    BY <1>8 DEF HasAt, Carries
  <2>3. HasAt(t, "phantomize_node", p) <=> p = o
    BY <1>1 DEF HasAt
  <2>4. CASE p # o
    <3>1. Owed(heap', root, u, p, i) = Owed(heap, root, t, p, i)
      BY <1>6, <2>2, <2>3, <2>4 DEF Owed, NodePhantomized
    <3>2. Unlisted(heap', p, i) = Unlisted(heap, p, i)
      <4>1. Unlisted(heap, p, i) \in Int
        BY UnlistedInt DEF Ready
      <4> QED
        BY <1>6, <2>4, <4>1 DEF NodePhantomized
    <3> QED
      BY <2>1, <3>1, <3>2, InHandCounts
  <2>5. CASE p = o
    <3> DEFINE C(j) == Cardinality(HoldersOf(H, heap, o, j))
               c == IF i = Phantom /\ Carries(t, o) THEN 1 ELSE 0
               v == heap'.obj[o].which
    <3>1. /\ C(i) \in Nat /\ C(b) \in Nat /\ root[o] \in Nat
          /\ Unlisted(heap, o, i) = C(i) + Owed(heap, root, t, o, i)
          /\ Unlisted(heap, o, b) = C(b) + Owed(heap, root, t, o, b)
      BY <1>2, <1>4, InHandCounts
    <3>2. /\ Owed(heap, root, t, o, i) = (IF i = b THEN root[o] + 1 ELSE 0) + c
          /\ Owed(heap, root, t, o, b) = root[o] + 1
          /\ Owed(heap', root, u, o, i) = (IF i = v THEN root[o] ELSE 0) + c
          /\ c \in {0, 1}
      BY <1>2, <1>4, <2>2, <2>3, <2>5, <3>1 DEF Owed
    <3>3. /\ Unlisted(heap', o, i) = Unlisted(heap, o, i) + (IF i = b THEN -1 ELSE 0)
          /\ v # b => Unlisted(heap', o, b) = 0
          /\ Unlisted(heap', o, b) = Unlisted(heap, o, b) - 1
      <4>1. Unlisted(heap, o, b) \in Int
        BY <3>1, <3>2
      <4> QED
        BY <1>2, <1>4, <1>6, <4>1 DEF NodePhantomized
    <3> HIDE DEF C, v, b, c
    <3>4. v # b => root[o] = 0
      BY <3>1, <3>2, <3>3
    <3>5. Unlisted(heap', o, i) = C(i) + Owed(heap', root, u, o, i)
      BY <3>1, <3>2, <3>3, <3>4
    <3> QED
      BY <2>1, <2>5, <3>5 DEF C
  <2> QED
    BY <2>4, <2>5
<1>13. DeadOK(heap', u)
  <2>1. ~Zero(heap, o)
    BY <1>2, <1>4, HoldsAlive DEF Ready
  <2>2. Requests(heap, heap', o)
    BY <1>6 DEF NodePhantomized, Requests
  <2>3. \A p \in Objects : Deletes(u, p) => Deletes(t, p)
    BY <1>8 DEF Deletes
  <2> QED
    BY <1>2, <1>6, <2>1, <2>2, <2>3, DeadKept DEF Ready, NodePhantomized
<1>14. FlagsOK(heap')
  BY <1>1, <1>2, <1>5, PhantomizeFlags DEF Ready
<1>15. Placed(heap')
  BY <1>6, PlacedKept DEF Ready, NodePhantomized
<1>16. /\ Emptied(heap') /\ AllHaveColl(heap') /\ heap'.failed \notin CountFailures
       /\ IsFiniteSet(H)
  BY <1>6, NoneFailed DEF Ready, NodePhantomized, AllHaveColl, CountInv
<1> QED
  BY <1>1, <1>10, <1>11, <1>12, <1>13, <1>14, <1>15, <1>16, MoveStep
     DEF u, Counted

\* Link l turns from one that stands for count a of its target into one that
\* stands for count b.
Turned(h, g, l, a, b) ==
  LET x == h.link[l].target
  IN  /\ Kind(h, l) = a /\ Kind(g, l) = b
      /\ g.link[l].target = x /\ g.link[l].src = h.link[l].src
      /\ \A m \in Links \ {l} : g.link[m] = h.link[m]
      /\ \A p \in Objects, i \in 0..2 :
           Unlisted(g, p, i) = Unlisted(h, p, i)
             + (IF p = x /\ i = b THEN 1 ELSE 0)
             - (IF p = x /\ i = a THEN 1 ELSE 0)
      /\ Touches(h, g, x)

\* Held links are allocated.
LEMMA HeldAllocated ==
  ASSUME NEW w \in Workers, Ready(w), NEW l \in Held(heap, thr[w])
  PROVE  /\ l \in Allocated(heap) /\ l \in Links
         /\ heap.link[l].target \in Known(heap) /\ heap.link[l].target \in Objects
         /\ Kind(heap, l) \in 0..2
<1>1. Good(heap) /\ ThreadOK(heap, thr[w])
  BY DEF Ready
<1>2. l \in Allocated(heap)
  <2>1. CASE l \in TableLinks(heap)
    BY <1>1, <2>1 DEF TableLinks, LinksOf, Good, UsedOK, TablesOK
  <2>2. CASE l \in InHand(thr[w])
    BY <1>1, <2>2 DEF InHand, ThreadOK
  <2> QED
    BY <2>1, <2>2 DEF Held
<1>3. /\ l \in Links /\ heap.link[l] \in Link
  BY <1>1, <1>2 DEF Allocated, Good, HeapType
<1>4. Kind(heap, l) \in 0..2
  BY <1>3 DEF Kind, Link, Bits, Phantom
<1>5. heap.link[l].target \in Known(heap)
  BY <1>1, <1>2 DEF Good, UsedOK, LinksOK
<1> QED
  BY <1>2, <1>3, <1>4, <1>5 DEF Known

\* The invariant is kept when the count and the link change together.
LEMMA TurnCounts ==
  ASSUME NEW w \in Workers, Workers = {w}, Ready(w), UNCHANGED <<root, old>>,
         NEW l \in TableLinks(heap), NEW a \in 0..2, NEW b \in 0..2,
         Turned(heap, heap', l, a, b),
         SameHold(heap, thr[w], thr'[w]), ListFits(thr'[w]),
         HandOK(heap', thr'[w]), InHand(thr'[w]) = InHand(thr[w]),
         FlagsOK(heap'), heap'.failed = "none", AllHaveColl(heap')
  PROVE  CInv'
<1> DEFINE t == thr[w]
           u == thr'[w]
           H == Held(heap, t)
           x == heap.link[l].target
<1>1. l \in H /\ H \subseteq Links /\ x \in Objects
  <2>1. l \in H
    BY DEF Held
  <2> QED
    BY <2>1, HeldAllocated
<1>2. /\ \A p \in Objects : /\ heap'.obj[p].links = heap.obj[p].links
                            /\ heap'.obj[p].which = heap.obj[p].which
                            /\ heap'.obj[p].state = heap.obj[p].state
      /\ \A p \in Objects \ {x} : heap'.obj[p].count = heap.obj[p].count
      /\ Requests(heap, heap', x) /\ Emptied(heap')
      /\ Kind(heap, l) = a /\ Kind(heap', l) = b
      /\ heap'.link[l].target = x /\ heap'.link[l].src = heap.link[l].src
      /\ \A m \in Links \ {l} : heap'.link[m] = heap.link[m]
  BY DEF Turned, Touches
<1>3. TableLinks(heap') = TableLinks(heap)
  BY <1>2 DEF TableLinks, LinksOf
<1>4. Held(heap', u) = H
  BY <1>3 DEF Held
<1>5. IsFiniteSet(H) /\ SameKinds(heap, heap', H \ {l})
  BY <1>1, <1>2 DEF Ready, CountInv, SameKinds, Kind
<1>6. ASSUME NEW p \in Objects, NEW i \in 0..2
      PROVE  Unlisted(heap', p, i) =
               Cardinality(HoldersOf(H, heap', p, i)) + Owed(heap', root, u, p, i)
  <2>1. Cardinality(HoldersOf(H, heap', p, i)) =
          Cardinality(HoldersOf(H, heap, p, i))
            - (IF HoldsCount(heap, l, p, i) THEN 1 ELSE 0)
            + (IF HoldsCount(heap', l, p, i) THEN 1 ELSE 0)
    BY <1>1, <1>5, HoldersTurn
  <2>2. /\ HoldsCount(heap, l, p, i) <=> p = x /\ i = a
        /\ HoldsCount(heap', l, p, i) <=> p = x /\ i = b
    BY <1>2 DEF HoldsCount
  <2>3. Owed(heap', root, u, p, i) = Owed(heap, root, t, p, i)
    BY <1>2 DEF Owed, SameHold
  <2>4. /\ Cardinality(HoldersOf(H, heap, p, i)) \in Nat
        /\ Owed(heap, root, t, p, i) \in Nat
        /\ Unlisted(heap, p, i) = Cardinality(HoldersOf(H, heap, p, i))
                                    + Owed(heap, root, t, p, i)
    BY InHandCounts
  <2>5. Unlisted(heap', p, i) = Unlisted(heap, p, i)
          + (IF p = x /\ i = b THEN 1 ELSE 0) - (IF p = x /\ i = a THEN 1 ELSE 0)
    BY DEF Turned
  <2> HIDE DEF t, u, H, x
  <2> QED
    BY <2>1, <2>2, <2>3, <2>4, <2>5
<1>7. Holds(heap, x, a) /\ ~Zero(heap, x)
  <2>1. HoldsCount(heap, l, x, a)
    BY <1>2 DEF HoldsCount
  <2>2. Holds(heap, x, a)
    BY <1>1, <2>1, InHandCounts
  <2> QED
    BY <1>1, <2>2, HoldsAlive DEF Ready
<1>8. DeadOK(heap', u)
  BY <1>1, <1>2, <1>7, DeadKept DEF Ready, SameHold
<1>9. Placed(heap')
  <2>1. \A m \in TableLinks(heap) : heap'.link[m].src = heap.link[m].src
    BY <1>1, <1>2 DEF Held
  <2> QED
    BY <1>2, <2>1, PlacedKept DEF Ready
<1>10. InHand(u) \cap TableLinks(heap') = {}
  BY <1>3 DEF Ready
<1> QED
  BY <1>2, <1>4, <1>5, <1>6, <1>8, <1>9, <1>10, NoneFailed, MoveStep DEF Counted

\* A link of the snapshot becomes a phantom one; those of the node are still
\* its links, and none of the assertions about it fails (object.c:211-229,
\* link.c:36-53).
LEMMA PhantomizeLinkCounts ==
  ASSUME IInv, TInv, Running, NEW w \in Workers, Workers = {w}, Ready(w),
         NEW l \in Links, PhantomizeLink(w, l)
  PROVE  CInv'
<1> DEFINE t   == thr[w]
           u   == thr'[w]
           o   == t.obj
           src == heap.obj[heap.link[l].src]
           h1  == assert(heap, heap.obj[o].phantomized, "object_phantomize_node:222")
           h2  == assert(h1, src.phantomized, "object_phantomize_node:224")
           h3  == assert(h2, src.collector # NULL, "object_phantomize_node:225")
           x   == heap.link[l].target
           a   == heap.link[l].which
<1>1. /\ t.pc = "phantomize_links" /\ l \in t.links /\ CanCreate(heap)
      /\ heap' = IF heap.link[l].phantomized THEN h1 ELSE link_phantomize(h3, l)
      /\ UNCHANGED <<root, old>>
      /\ u = [t EXCEPT !.links = @ \ {l}]
  BY DEF PhantomizeLink, At, Become, Ready
<1>2. /\ t.pc \in CollectorPCs /\ t.pc \in ObjectPCs
      /\ t.list = "collect" /\ t.keys = {} /\ InHand(t) = {}
      /\ t.task.run = "collector_run" /\ o \in Objects
      /\ t.links \subseteq LinksOf(heap, o)
  BY <1>1 DEF Ready, CollectorPCs, ObjectPCs, PCs, ListFits, HandOK, InHand
<1>3. l \in TableLinks(heap) /\ heap.link[l].src = o
  BY <1>1, <1>2 DEF TableLinks, LinksOf, Ready, Placed
<1>4. Holds(heap, o, Phantom) /\ heap.obj[o].collector # NULL
  <2>1. Holds(heap, o, Phantom)
    BY <1>2, InHandCounts DEF Carries
  <2> QED
    BY <1>2, <2>1 DEF Holds, Ready, AllHaveColl, HasColl
<1>5. heap.obj[o].phantomized
  BY <1>1, <1>2 DEF TInv, OneHand, Phantomizing, BeingPhantomized
<1>6. h1 = heap /\ h3 = heap
  <2>1. h1 = heap
    BY <1>5, AssertHolds
  <2>2. h2 = h1
    BY <1>3, <1>5, AssertHolds
  <2>3. h3 = h2
    BY <1>3, <1>4, AssertHolds
  <2> QED
    BY <2>1, <2>2, <2>3
<1> HIDE DEF h1, h2, h3
<1>7. /\ u.obj = o /\ u.task = t.task /\ u.list = t.list /\ u.keys = {}
      /\ u.pc = "phantomize_links" /\ u.links \subseteq LinksOf(heap, o)
  <2>1. t \in Thread
    BY DEF Ready
  <2>2. u.links = t.links \ {l}
    BY <1>1, <2>1 DEF Thread
  <2> QED
    BY <1>1, <1>2, <2>1, <2>2 DEF Thread
<1> HIDE DEF u
<1>8. /\ SameHold(heap, t, u) /\ HandOK(heap, u) /\ ListFits(u)
      /\ InHand(u) = InHand(t)
  <2>1. SameHold(heap, t, u)
    BY <1>1, <1>7, HoldSame
  <2> QED
    BY <1>2, <1>7, <2>1 DEF HandOK, ListFits, InHand, ObjectPCs
<1>9. CASE heap.link[l].phantomized
  <2>1. heap' = heap
    BY <1>1, <1>6, <1>9
  <2>2. Still(heap, heap')
    BY <2>1, SelfStill
  <2> QED
    BY <1>1, <1>8, <2>1, <2>2, NoneFailed, StillStep DEF Ready, u
<1>10. CASE ~heap.link[l].phantomized
  <2>1. heap' = link_phantomize(heap, l)
    BY <1>1, <1>6, <1>10
  <2>2. /\ l \in Held(heap, t) /\ l \in Allocated(heap)
        /\ x \in Objects /\ Kind(heap, l) = a /\ a \in 0..2
    <3>1. l \in Held(heap, t)
      BY <1>3 DEF Held
    <3>2. Kind(heap, l) = a
      BY <1>10 DEF Kind
    <3> QED
      BY <3>1, <3>2, HeldAllocated
  <2>3. Phantomed(heap, heap', l)
    BY <1>1, <1>10, <2>1, <2>2, LinkPhantomizeMoves DEF Ready
  <2>4. CanPhantomize(heap, l)
    <3>1. Holds(heap, x, a) /\ Unlisted(heap, x, Phantom) >= 0
      BY <2>2, InHandCounts DEF HoldsCount, Phantom
    <3> QED
      BY <1>3, <1>4, <3>1 DEF CanPhantomize, Holds, Ready
  <2>5. AllHaveColl(heap') /\ heap'.failed = "none"
    BY <2>3, <2>4 DEF Phantomed, Ready
  <2>6. FlagsOK(heap')
    BY <1>1, <2>1, <2>2, MildLinkPhantomize, FlagsKept DEF Ready, Mild
  <2>7. Turned(heap, heap', l, a, Phantom)
    <3>1. heap.link \in [Links -> Link]
      BY DEF Ready, Good, HeapType
    <3>2. heap'.link = [heap.link EXCEPT ![l] = [@ EXCEPT !.phantomized = TRUE]]
      BY <2>3 DEF Phantomed
    <3>3. /\ heap'.link[l].target = x /\ heap'.link[l].src = heap.link[l].src
          /\ heap'.link[l].phantomized
          /\ \A m \in Links \ {l} : heap'.link[m] = heap.link[m]
      BY <3>1, <3>2 DEF Link
    <3>4. Kind(heap', l) = Phantom
      BY <3>3 DEF Kind
    <3>5. /\ Touches(heap, heap', x)
          /\ \A p \in Objects, i \in 0..2 :
               Unlisted(heap', p, i) = Unlisted(heap, p, i)
                 + (IF p = x /\ i = Phantom THEN 1 ELSE 0)
                 - (IF p = x /\ i = a THEN 1 ELSE 0)
      BY <2>3 DEF Phantomed, Shift
    <3> QED
      BY <2>2, <3>3, <3>4, <3>5 DEF Turned
  <2>8. HandOK(heap', u)
    <3>1. u.pc \in ObjectPCs => u.obj \in Objects
      BY <1>2, <1>7
    <3>2. \A p \in Objects : heap'.obj[p].links = heap.obj[p].links
      BY <2>7 DEF Turned, Touches
    <3> QED
      BY <1>8, <3>1, <3>2, HandKept
  <2>9. Phantom \in 0..2
    BY DEF Phantom
  <2> QED
    BY <1>1, <1>3, <1>8, <2>2, <2>5, <2>6, <2>7, <2>8, <2>9, TurnCounts DEF u
<1> QED
  BY <1>9, <1>10

\* The end of a phantomization is no count's business (object.c:230-236).
LEMMA PhantomizeCompleteCounts ==
  ASSUME IInv, Running, NEW w \in Workers, Workers = {w}, Ready(w),
         PhantomizeComplete(w)
  PROVE  CInv'
<1> DEFINE t == thr[w]
           u == thr'[w]
           o == t.obj
           r == [heap.obj[o] EXCEPT !.phantomization_complete = TRUE]
<1>1. /\ t.pc = "phantomize_links" /\ UNCHANGED <<root, old>>
      /\ heap' = [heap EXCEPT !.obj[o] = r]
      /\ u = [t EXCEPT !.pc = "phantomized"]
  BY DEF PhantomizeComplete, At, Become, Goto, Ready
<1>2. /\ t.pc \in ObjectPCs /\ o \in Objects /\ t.list = "collect"
      /\ t.keys = {} /\ InHand(t) = {}
  BY <1>1 DEF Ready, ObjectPCs, ListFits, HandOK, InHand
<1>3. /\ u.obj = o /\ u.task = t.task /\ u.list = t.list /\ u.keys = {}
      /\ u.pc = "phantomized"
  BY <1>1, <1>2 DEF Ready, Thread
<1> HIDE DEF u
<1>4. /\ SameHold(heap, t, u) /\ HandOK(heap', u) /\ ListFits(u)
      /\ InHand(u) = InHand(t)
  <2>1. SameHold(heap, t, u)
    BY <1>1, <1>3, HoldSame
  <2> QED
    BY <1>2, <1>3, <2>1 DEF HandOK, ListFits, InHand, ObjectPCs
<1>5. heap \in HeapType /\ heap.obj[o] \in Object
  BY <1>2 DEF Ready, Good, HeapType
<1>6. /\ r.links = heap.obj[o].links /\ r.which = heap.obj[o].which
      /\ r.count = heap.obj[o].count /\ r.collector = heap.obj[o].collector
      /\ r.state = heap.obj[o].state /\ r.phantomization_complete
  BY <1>5 DEF Object
<1> HIDE DEF r
<1>7. /\ heap'.coll = heap.coll /\ heap'.work = heap.work
      /\ heap'.link = heap.link /\ heap'.failed = heap.failed
      /\ \A p \in Objects : heap'.obj[p] = IF p = o THEN r ELSE heap.obj[p]
  <2>1. /\ heap'.coll = heap.coll /\ heap'.work = heap.work
        /\ heap'.link = heap.link /\ heap'.failed = heap.failed
        /\ heap'.obj = [heap.obj EXCEPT ![o] = r]
    BY <1>1, <1>5 DEF HeapType
  <2> QED
    BY <1>5, <2>1 DEF HeapType
<1>8. Still(heap, heap')
  <2>1. SameCounts(heap, heap')
    BY <1>6, <1>7 DEF SameCounts
  <2> QED
    BY <1>6, <1>7, <2>1, CountsStill
<1>9. FlagsOK(heap') /\ heap'.failed \notin CountFailures
  BY <1>6, <1>7, NoneFailed DEF Ready, FlagsOK
<1> QED
  BY <1>1, <1>4, <1>8, <1>9, StillStep DEF u

-----------------------------------------------------------------------------
(* The worker: recovering and cleaning a node *)

\* A worker goes on with a node to a place where it only looks.
Looks(t, u) ==
  /\ u.obj = t.obj /\ u.task = t.task /\ u.list = t.list
  /\ t.pc \notin {"phantomize_node", "destroy_links"}
  /\ u.pc \notin {"phantomize_node", "phantomize_links", "destroy_links"}

\* Its hands are the same then.
LEMMA LooksHold ==
  ASSUME NEW h, NEW t, NEW u, Looks(t, u)
  PROVE  SameHold(h, t, u) /\ InHand(u) = InHand(t)
<1>1. SameHold(h, t, u)
  BY HoldSame DEF Looks
<1> QED
  BY <1>1 DEF InHand, Looks

\* object_recover_node's end for a strong node, which has been phantomized
\* completely if at all (object.c:289-296).
LEMMA RecoveredCounts ==
  ASSUME IInv, Running, NEW w \in Workers, Workers = {w}, Ready(w),
         thr[w].pc \in {"recover_node", "await"}, NEW h, Good(h),
         Still(heap, h), SameFlags(heap, h), h.failed = "none",
         ~BeingPhantomized(h, thr[w].obj), Recovered(w, h)
  PROVE  CInv'
<1> DEFINE t == thr[w]
           u == thr'[w]
           o == t.obj
           P == h.obj[o].phantomization_complete
           h1 == assert(h, P, "object_recover_node:289")
           r == [h.obj[o] EXCEPT !.phantomized = FALSE]
<1>1. /\ t.pc \in ObjectPCs /\ o \in Objects /\ InHand(t) = {}
      /\ t.list \in {"recovery_list", "rebuild_list"}
      /\ UNCHANGED <<root, old>>
  BY DEF Ready, ObjectPCs, ListFits, InHand, Recovered, Become
<1>2. FlagsOK(h) /\ P
  <2>1. FlagsOK(h)
    BY FlagsKept DEF Ready
  <2> QED
    BY <1>1, <2>1 DEF FlagsOK, BeingPhantomized
<1>3. h1 = h
  BY <1>2, AssertHolds
<1>4. /\ heap' = [h EXCEPT !.obj[o] = r]
      /\ u = [t EXCEPT !.pc = "rebuild_links", !.keys = KeysOf(h, o)]
  BY <1>3 DEF Recovered, Become, Ready
<1>5. /\ u.obj = o /\ u.task = t.task /\ u.list = t.list
      /\ u.keys = KeysOf(h, o) /\ u.pc = "rebuild_links"
  BY <1>4 DEF Ready, Thread
<1> HIDE DEF u, P, h1
<1>6. h \in HeapType /\ h.obj[o] \in Object
  BY <1>1 DEF Good, HeapType
<1>7. /\ r.links = h.obj[o].links /\ r.which = h.obj[o].which
      /\ r.count = h.obj[o].count /\ r.collector = h.obj[o].collector
      /\ r.state = h.obj[o].state /\ r.phantomization_complete
  BY <1>2, <1>6 DEF Object, P
<1> HIDE DEF r
<1>8. /\ heap'.coll = h.coll /\ heap'.work = h.work
      /\ heap'.link = h.link /\ heap'.failed = h.failed
      /\ \A p \in Objects : heap'.obj[p] = IF p = o THEN r ELSE h.obj[p]
  <2>1. /\ heap'.coll = h.coll /\ heap'.work = h.work
        /\ heap'.link = h.link /\ heap'.failed = h.failed
        /\ heap'.obj = [h.obj EXCEPT ![o] = r]
    BY <1>4, <1>6 DEF HeapType
  <2> QED
    BY <1>6, <2>1 DEF HeapType
<1>9. Still(heap, heap')
  <2>1. SameCounts(h, heap')
    BY <1>7, <1>8 DEF SameCounts
  <2>2. Still(h, heap')
    BY <1>7, <1>8, <2>1, CountsStill
  <2> QED
    BY <2>2, StillTrans
<1>10. FlagsOK(heap') /\ heap'.failed \notin CountFailures
  BY <1>2, <1>7, <1>8, NoneFailed DEF FlagsOK
<1>11. HandOK(heap', u) /\ ListFits(u)
  <2>0. heap'.obj[o].links = h.obj[o].links
    BY <1>1, <1>7, <1>8
  <2>1. KeysOf(heap', o) = KeysOf(h, o)
    BY <2>0 DEF KeysOf
  <2> QED
    BY <1>1, <1>5, <2>1 DEF HandOK, ListFits, ObjectPCs
<1>12. SameHold(heap, t, u) /\ InHand(u) = InHand(t)
  BY <1>5, LooksHold DEF Looks
<1> QED
  BY <1>1, <1>9, <1>10, <1>11, <1>12, StillStep DEF u

\* object_recover_node (object.c:271-300).
LEMMA RecoverCounts ==
  ASSUME IInv, Running, NEW w \in Workers, Workers = {w}, Ready(w),
         RecoverNode(w) \/ AwaitPhantomization(w)
  PROVE  CInv'
<1> DEFINE t == thr[w]
           u == thr'[w]
           o == t.obj
           h == FollowCollector(heap, o)
           P == h.obj[o].count[Flip(h.obj[o].which)] = 0
           k == assert(h, P, "object_recover_node:298")
<1>1. /\ t.pc \in {"recover_node", "await"} /\ t.pc \in ObjectPCs /\ o \in Objects
      /\ InHand(t) = {} /\ t.keys = {}
      /\ t.list \in {"recovery_list", "rebuild_list"}
  BY DEF Ready, ObjectPCs, ListFits, InHand, HandOK, RecoverNode,
         AwaitPhantomization, At
<1>2. CASE AwaitPhantomization(w)
  <2>1. SameFlags(heap, heap) /\ Still(heap, heap)
    BY SelfStill DEF SameFlags
  <2>2. Recovered(w, heap) /\ ~BeingPhantomized(heap, thr[w].obj)
    BY <1>2 DEF AwaitPhantomization
  <2> QED
    BY <1>1, <2>1, <2>2, RecoveredCounts DEF Ready
<1>3. /\ Good(h) /\ Still(heap, h) /\ SameFlags(heap, h) /\ h.failed = "none"
  <2>1. Level(heap, h) /\ Keeps(heap, h) /\ h.failed = heap.failed
    BY <1>1, FollowLevel DEF Ready
  <2>2. Mild(heap, h)
    BY <1>1, MildFollow DEF Ready
  <2> HIDE DEF h
  <2> QED
    BY <2>1, <2>2, LevelStill DEF Keeps, Mild, Ready
<1>4. CASE RecoverNode(w) /\ ~BeingPhantomized(h, o) /\ Recovered(w, h)
  <2> HIDE DEF h
  <2> QED
    BY <1>1, <1>3, <1>4, RecoveredCounts
<1>5. ASSUME NEW pc \in {"await", "rebuild_links"}, UNCHANGED <<root, old>>,
             Still(heap, heap'), FlagsOK(heap'),
             heap'.failed \notin CountFailures, Goto(w, pc)
      PROVE  CInv'
  <2>1. u = [t EXCEPT !.pc = pc]
    BY <1>5 DEF Goto, Ready
  <2>2. /\ u.obj = o /\ u.task = t.task /\ u.list = t.list /\ u.keys = {}
        /\ u.pc = pc
    BY <1>1, <2>1 DEF Ready, Thread
  <2> HIDE DEF u
  <2>3. HandOK(heap', u) /\ ListFits(u)
    BY <1>1, <2>2 DEF HandOK, ListFits, ObjectPCs
  <2>4. SameHold(heap, t, u) /\ InHand(u) = InHand(t)
    BY <1>1, <2>2, LooksHold DEF Looks
  <2> QED
    BY <1>5, <2>3, <2>4, StillStep DEF u
<1>6. FlagsOK(h)
  BY <1>3, FlagsKept DEF Ready
<1>7. CASE RecoverNode(w) /\ Become(h) /\ Goto(w, "await")
  <2> HIDE DEF h
  <2>1. heap' = h /\ UNCHANGED <<root, old>>
    BY <1>7 DEF Become
  <2> QED
    BY <1>3, <1>5, <1>6, <1>7, <2>1, NoneFailed
<1>8. CASE RecoverNode(w) /\ Become(k) /\ Goto(w, "rebuild_links")
  <2> HIDE DEF h, P
  <2>1. /\ Still(h, k) /\ k.obj = h.obj
        /\ k.failed \in {h.failed, "object_recover_node:298"}
    BY <1>3, AssertStill DEF Failures
  <2> HIDE DEF k
  <2>2. heap' = k /\ UNCHANGED <<root, old>>
    BY <1>8 DEF Become
  <2>3. Still(heap, k) /\ FlagsOK(k) /\ k.failed \notin CountFailures
    BY <1>3, <1>6, <2>1, StillTrans DEF FlagsOK, CountFailures
  <2> QED
    BY <1>5, <1>8, <2>2, <2>3
<1>9. RecoverNode(w) =>
        \/ ~BeingPhantomized(h, o) /\ Recovered(w, h)
        \/ Become(h) /\ Goto(w, "await")
        \/ Become(k) /\ Goto(w, "rebuild_links")
  BY DEF RecoverNode
<1> HIDE DEF h, k
<1> QED
  BY <1>2, <1>4, <1>7, <1>8, <1>9

\* A key of the snapshot is still in the table, which only the program
\* changes, and only when no worker runs (object.c:302-307).
LEMMA RebuildGetCounts ==
  ASSUME IInv, Running, NEW w \in Workers, Workers = {w}, Ready(w),
         NEW f \in Fields, RebuildGet(w, f)
  PROVE  CInv'
<1> DEFINE t  == thr[w]
           u  == thr'[w]
           o  == t.obj
           l  == heap.obj[o].links[f]
           lk == IF l # NULL THEN l ELSE t.lk
<1>1. /\ t.pc = "rebuild_links" /\ f \in t.keys /\ UNCHANGED <<root, old>>
      /\ heap' = assert(heap, lk # NULL, "object_recover_node:306")
      /\ u = [t EXCEPT !.pc = "rebuild_link", !.keys = @ \ {f}, !.lk = lk]
  BY DEF RebuildGet, At, Become, Ready
<1>2. /\ o \in Objects /\ t.keys \subseteq KeysOf(heap, o)
      /\ t.list \in {"recovery_list", "rebuild_list"}
  BY <1>1 DEF Ready, ObjectPCs, ListFits, HandOK
<1>3. l # NULL /\ l \in TableLinks(heap)
  <2>1. f \in KeysOf(heap, o)
    BY <1>1, <1>2
  <2>2. l # NULL
    BY <2>1 DEF KeysOf
  <2>3. l \in LinksOf(heap, o)
    BY <2>2 DEF LinksOf
  <2> QED
    BY <1>2, <2>2, <2>3 DEF TableLinks
<1>4. heap' = heap
  <2>1. lk # NULL
    BY <1>3
  <2> QED
    BY <1>1, <2>1, AssertHolds
<1>5. /\ u.obj = o /\ u.task = t.task /\ u.list = t.list
      /\ u.pc = "rebuild_link" /\ u.lk = l /\ u.keys \subseteq t.keys
  <2>1. t \in Thread
    BY DEF Ready
  <2>2. u.keys = t.keys \ {f}
    BY <1>1, <2>1 DEF Thread
  <2> QED
    BY <1>1, <1>3, <2>1, <2>2 DEF Thread
<1> HIDE DEF u
<1>6. HandOK(heap, u) /\ ListFits(u)
  BY <1>2, <1>3, <1>5 DEF HandOK, ListFits, ObjectPCs
<1>7. SameHold(heap, t, u) /\ InHand(u) = InHand(t)
  BY <1>1, <1>5, LooksHold DEF Looks
<1>8. Still(heap, heap') /\ FlagsOK(heap') /\ heap'.failed \notin CountFailures
  BY <1>4, SelfStill, NoneFailed DEF Ready
<1> QED
  BY <1>1, <1>4, <1>6, <1>7, <1>8, StillStep DEF u

\* A link that is rebuilt takes the phantom count of its target along
\* (object.c:238-269).
LEMMA RebuildLinkCounts ==
  ASSUME IInv, Running, NEW w \in Workers, Workers = {w}, Ready(w), RebuildLink(w)
  PROVE  CInv'
<1> DEFINE t == thr[w]
           u == thr'[w]
           o == t.obj
           l == t.lk
           c == Mine(w)
           x == heap.link[l].target
<1>1. /\ t.pc = "rebuild_link" /\ UNCHANGED <<root, old>>
      /\ heap' = object_rebuild_link(heap, c, l)
      /\ u = [t EXCEPT !.pc = "rebuild_links"]
  BY DEF RebuildLink, At, Become, Goto, Ready
<1>2. /\ t.pc \in CollectorPCs /\ t.pc \in ObjectPCs /\ o \in Objects
      /\ c \in Collectors /\ heap.coll[c].live
      /\ t.list \in {"recovery_list", "rebuild_list"}
      /\ t.keys \subseteq KeysOf(heap, o) /\ l \in TableLinks(heap)
  BY <1>1 DEF Ready, ObjectPCs, CollectorPCs, PCs, ListFits, HandOK
<1>3. /\ u.obj = o /\ u.task = t.task /\ u.list = t.list
      /\ u.pc = "rebuild_links" /\ u.keys = t.keys
  BY <1>1 DEF Ready, Thread
<1> HIDE DEF u, c
<1>4. HandOK(heap, u) /\ ListFits(u)
  BY <1>2, <1>3 DEF HandOK, ListFits, ObjectPCs
<1>5. SameHold(heap, t, u) /\ InHand(u) = InHand(t)
  BY <1>1, <1>3, LooksHold DEF Looks
<1>6. CASE ~heap.link[l].phantomized
  <2>1. heap' = heap
    BY <1>1, <1>6 DEF object_rebuild_link
  <2>2. Still(heap, heap') /\ FlagsOK(heap') /\ heap'.failed \notin CountFailures
    BY <2>1, SelfStill, NoneFailed DEF Ready
  <2> QED
    BY <1>1, <1>4, <1>5, <2>1, <2>2, StillStep DEF u
<1>7. CASE heap.link[l].phantomized
  <2>1. /\ l \in Held(heap, t) /\ l \in Allocated(heap) /\ l \in Links
        /\ x \in Objects /\ Kind(heap, l) = Phantom
    <3>1. l \in Held(heap, t)
      BY <1>2 DEF Held
    <3> QED
      BY <1>7, <3>1, HeldAllocated DEF Kind
  <2>2. PICK b \in Bits : LinkRebuilt(heap, heap', l, b)
    BY <1>1, <1>2, <1>7, <2>1, RebuildLinkMoves DEF Ready
  <2>3. Holds(heap, x, Phantom) /\ Phantom \in 0..2 /\ b \in 0..2
    <3>1. HoldsCount(heap, l, x, Phantom)
      BY <2>1 DEF HoldsCount
    <3>2. Phantom \in 0..2 /\ b \in 0..2
      BY DEF Phantom, Bits
    <3> QED
      BY <2>1, <3>1, <3>2, InHandCounts
  <2>4. heap'.failed = "none" /\ AllHaveColl(heap')
    BY <2>2, <2>3 DEF LinkRebuilt, Holds, Ready, AllHaveColl
  <2>5. FlagsOK(heap')
    BY <1>1, <1>2, <2>1, MildRebuildLink, FlagsKept DEF Ready, Mild
  <2>6. Turned(heap, heap', l, Phantom, b)
    <3>1. heap.link \in [Links -> Link]
      BY DEF Ready, Good, HeapType
    <3>2. heap'.link =
            [heap.link EXCEPT ![l] = [@ EXCEPT !.which = b, !.phantomized = FALSE]]
      BY <2>2 DEF LinkRebuilt
    <3>3. /\ heap'.link[l].target = x /\ heap'.link[l].src = heap.link[l].src
          /\ ~heap'.link[l].phantomized /\ heap'.link[l].which = b
          /\ \A m \in Links \ {l} : heap'.link[m] = heap.link[m]
      BY <2>1, <3>1, <3>2 DEF Link
    <3>4. Kind(heap', l) = b
      BY <3>3 DEF Kind
    <3>5. /\ Touches(heap, heap', x)
          /\ \A p \in Objects, i \in 0..2 :
               Unlisted(heap', p, i) = Unlisted(heap, p, i)
                 + (IF p = x /\ i = Phantom THEN -1 ELSE 0)
                 - (IF p = x /\ i = b THEN -1 ELSE 0)
      BY <2>2 DEF LinkRebuilt, Shift
    <3>6. ASSUME NEW p \in Objects, NEW i \in 0..2
          PROVE  Unlisted(heap', p, i) = Unlisted(heap, p, i)
                   + (IF p = x /\ i = b THEN 1 ELSE 0)
                   - (IF p = x /\ i = Phantom THEN 1 ELSE 0)
      <4>1. Unlisted(heap, p, i) \in Int
        BY UnlistedInt DEF Ready
      <4> QED
        BY <3>5, <4>1
    <3> QED
      BY <2>1, <3>3, <3>4, <3>5, <3>6 DEF Turned
  <2>7. HandOK(heap', u)
    <3>1. u.pc \in ObjectPCs => u.obj \in Objects
      BY <1>2, <1>3
    <3>2. \A p \in Objects : heap'.obj[p].links = heap.obj[p].links
      BY <2>6 DEF Turned, Touches
    <3> QED
      BY <1>4, <3>1, <3>2, HandKept
  <2> QED
    BY <1>1, <1>2, <1>4, <1>5, <2>3, <2>4, <2>5, <2>6, <2>7, TurnCounts DEF u
<1> QED
  BY <1>6, <1>7

\* The end of object_recover_node, and object_clean_node's look at a node,
\* move no counts (object.c:312-338).
LEMMA LookCounts ==
  ASSUME IInv, Running, NEW w \in Workers, Workers = {w}, Ready(w),
         RecoverEnd(w) \/ CleanNode(w)
  PROVE  CInv'
<1> DEFINE t == thr[w]
           u == thr'[w]
           o == t.obj
<1>1. t.pc \in {"rebuild_links", "clean_node"} /\ t.pc \in ObjectPCs /\ o \in Objects
  BY DEF RecoverEnd, CleanNode, At, Ready, ObjectPCs
<1>2. ASSUME NEW P, NEW what \in {"object_recover_node:314", "object_clean_node:332"},
             heap' = assert(heap, P, what),
             P \/ what = "object_recover_node:314"
      PROVE  /\ Still(heap, heap') /\ FlagsOK(heap')
             /\ heap'.failed \notin CountFailures
  <2>1. what \in Failures
    BY DEF Failures
  <2>2. /\ Still(heap, heap') /\ heap'.obj = heap.obj
        /\ heap'.failed \in {heap.failed, what}
        /\ P => heap' = heap
    BY <1>2, <2>1, AssertStill DEF Ready
  <2>3. SameFlags(heap, heap')
    BY <2>2 DEF SameFlags
  <2>4. heap'.failed \notin CountFailures
    BY <1>2, <2>2 DEF CountFailures, Ready
  <2> QED
    BY <2>2, <2>3, <2>4, FlagsKept DEF Ready
<1>3. CASE CleanNode(w)
  <2> DEFINE count == heap.obj[o].count
             P == count[0] >= 0 /\ count[1] >= 0
  <2>1. /\ t.pc = "clean_node" /\ UNCHANGED <<root, old>>
        /\ heap' = assert(heap, P, "object_clean_node:332")
        /\ \/ u = [t EXCEPT !.pc = "dec_phantom"]
           \/ u = [t EXCEPT !.pc = "remove_links"]
    BY <1>3 DEF CleanNode, At, Become, Goto, Ready
  <2>2. P
    <3>1. 0 \in 0..2 /\ 1 \in 0..2
      OBVIOUS
    <3> QED
      BY <1>1, <3>1, InHandCounts
  <2>3. t.list = "clean_list" /\ t.keys = {} /\ t.task.run = "collector_run"
    BY <2>1 DEF Ready, ListFits, HandOK, CollectorPCs, PCs
  <2>4. /\ u.obj = o /\ u.task = t.task /\ u.list = t.list /\ u.keys = {}
        /\ u.pc \in {"dec_phantom", "remove_links"}
    BY <2>1, <2>3 DEF Ready, Thread
  <2> HIDE DEF u, P
  <2>5. HandOK(heap', u) /\ ListFits(u)
    BY <1>1, <2>3, <2>4 DEF HandOK, ListFits, ObjectPCs
  <2>6. SameHold(heap, t, u) /\ InHand(u) = InHand(t)
    BY <2>1, <2>4, LooksHold DEF Looks
  <2>7. /\ Still(heap, heap') /\ FlagsOK(heap')
        /\ heap'.failed \notin CountFailures
    BY <1>2, <2>1, <2>2
  <2> QED
    BY <2>1, <2>5, <2>6, <2>7, StillStep DEF u
<1>4. CASE RecoverEnd(w)
  <2> DEFINE P == heap.obj[o].count[Phantom] = 0 => heap.obj[o].collector = NULL
             n == t.list
  <2>1. /\ t.pc = "rebuild_links" /\ UNCHANGED <<root, old>> /\ t.keys = {}
        /\ heap' = assert(heap, P, "object_recover_node:314")
        /\ IF n = "recovery_list" THEN u = [t EXCEPT !.pc = "recovered"]
           ELSE u = [t EXCEPT !.pc = n, !.obj = NULL, !.lk = NULL]
    BY <1>4 DEF RecoverEnd, NextObject, At, Become, Goto, Ready
  <2>2. /\ n \in {"recovery_list", "rebuild_list"} /\ InHand(t) = {}
        /\ t.pc \in CollectorPCs /\ t.task.run = "collector_run"
    BY <2>1 DEF Ready, ListFits, InHand, CollectorPCs, PCs
  <2>3. /\ Still(heap, heap') /\ FlagsOK(heap')
        /\ heap'.failed \notin CountFailures
    <3> HIDE DEF P
    <3> QED
      BY <1>2, <2>1
  <2> HIDE DEF P
  <2>4. CASE n = "recovery_list"
    <3>1. /\ u.obj = o /\ u.task = t.task /\ u.list = n /\ u.keys = {}
          /\ u.pc = "recovered"
      BY <2>1, <2>4 DEF Ready, Thread
    <3> HIDE DEF u
    <3>2. HandOK(heap', u) /\ ListFits(u)
      BY <1>1, <2>4, <3>1 DEF HandOK, ListFits, ObjectPCs
    <3>3. SameHold(heap, t, u) /\ InHand(u) = InHand(t)
      BY <2>1, <3>1, LooksHold DEF Looks
    <3> QED
      BY <2>1, <2>3, <3>2, <3>3, StillStep DEF u
  <2>5. CASE n = "rebuild_list"
    <3>1. /\ u.obj = NULL /\ u.task = t.task /\ u.list = n /\ u.keys = {}
          /\ u.pc = "rebuild_list"
      <4>1. u = [t EXCEPT !.pc = n, !.obj = NULL, !.lk = NULL]
        BY <2>1, <2>5
      <4> QED
        BY <2>1, <2>5, <4>1 DEF Ready, Thread
    <3> HIDE DEF u
    <3>2. HandOK(heap', u) /\ ListFits(u)
      BY <2>5, <3>1 DEF HandOK, ListFits, ObjectPCs
    <3>3. SameHold(heap, t, u) /\ InHand(u) = InHand(t)
      BY <2>1, <2>2, <2>5, <3>1, HeapAssumption
         DEF SameHold, HasAt, Carries, Deletes, InHand
    <3> QED
      BY <2>1, <2>3, <3>2, <3>3, StillStep DEF u
  <2> QED
    BY <2>2, <2>4, <2>5
<1> QED
  BY <1>3, <1>4

\* A collector lets go of a node that is listed again, or counted no more,
\* with the phantom count that it took over (collector.c:99-124).
LEMMA LetGoCounts ==
  ASSUME NEW w \in Workers, Workers = {w}, Ready(w),
         thr[w].pc \in {"phantomized", "recovered", "dec_phantom"},
         NEW h, NextObject(w, h), Step(heap, h, thr[w].obj, Phantom, -1),
         Requests(heap, h, thr[w].obj), SameFlags(heap, h),
         Holds(heap, thr[w].obj, Phantom) => h.failed = "none" /\ AllHaveColl(h)
  PROVE  CInv'
<1> DEFINE t == thr[w]
           u == thr'[w]
           o == t.obj
           n == t.list
           H == Held(heap, t)
<1>1. /\ heap' = h /\ UNCHANGED <<root, old>>
      /\ u = [t EXCEPT !.pc = n, !.obj = NULL, !.lk = NULL]
  BY DEF NextObject, Become, Ready
<1>2. /\ t.pc \in CollectorPCs /\ t.pc \in ObjectPCs /\ o \in Objects
      /\ n \in {"collect", "recovery_list", "clean_list"}
      /\ t.keys = {} /\ InHand(t) = {}
  BY DEF Ready, ObjectPCs, CollectorPCs, PCs, ListFits, HandOK, InHand
<1>3. t.task.run = "collector_run" /\ Carries(t, o)
  BY <1>2 DEF Ready, Carries
<1>4. /\ u.obj = NULL /\ u.task = t.task /\ u.list = n /\ u.keys = {}
      /\ u.pc = n
  BY <1>1, <1>2 DEF Ready, Thread
<1> HIDE DEF u
<1>5. HandOK(heap', u) /\ ListFits(u) /\ InHand(u) = {}
  BY <1>2, <1>4 DEF HandOK, ListFits, ObjectPCs, InHand
<1>6. Holds(heap, o, Phantom) /\ Phantom \in 0..2
  BY <1>2, <1>3, InHandCounts DEF Phantom
<1>7. /\ SameShape(heap, heap') /\ Emptied(heap')
      /\ \A p \in Objects \ {o} : heap'.obj[p].count = heap.obj[p].count
      /\ \A p \in Objects, i \in 0..2 :
           Unlisted(heap', p, i) = Unlisted(heap, p, i)
             + (IF p = o /\ i = Phantom THEN -1 ELSE 0)
  BY <1>1 DEF Step
<1>8. TableLinks(heap') = TableLinks(heap)
  BY <1>7 DEF TableLinks, LinksOf, SameShape
<1>9. Held(heap', u) = H
  BY <1>2, <1>5, <1>8 DEF Held
<1>10. ASSUME NEW p \in Objects, NEW i \in 0..2
       PROVE  Unlisted(heap', p, i) =
                Cardinality(HoldersOf(H, heap', p, i)) + Owed(heap', root, u, p, i)
  <2>1. HoldersOf(H, heap', p, i) = HoldersOf(H, heap, p, i)
    BY <1>7 DEF HoldersOf, HoldsCount, Kind, SameShape
  <2>2. /\ ~HasAt(u, "phantomize_node", p) /\ ~Carries(u, p)
        /\ ~HasAt(t, "phantomize_node", p) /\ (Carries(t, p) <=> p = o)
    BY <1>2, <1>3, <1>4, HeapAssumption DEF HasAt, Carries
  <2>3. /\ heap'.obj[p].which = heap.obj[p].which /\ root[p] \in Nat
        /\ heap.obj[p].which \in 0..2 /\ heap.obj[p].which # Phantom
        /\ Cardinality(HoldersOf(H, heap, p, i)) \in Nat
        /\ Unlisted(heap, p, i) = Cardinality(HoldersOf(H, heap, p, i))
                                    + Owed(heap, root, t, p, i)
    BY <1>7, InHandCounts DEF SameShape
  <2>4. Owed(heap, root, t, p, i) = Owed(heap', root, u, p, i)
             + (IF p = o /\ i = Phantom THEN 1 ELSE 0)
    BY <2>2, <2>3 DEF Owed
  <2>5. Owed(heap', root, u, p, i) \in Nat
    BY <2>3 DEF Owed
  <2> HIDE DEF t, H, o
  <2> QED
    BY <1>7, <2>1, <2>3, <2>4, <2>5
<1>11. DeadOK(heap', u)
  <2>1. ~Zero(heap, o)
    BY <1>2, <1>6, HoldsAlive DEF Ready
  <2>2. \A p \in Objects : ~Deletes(u, p)
    BY <1>4, HeapAssumption DEF Deletes
  <2> QED
    BY <1>1, <1>2, <1>7, <2>1, <2>2, DeadKept DEF Ready, SameShape
<1>12. Placed(heap')
  BY <1>7, PlacedKept DEF Ready, SameShape
<1>13. FlagsOK(heap')
  BY <1>1, FlagsKept DEF Ready
<1>14. heap'.failed \notin CountFailures /\ AllHaveColl(heap') /\ IsFiniteSet(H)
  BY <1>1, <1>6, NoneFailed DEF Ready, CountInv
<1> QED
  BY <1>1, <1>5, <1>7, <1>9, <1>10, <1>11, <1>12, <1>13, <1>14, MoveStep
     DEF u, Counted

\* Listing a node again, and dropping the count of its entry (safelist.c:18-36,
\* object.c:140-160).
LEMMA NextListCounts ==
  ASSUME IInv, Running, NEW w \in Workers, Workers = {w}, Ready(w),
         ToRecovery(w) \/ ToClean(w) \/ DecPhantom(w)
  PROVE  CInv'
<1> DEFINE o == thr[w].obj
           c == Mine(w)
<1>1. /\ thr[w].pc \in {"phantomized", "recovered", "dec_phantom"}
      /\ thr[w].pc \in CollectorPCs /\ thr[w].pc \in ObjectPCs
  BY DEF ToRecovery, ToClean, DecPhantom, At, CollectorPCs, ObjectPCs, PCs
<1>2. /\ o \in Known(heap) /\ c \in Collectors /\ heap.coll[c].live
      /\ Good(heap) /\ Emptied(heap) /\ heap.failed = "none"
      /\ AllHaveColl(heap) /\ o \in Objects
  BY <1>1 DEF Ready
<1> HIDE DEF o, c
<1>3. ASSUME NEW n \in {"recovery_list", "clean_list"},
             NextObject(w, safelist_add(heap, c, n, o))
      PROVE  CInv'
  <2> DEFINE h == safelist_add(heap, c, n, o)
  <2>1. Step(heap, h, o, Phantom, -1) /\ ListsOnly(heap, h)
    <3>1. n \in {"recovery_list", "rebuild_list", "clean_list"} /\ n # "rebuild_list"
      OBVIOUS
    <3> QED
      BY <1>2, <3>1, SafelistAddStep
  <2> HIDE DEF h
  <2>2. /\ Requests(heap, h, o) /\ SameFlags(heap, h)
        /\ h.failed = "none" /\ AllHaveColl(h)
    BY <1>2, <2>1
       DEF ListsOnly, Requests, Requested, SameFlags, AllHaveColl, HasColl
  <2> QED
    BY <1>1, <1>3, <2>1, <2>2, LetGoCounts DEF h, o
<1>4. CASE DecPhantom(w)
  <2> DEFINE h == object_dec_phantom(heap, o)
  <2>1. Lost(heap, h, o, Phantom)
    BY <1>2, DecPhantomLost
  <2>2. SameFlags(heap, h)
    BY <1>2, MildDecPhantom DEF Mild
  <2>3. NextObject(w, h)
    BY <1>4 DEF DecPhantom, o
  <2> HIDE DEF h
  <2>4. Holds(heap, o, Phantom) => h.failed = "none" /\ AllHaveColl(h)
    BY <1>2, <2>1 DEF Lost, Step, Holds, AllHaveColl
  <2> QED
    BY <1>1, <2>1, <2>2, <2>3, <2>4, LetGoCounts DEF Lost, o
<1> QED
  BY <1>3, <1>4 DEF ToRecovery, ToClean, c, o

\* The links of a node go from its table to the worker that is to drop them
\* (object.c:85-98).
LEMMA RemoveLinksCounts ==
  ASSUME IInv, Running, NEW w \in Workers, Workers = {w}, Ready(w), RemoveLinks(w)
  PROVE  CInv'
<1> DEFINE t   == thr[w]
           u   == thr'[w]
           o   == t.obj
           lks == LinksOf(heap, o)
           H   == Held(heap, t)
           tb  == [f \in Fields |-> NULL]
<1>1. /\ t.pc = "remove_links" /\ UNCHANGED <<root, old>>
      /\ heap' = object_remove_links(heap, o)
      /\ u = [t EXCEPT !.pc = IF lks = {} THEN AfterLinks(w) ELSE "destroy_links",
                       !.links = lks]
  BY DEF RemoveLinks, At, Become, Ready
<1>2. /\ t.pc \in ObjectPCs /\ o \in Objects /\ t.keys = {} /\ InHand(t) = {}
      /\ t.pc # "idle" /\ t.task.run \in {"collector_run", "request_delete"}
      /\ t.task.run = "collector_run" => t.list = "clean_list"
  <2>1. t.pc \in ObjectPCs /\ t.pc # "idle"
    BY <1>1 DEF ObjectPCs
  <2>2. t.task \in KnownTask(heap)
    BY <2>1 DEF Ready, ThreadOK
  <2>3. t.task.run \in {"collector_run", "request_delete"}
    BY <2>2 DEF KnownTask
  <2> QED
    BY <1>1, <2>1, <2>3 DEF Ready, ListFits, HandOK, InHand
<1>3. /\ AfterLinks(w) \in {"delete", "dec_phantom"}
      /\ AfterLinks(w) = "delete" <=> t.task.run = "request_delete"
  BY DEF AfterLinks
<1>4. /\ u.obj = o /\ u.task = t.task /\ u.list = t.list /\ u.keys = {}
      /\ u.links = lks
      /\ u.pc = IF lks = {} THEN AfterLinks(w) ELSE "destroy_links"
  <2> DEFINE pc == IF lks = {} THEN AfterLinks(w) ELSE "destroy_links"
  <2>1. t \in Thread /\ u = [t EXCEPT !.pc = pc, !.links = lks]
    BY <1>1 DEF Ready
  <2> HIDE DEF t, lks, pc, u
  <2>2. /\ u.obj = t.obj /\ u.task = t.task /\ u.list = t.list /\ u.keys = t.keys
        /\ u.links = lks /\ u.pc = pc
    BY <2>1 DEF Thread
  <2> QED
    BY <1>2, <2>2 DEF pc
<1> HIDE DEF u
<1>5. InHand(u) = lks
  BY <1>3, <1>4 DEF InHand
<1>6. /\ TableSet(heap, heap', o, tb)
      /\ heap'.failed \in {"none", "object_remove_links:96"}
  BY <1>1, <1>2, RemoveLinksTable DEF Ready
<1>7. /\ LinksOf(heap', o) = {} /\ KeysOf(heap', o) = {}
      /\ \A p \in Objects \ {o} : /\ LinksOf(heap', p) = LinksOf(heap, p)
                                  /\ KeysOf(heap', p) = KeysOf(heap, p)
  <2>1. /\ \A f \in Fields : heap'.obj[o].links[f] = NULL
        /\ \A p \in Objects \ {o} : heap'.obj[p].links = heap.obj[p].links
    BY <1>2, <1>6 DEF TableSet
  <2>2. LinksOf(heap', o) = {}
    BY <2>1 DEF LinksOf
  <2>3. KeysOf(heap', o) = {}
    BY <2>1 DEF KeysOf
  <2>4. \A p \in Objects \ {o} : /\ LinksOf(heap', p) = LinksOf(heap, p)
                                 /\ KeysOf(heap', p) = KeysOf(heap, p)
    BY <2>1 DEF LinksOf, KeysOf
  <2> QED
    BY <2>2, <2>3, <2>4
<1>8. TableLinks(heap') = UNION {LinksOf(heap, p) : p \in Objects \ {o}}
  BY <1>7 DEF TableLinks
<1>9. Held(heap', u) = H
  BY <1>2, <1>5, <1>8 DEF Held, TableLinks
<1>10. lks \cap TableLinks(heap') = {}
  <2>1. ASSUME NEW p \in Objects \ {o}, NEW l \in LinksOf(heap, p), l \in lks
        PROVE  FALSE
    <3>1. PICK f \in Fields : l = heap.obj[p].links[f] /\ l # NULL
      BY <2>1 DEF LinksOf
    <3>2. PICK e \in Fields : l = heap.obj[o].links[e]
      BY <2>1 DEF LinksOf
    <3>3. Placed(heap) /\ p \in Objects /\ p # o
      BY DEF Ready
    <3>4. heap.link[l].src = p
      BY <3>1, <3>3 DEF Placed
    <3>5. heap.link[l].src = o
      BY <1>2, <3>1, <3>2, <3>3 DEF Placed
    <3> QED
      BY <3>3, <3>4, <3>5
  <2> QED
    BY <1>8, <2>1
<1>11. HandOK(heap', u) /\ ListFits(u)
  BY <1>2, <1>3, <1>4, <1>7 DEF HandOK, ListFits, ObjectPCs
<1>12. SameHold(heap, t, u)
  <2>1. t.pc # "phantomize_node" /\ u.pc # "phantomize_node"
    BY <1>1, <1>3, <1>4
  <2> QED
    BY <1>4, <2>1, HoldSame
<1>13. /\ SameCounts(heap, heap') /\ heap'.link = heap.link
       /\ \A p \in Objects : heap'.obj[p].state = heap.obj[p].state
  BY <1>6 DEF TableSet
<1>14. /\ \A p \in Objects, i \in 0..2 : Unlisted(heap', p, i) = Unlisted(heap, p, i)
       /\ \A p \in Objects : HasColl(heap', p) <=> HasColl(heap, p)
       /\ \A p \in Objects : Zero(heap', p) <=> Zero(heap, p)
       /\ Requested(heap') = Requested(heap)
       /\ Emptied(heap') <=> Emptied(heap)
  BY <1>13, CountsSame
<1>15. ASSUME NEW p \in Objects, NEW i \in 0..2
       PROVE  Unlisted(heap', p, i) =
                Cardinality(HoldersOf(H, heap', p, i)) + Owed(heap', root, u, p, i)
  <2>1. HoldersOf(H, heap', p, i) = HoldersOf(H, heap, p, i)
    BY <1>13 DEF HoldersOf, HoldsCount, Kind
  <2>2. Owed(heap', root, u, p, i) = Owed(heap, root, t, p, i)
    BY <1>12, <1>13 DEF Owed, SameHold, SameCounts
  <2> QED
    BY <1>14, <2>1, <2>2, InHandCounts
<1>16. DeadOK(heap', u)
  BY <1>12, <1>13, <1>14 DEF Ready, DeadOK, SameHold
<1>17. Placed(heap')
  <2>1. ASSUME NEW p \in Objects, NEW f \in Fields, heap'.obj[p].links[f] # NULL
        PROVE  p # o /\ heap'.obj[p].links[f] = heap.obj[p].links[f]
    <3>1. p # o
      BY <1>7, <2>1 DEF KeysOf
    <3> QED
      BY <1>6, <3>1 DEF TableSet
  <2>2. \A p \in Objects : heap'.obj[p].state = "none" => KeysOf(heap', p) = {}
    BY <1>7, <1>13 DEF Ready, Placed
  <2>3. \A p, q \in Objects, f, e \in Fields :
          heap'.obj[p].links[f] # NULL
            /\ heap'.obj[p].links[f] = heap'.obj[q].links[e]
            => p = q /\ f = e
    BY <2>1 DEF Ready, Placed
  <2>4. \A p \in Objects, f \in Fields :
          heap'.obj[p].links[f] # NULL => heap'.link[heap'.obj[p].links[f]].src = p
    BY <1>13, <2>1 DEF Ready, Placed
  <2> QED
    BY <2>2, <2>3, <2>4 DEF Placed
<1>18. FlagsOK(heap')
  BY <1>1, <1>2, MildRemoveLinks, FlagsKept DEF Ready, Mild
<1>19. /\ Emptied(heap') /\ AllHaveColl(heap') /\ heap'.failed \notin CountFailures
       /\ IsFiniteSet(H)
  BY <1>6, <1>14 DEF Ready, AllHaveColl, CountFailures, CountInv
<1> QED
  BY <1>1, <1>5, <1>9, <1>10, <1>11, <1>15, <1>16, <1>17, <1>18, <1>19, MoveStep
     DEF u, Counted

\* A link that is in no table gives back the count that it stands for
\* (link.c:55-66).
LEMMA DropKeeps ==
  ASSUME NEW h, Good(h), NEW g, NEW H, NEW r \in [Objects -> Nat], NEW t, NEW u,
         CountInv(H, h, r, t), h.failed = "none",
         H \subseteq Links, TableLinks(h) \subseteq H,
         NEW l \in H, l \notin TableLinks(h),
         h.link[l].target \in Objects, Kind(h, l) \in 0..2,
         NEW rec, Dropped(h, g, l, rec),
         SameHold(h, t, u), ListFits(u), HandOK(g, u), FlagsOK(g)
  PROVE  CountInv(H \ {l}, g, r, u)
<1> DEFINE x == h.link[l].target
           k == Kind(h, l)
<1>1. /\ IsFiniteSet(H) /\ Counted(H, h, r, t) /\ Placed(h) /\ DeadOK(h, t)
      /\ AllHaveColl(h)
  BY DEF CountInv
<1>2. /\ \A p \in Objects, i \in 0..2 :
           Unlisted(g, p, i) = Unlisted(h, p, i) + (IF p = x /\ i = k THEN -1 ELSE 0)
      /\ Touches(h, g, x)
      /\ \A p \in Objects : HasColl(h, p) => HasColl(g, p)
      /\ h.obj[x].count[k] > 0 => g.failed = h.failed
      /\ g.link = [h.link EXCEPT ![l] = rec]
  BY DEF Dropped
<1>3. \A m \in H \ {l} : g.link[m] = h.link[m]
  BY <1>2 DEF Good, HeapType
<1>4. Holds(h, x, k) /\ ~Zero(h, x)
  <2>1. HoldsCount(h, l, x, k)
    BY DEF HoldsCount
  <2>2. Holds(h, x, k)
    BY <1>1, <2>1, CountedHolds
  <2> QED
    BY <1>1, <2>2, HoldsAlive
<1>5. /\ \A p \in Objects : /\ g.obj[p].links = h.obj[p].links
                            /\ g.obj[p].which = h.obj[p].which
                            /\ g.obj[p].state = h.obj[p].state
      /\ \A p \in Objects \ {x} : g.obj[p].count = h.obj[p].count
      /\ Requests(h, g, x) /\ Emptied(g)
  BY <1>2 DEF Touches
<1>6. SameKinds(h, g, H \ {l})
  BY <1>3 DEF SameKinds, Kind
<1>6a. ASSUME NEW p, NEW i
       PROVE  Cardinality(HoldersOf(H \ {l}, g, p, i)) =
                Cardinality(HoldersOf(H, h, p, i))
                  - (IF HoldsCount(h, l, p, i) THEN 1 ELSE 0)
  <2>1. IsFiniteSet(H)
    BY <1>1
  <2>2. /\ IsFiniteSet(H \ {l})
        /\ Cardinality(HoldersOf(H \ {l}, g, p, i)) =
             Cardinality(HoldersOf(H, h, p, i))
               - (IF HoldsCount(h, l, p, i) THEN 1 ELSE 0)
    BY ONLY <2>1, <1>6, HoldersLose
  <2> QED
    BY <2>2
<1>7. ASSUME NEW p \in Objects, NEW i \in 0..2
      PROVE  Unlisted(g, p, i) =
               Cardinality(HoldersOf(H \ {l}, g, p, i)) + Owed(g, r, u, p, i)
  <2>1. Cardinality(HoldersOf(H \ {l}, g, p, i)) =
          Cardinality(HoldersOf(H, h, p, i))
            - (IF HoldsCount(h, l, p, i) THEN 1 ELSE 0)
    BY <1>6a
  <2>2. HoldsCount(h, l, p, i) <=> p = x /\ i = k
    BY DEF HoldsCount
  <2>3. Owed(g, r, u, p, i) = Owed(h, r, t, p, i)
    BY <1>5 DEF Owed, SameHold
  <2>4. /\ Cardinality(HoldersOf(H, h, p, i)) \in Nat /\ Owed(h, r, t, p, i) \in Nat
        /\ Unlisted(h, p, i) = Cardinality(HoldersOf(H, h, p, i))
                                 + Owed(h, r, t, p, i)
    BY <1>1, CountedHolds DEF Counted
  <2> HIDE DEF x, k
  <2> QED
    BY <1>2, <2>1, <2>2, <2>3, <2>4
<1>8. IsFiniteSet(H \ {l})
  BY <1>1, FS_Subset
<1>9. DeadOK(g, u)
  BY <1>1, <1>4, <1>5, DeadKept DEF SameHold
<1>10. Placed(g)
  <2>1. \A m \in TableLinks(h) : g.link[m].src = h.link[m].src
    BY <1>3
  <2> QED
    BY <1>1, <1>5, <2>1, PlacedKept
<1>11. AllHaveColl(g) /\ g.failed = "none"
  BY <1>1, <1>2, <1>4 DEF AllHaveColl, Holds
<1> QED
  BY <1>5, <1>7, <1>8, <1>9, <1>10, <1>11, NoneFailed DEF CountInv, Counted

\* The worker drops the links of a node one by one (object.c:100-106,
\* link.c:19-34).
LEMMA DestroyLinkCounts ==
  ASSUME IInv, Running, NEW w \in Workers, Workers = {w}, Ready(w),
         NEW l \in Links, DestroyLink(w, l)
  PROVE  CInv'
<1> DEFINE t   == thr[w]
           u   == thr'[w]
           o   == t.obj
           H   == Held(heap, t)
           rec == [heap.link[l] EXCEPT !.state = "freed"]
           pc  == IF t.links = {l} THEN AfterLinks(w) ELSE "destroy_links"
           ls  == t.links \ {l}
<1>1. /\ t.pc = "destroy_links" /\ l \in t.links /\ CanCreate(heap)
      /\ heap' = link_destroy(heap, l) /\ UNCHANGED <<root, old>>
      /\ u = [t EXCEPT !.pc = pc, !.links = ls]
  BY DEF DestroyLink, At, Become, Ready
<1>2. /\ t.pc \in ObjectPCs /\ o \in Objects /\ t.keys = {} /\ InHand(t) = t.links
      /\ t.task.run \in {"collector_run", "request_delete"}
      /\ t.task.run = "collector_run" => t.list = "clean_list"
      /\ t.task.run = "request_delete" => KeysOf(heap, o) = {}
  <2>1. t.pc \in ObjectPCs /\ t.pc # "idle"
    BY <1>1 DEF ObjectPCs
  <2>2. t.task \in KnownTask(heap)
    BY <2>1 DEF Ready, ThreadOK
  <2>3. t.task.run \in {"collector_run", "request_delete"}
    BY <2>2 DEF KnownTask
  <2> QED
    BY <1>1, <2>1, <2>3 DEF Ready, ListFits, HandOK, InHand
<1>3. /\ pc \in {"delete", "dec_phantom", "destroy_links"}
      /\ pc = "delete" => t.task.run = "request_delete"
      /\ pc = "dec_phantom" => t.task.run = "collector_run"
      /\ pc # "destroy_links" => ls = {}
  BY <1>2 DEF AfterLinks
<1>4. /\ u.obj = o /\ u.task = t.task /\ u.list = t.list /\ u.keys = {}
      /\ u.links = ls /\ u.pc = pc
  <2>1. t \in Thread
    BY DEF Ready
  <2> HIDE DEF t, ls, pc, u
  <2>2. /\ u.obj = t.obj /\ u.task = t.task /\ u.list = t.list /\ u.keys = t.keys
        /\ u.links = ls /\ u.pc = pc
    BY <1>1, <2>1 DEF Thread
  <2> QED
    BY <1>2, <2>2
<1> HIDE DEF u, pc
<1>5. InHand(u) = InHand(t) \ {l}
  BY <1>2, <1>3, <1>4 DEF InHand
<1>6. /\ l \in H /\ l \notin TableLinks(heap) /\ TableLinks(heap) \subseteq H
      /\ H \subseteq Links /\ l \in Allocated(heap)
      /\ heap.link[l].target \in Objects /\ Kind(heap, l) \in 0..2
  <2>1. l \in H /\ TableLinks(heap) \subseteq H
    BY <1>1, <1>2 DEF Held
  <2>2. l \notin TableLinks(heap)
    BY <1>1, <1>2 DEF Ready
  <2> QED
    BY <2>1, <2>2, HeldAllocated
<1>7. Dropped(heap, heap', l, rec)
  BY <1>1, <1>6, LinkDropped DEF Ready
<1>8. FlagsOK(heap')
  BY <1>1, <1>6, MildLinkDestroy, FlagsKept DEF Ready, Mild
<1>9. HandOK(heap, u) /\ ListFits(u)
  BY <1>2, <1>3, <1>4 DEF HandOK, ListFits, ObjectPCs
<1>10. /\ HandOK(heap', u) /\ TableLinks(heap') = TableLinks(heap)
  <2>1. u.pc \in ObjectPCs => u.obj \in Objects
    BY <1>2, <1>4
  <2>2. \A p \in Objects : heap'.obj[p].links = heap.obj[p].links
    BY <1>7 DEF Dropped, Touches
  <2> QED
    BY <1>9, <2>1, <2>2, HandKept
<1>11. SameHold(heap, t, u)
  <2>1. t.pc # "phantomize_node" /\ u.pc # "phantomize_node"
    BY <1>1, <1>3, <1>4
  <2> QED
    BY <1>4, <2>1, HoldSame
<1>12. CountInv(H \ {l}, heap', root, u)
  <2>1. /\ Good(heap) /\ heap.failed = "none" /\ root \in [Objects -> Nat]
        /\ CountInv(H, heap, root, t)
    BY DEF Ready
  <2> HIDE DEF t, H, rec
  <2> QED
    BY <1>6, <1>7, <1>8, <1>9, <1>10, <1>11, <2>1, DropKeeps
<1>13. Held(heap', u) = H \ {l}
  BY <1>5, <1>6, <1>10 DEF Held
<1>14. InHand(u) \cap TableLinks(heap') = {}
  BY <1>5, <1>10 DEF Ready
<1> QED
  BY <1>1, <1>12, <1>13, <1>14, WorkerCounts DEF u, Ready

\* Only a node that nothing counts on, and whose table is empty, is freed
\* (object.c:71-83).
LEMMA ObjectDelCounts ==
  ASSUME IInv, TInv, Running, NEW w \in Workers, Workers = {w}, Ready(w),
         ObjectDel(w)
  PROVE  CInv'
<1> DEFINE t == thr[w]
           u == thr'[w]
           o == t.obj
           H == Held(heap, t)
<1>1. /\ t.pc = "delete" /\ UNCHANGED <<root, old>>
      /\ heap' = object_del(heap, o) /\ u = IdleThread
  BY DEF ObjectDel, Done, At, Become, Ready
<1>2. /\ t.pc \in ObjectPCs /\ o \in Objects /\ o \in Known(heap)
      /\ InHand(t) = {} /\ t.task.run = "request_delete"
      /\ KeysOf(heap, o) = {}
  <2>1. t.pc \in ObjectPCs /\ t.task.run = "request_delete"
    BY <1>1 DEF ObjectPCs, TInv, OwnTask
  <2> QED
    BY <1>1, <2>1 DEF Ready, HandOK, InHand
<1>3. /\ u.obj = NULL /\ u.keys = {} /\ u.pc = "idle" /\ InHand(u) = {}
  BY <1>1 DEF IdleThread, InHand
<1> HIDE DEF u
<1>4. Zero(heap, o)
  BY <1>2 DEF Ready, DeadOK, Deletes
<1>5. Deleted(heap, heap', o)
  BY <1>1, <1>2, <1>4, ObjectDelDeletes DEF Ready
<1>6. /\ heap'.link = heap.link
      /\ \A p \in Objects :
           /\ heap'.obj[p].links = heap.obj[p].links
           /\ heap'.obj[p].which = heap.obj[p].which
           /\ heap'.obj[p].count = heap.obj[p].count
           /\ heap'.obj[p].state = IF p = o THEN "freed" ELSE heap.obj[p].state
           /\ HasColl(heap, p) => HasColl(heap', p)
      /\ \A p \in Objects, i \in 0..2 : Unlisted(heap', p, i) = Unlisted(heap, p, i)
      /\ Requested(heap') \subseteq Requested(heap)
      /\ Emptied(heap') /\ heap'.failed = heap.failed
  BY <1>2, <1>5 DEF Deleted
<1>7. TableLinks(heap') = TableLinks(heap)
  BY <1>6 DEF TableLinks, LinksOf
<1>8. Held(heap', u) = H
  BY <1>2, <1>3, <1>7 DEF Held
<1>9. HandOK(heap', u) /\ ListFits(u)
  BY <1>3 DEF HandOK, ListFits, ObjectPCs
<1>10. ASSUME NEW p \in Objects
       PROVE  /\ ~HasAt(u, "phantomize_node", p) /\ ~Carries(u, p) /\ ~Deletes(u, p)
              /\ ~HasAt(t, "phantomize_node", p) /\ ~Carries(t, p)
  BY <1>1, <1>2, <1>3, HeapAssumption DEF HasAt, Carries, Deletes
<1>11. ASSUME NEW p \in Objects, NEW i \in 0..2
       PROVE  Unlisted(heap', p, i) =
                Cardinality(HoldersOf(H, heap', p, i)) + Owed(heap', root, u, p, i)
  <2>1. HoldersOf(H, heap', p, i) = HoldersOf(H, heap, p, i)
    BY <1>6 DEF HoldersOf, HoldsCount, Kind
  <2>2. Owed(heap', root, u, p, i) = Owed(heap, root, t, p, i)
    BY <1>6, <1>10 DEF Owed
  <2> QED
    BY <1>6, <2>1, <2>2, InHandCounts
<1>12. DeadOK(heap', u)
  <2>1. ASSUME NEW p \in Objects,
               heap'.obj[p].state # "live" \/ p \in Requested(heap') \/ Deletes(u, p)
        PROVE  Zero(heap', p)
    <3>1. Zero(heap, p)
      BY <1>4, <1>6, <1>10, <2>1 DEF Ready, DeadOK
    <3> QED
      BY <1>6, <3>1 DEF Zero
  <2> QED
    BY <2>1 DEF DeadOK
<1>13. Placed(heap')
  BY <1>6, PlacedKept DEF Ready
<1>14. FlagsOK(heap')
  BY <1>1, <1>2, MildObjectDel, FlagsKept DEF Ready, Mild
<1>15. heap'.failed \notin CountFailures /\ AllHaveColl(heap') /\ IsFiniteSet(H)
  BY <1>6, NoneFailed DEF Ready, AllHaveColl, CountInv
<1> QED
  BY <1>1, <1>3, <1>6, <1>8, <1>9, <1>11, <1>12, <1>13, <1>14, <1>15, MoveStep
     DEF u, Counted

\* No step of the worker moves a count that it should not.
LEMMA WorkerKeepsCounts ==
  ASSUME IInv, TInv, CInv, Running, NEW w \in Workers, Workers = {w}, WorkerNext(w)
  PROVE  CInv'
<1>1. thr[w].pc # "idle" \/ heap.work # <<>>
  BY DEF WorkerNext, worker_get_next_task, CollectorWaits, CollectorStarts,
         DrainMerged, PollObject, PollNothing, CollectorFinishes,
         PhantomizeNode, PhantomizeLink, PhantomizeComplete, ToRecovery,
         RecoverNode, AwaitPhantomization, RebuildGet, RebuildLink, RecoverEnd,
         ToClean, CleanNode, RemoveLinks, DestroyLink, DecPhantom, ObjectDel,
         Draining, Handler, At
<1>2. Ready(w)
  BY <1>1, Facts
<1>3. CASE worker_get_next_task(w) \/ CollectorWaits(w) \/ CollectorStarts(w)
             \/ DrainMerged(w) \/ PollObject(w) \/ PollNothing(w)
             \/ CollectorFinishes(w)
  BY <1>2, <1>3, NextTaskCounts, BetweenListsCounts, PollCounts, FinishCounts
<1>4. CASE PhantomizeNode(w) \/ (\E l \in Links : PhantomizeLink(w, l))
             \/ PhantomizeComplete(w)
  BY <1>2, <1>4, PhantomizeNodeCounts, PhantomizeLinkCounts,
     PhantomizeCompleteCounts
<1>5. CASE RecoverNode(w) \/ AwaitPhantomization(w)
             \/ (\E f \in Fields : RebuildGet(w, f)) \/ RebuildLink(w)
             \/ RecoverEnd(w) \/ CleanNode(w)
  BY <1>2, <1>5, RecoverCounts, RebuildGetCounts, RebuildLinkCounts, LookCounts
<1>6. CASE ToRecovery(w) \/ ToClean(w) \/ DecPhantom(w) \/ RemoveLinks(w)
             \/ (\E l \in Links : DestroyLink(w, l)) \/ ObjectDel(w)
  BY <1>2, <1>6, NextListCounts, RemoveLinksCounts, DestroyLinkCounts,
     ObjectDelCounts
<1> QED
  BY <1>3, <1>4, <1>5, <1>6 DEF WorkerNext

-----------------------------------------------------------------------------
(* The program *)

\* What the program reaches is counted.
Reached(h) == {o \in Objects : ~Zero(h, o)}

\* What the invariant says when the program makes a call and w is the worker.
Callable(w) ==
  /\ Good(heap) /\ heap.failed = "none"
  /\ root \in [Objects -> Nat]
  /\ ThreadOK(heap, thr[w])
  /\ CountInv(HeldBy(heap, old, thr[w]), heap, root, thr[w])
  /\ TakenOut(heap, old, thr[w])
  /\ Placed(heap) /\ ListFits(thr[w]) /\ HandOK(heap, thr[w])
  /\ DeadOK(heap, thr[w]) /\ FlagsOK(heap) /\ Emptied(heap)
  /\ AllHaveColl(heap)
  /\ old # NULL => Quiet
  /\ HeldBy(heap, old, thr[w]) \subseteq Allocated(heap)
  /\ TableLinks(heap) \subseteq HeldBy(heap, old, thr[w])
  /\ thr[w].pc \in ObjectPCs => thr[w].obj \in Objects
  /\ thr[w].obj # NULL => thr[w].obj \in Known(heap)

\* Links that somebody holds are allocated.
LEMMA HeldByAllocated ==
  ASSUME IInv, NEW w \in Workers
  PROVE  HeldBy(heap, old, thr[w]) \subseteq Allocated(heap)
<1>1. Good(heap) /\ ThreadOK(heap, thr[w])
  BY DEF IInv, ThreadsOK
<1>2. TableLinks(heap) \subseteq Allocated(heap)
  BY <1>1 DEF TableLinks, LinksOf, Good, UsedOK, TablesOK
<1>3. InHand(thr[w]) \subseteq Allocated(heap)
  BY <1>1 DEF InHand, ThreadOK
<1>4. {old} \ {NULL} \subseteq Allocated(heap)
  BY DEF IInv, MutatorOK
<1> QED
  BY <1>2, <1>3, <1>4 DEF HeldBy

\* The invariant says so.
LEMMA ProgramFacts ==
  ASSUME IInv, CInv, Running, NEW w \in Workers
  PROVE  Callable(w)
<1>1. /\ Good(heap) /\ heap.failed = "none" /\ root \in [Objects -> Nat]
      /\ ThreadOK(heap, thr[w])
      /\ thr[w].pc \in ObjectPCs => thr[w].obj \in Objects
  BY WorkerFacts DEF IInv, MutatorOK
<1>2. /\ CountInv(HeldBy(heap, old, thr[w]), heap, root, thr[w])
      /\ TakenOut(heap, old, thr[w]) /\ (old # NULL => Quiet)
  BY DEF CInv
<1>3. /\ Placed(heap) /\ ListFits(thr[w]) /\ HandOK(heap, thr[w])
      /\ DeadOK(heap, thr[w]) /\ FlagsOK(heap) /\ Emptied(heap)
      /\ AllHaveColl(heap)
  BY <1>1, <1>2 DEF CountInv
<1>4. /\ HeldBy(heap, old, thr[w]) \subseteq Allocated(heap)
      /\ TableLinks(heap) \subseteq HeldBy(heap, old, thr[w])
  BY HeldByAllocated DEF HeldBy
<1>5. thr[w].obj # NULL => thr[w].obj \in Known(heap)
  BY <1>1 DEF ThreadOK
<1> QED
  BY <1>1, <1>2, <1>3, <1>4, <1>5 DEF Callable

\* Whatever the program can reach has a count: its variables and the links of
\* what it reaches hold some.
LEMMA ReachCounted ==
  ASSUME IInv, CInv, NEW w \in Workers
  PROVE  Accessible \subseteq Reached(heap)
<1> DEFINE t == thr[w]
           H == HeldBy(heap, old, t)
<1>1. /\ Good(heap) /\ root \in [Objects -> Nat]
      /\ IsFiniteSet(H) /\ Counted(H, heap, root, t)
  BY DEF IInv, MutatorOK, CInv, CountInv
<1>2. H \subseteq Allocated(heap) /\ TableLinks(heap) \subseteq H
  BY HeldByAllocated DEF HeldBy
<1> HIDE DEF H, t
<1>3. \A o \in Objects, i \in 0..2 : Holds(heap, o, i) => ~Zero(heap, o)
  BY DEF Holds, Zero
<1>4. {r \in Objects : root[r] > 0} \subseteq Reached(heap)
  <2>1. ASSUME NEW r \in Objects, root[r] > 0
        PROVE  ~Zero(heap, r)
    <3>1. Holds(heap, r, heap.obj[r].which) /\ heap.obj[r].which \in 0..2
      BY <1>1, <2>1, CountedHolds
    <3> QED
      BY <1>3, <3>1
  <2> QED
    BY <2>1 DEF Reached
<1>5. LinkClosed(Reached(heap))
  <2> SUFFICES ASSUME NEW o \in Reached(heap), NEW l \in LinksOf(heap, o)
               PROVE  heap.link[l].target \in Reached(heap)
    BY DEF LinkClosed
  <2>1. o \in Objects
    BY DEF Reached
  <2>2. l \in H
    BY <1>2, <2>1 DEF TableLinks
  <2>3. l \in Allocated(heap) /\ l \in Links
    BY <1>2, <2>2 DEF Allocated
  <2>4. heap.link[l].target \in Objects /\ Kind(heap, l) \in 0..2
    <3>1. heap.link[l] \in Link
      BY <1>1, <2>3 DEF Good, HeapType
    <3>2. heap.link[l].target \in Known(heap)
      BY <1>1, <2>3 DEF Good, UsedOK, LinksOK
    <3> QED
      BY <3>1, <3>2 DEF Known, Kind, Link, Bits, Phantom
  <2>5. HoldsCount(heap, l, heap.link[l].target, Kind(heap, l))
    BY DEF HoldsCount
  <2>6. Holds(heap, heap.link[l].target, Kind(heap, l))
    BY <1>1, <2>2, <2>4, <2>5, CountedHolds
  <2> QED
    BY <1>3, <2>4, <2>6 DEF Reached
<1>6. Reached(heap) \in SUBSET Objects
  BY DEF Reached
<1> QED
  BY <1>4, <1>5, <1>6 DEF Accessible

\* A step of the program keeps the invariant if the heap does and old_link is
\* in order.
LEMMA ProgramCounts ==
  ASSUME NEW w \in Workers, Workers = {w}, thr' = thr,
         CountInv(HeldBy(heap', old', thr[w]), heap', root', thr[w]),
         TakenOut(heap', old', thr[w]),
         old' # NULL => Quiet'
  PROVE  CInv'
BY DEF CInv

\* A count of x moves together with the program's variables.
LEMMA RootKeeps ==
  ASSUME NEW h, Good(h), NEW g, NEW H, NEW t, NEW x \in Objects, NEW d \in Int,
         NEW r \in [Objects -> Nat], NEW q \in [Objects -> Nat],
         \A p \in Objects : q[p] = r[p] + (IF p = x THEN d ELSE 0),
         CountInv(H, h, r, t), h.failed = "none",
         Step(h, g, x, h.obj[x].which, d), Requests(h, g, x), ~Zero(h, x),
         HasColl(h, x) => HasColl(g, x), SameFlags(h, g), g.failed = "none",
         t.pc \in ObjectPCs => t.obj \in Objects
  PROVE  /\ CountInv(H, g, q, t)
         /\ TableLinks(g) = TableLinks(h)
<1> DEFINE k == h.obj[x].which
<1>1. /\ IsFiniteSet(H) /\ Counted(H, h, r, t) /\ Placed(h) /\ DeadOK(h, t)
      /\ AllHaveColl(h) /\ ListFits(t) /\ HandOK(h, t) /\ FlagsOK(h)
  BY DEF CountInv
<1>2. /\ SameShape(h, g) /\ Emptied(g)
      /\ \A p \in Objects, i \in 0..2 :
           Unlisted(g, p, i) = Unlisted(h, p, i) + (IF p = x /\ i = k THEN d ELSE 0)
      /\ \A p \in Objects \ {x} : /\ g.obj[p].count = h.obj[p].count
                                  /\ HasColl(h, p) => HasColl(g, p)
  BY DEF Step
<1>3. /\ \A p \in Objects : /\ g.obj[p].links = h.obj[p].links
                            /\ g.obj[p].which = h.obj[p].which
                            /\ g.obj[p].state = h.obj[p].state
      /\ g.link = h.link
  BY <1>2 DEF SameShape
<1>4. ASSUME NEW p \in Objects, NEW i \in 0..2
      PROVE  Unlisted(g, p, i) =
               Cardinality(HoldersOf(H, g, p, i)) + Owed(g, q, t, p, i)
  <2>1. HoldersOf(H, g, p, i) = HoldersOf(H, h, p, i)
    BY <1>3 DEF HoldersOf, HoldsCount, Kind
  <2>2. /\ Cardinality(HoldersOf(H, h, p, i)) \in Nat
        /\ h.obj[p].which \in 0..2 /\ h.obj[p].which # Phantom
        /\ Unlisted(h, p, i) = Cardinality(HoldersOf(H, h, p, i))
                                 + Owed(h, r, t, p, i)
    BY <1>1, CountedHolds DEF Counted
  <2>3. r[p] \in Nat /\ q[p] \in Nat /\ q[p] = r[p] + (IF p = x THEN d ELSE 0)
    OBVIOUS
  <2>4. /\ Owed(g, q, t, p, i) = Owed(h, r, t, p, i)
             + (IF p = x /\ i = k THEN d ELSE 0)
        /\ Owed(h, r, t, p, i) \in Nat
    BY <1>3, <2>2, <2>3 DEF Owed
  <2> HIDE DEF k
  <2> QED
    BY <1>2, <2>1, <2>2, <2>4
<1>5. DeadOK(g, t)
  BY <1>1, <1>2, <1>3, DeadKept
<1>6. Placed(g)
  BY <1>1, <1>3, PlacedKept
<1>7. HandOK(g, t) /\ TableLinks(g) = TableLinks(h)
  BY <1>1, <1>3, HandKept
<1>8. FlagsOK(g)
  BY <1>1, FlagsKept
<1>9. AllHaveColl(g)
  BY <1>1, <1>2 DEF AllHaveColl
<1> QED
  BY <1>1, <1>2, <1>4, <1>5, <1>6, <1>7, <1>8, <1>9, NoneFailed
     DEF CountInv, Counted

\* A variable that leaves an object gives its count back (object.c:120-138).
LEMMA RootDrops ==
  ASSUME NEW h, Good(h), CanCreate(h), NEW g, NEW H, NEW t, NEW x \in Known(h),
         NEW r \in [Objects -> Nat], r[x] > 0, NEW q \in [Objects -> Nat],
         \A p \in Objects : q[p] = r[p] + (IF p = x THEN -1 ELSE 0),
         CountInv(H, h, r, t), h.failed = "none",
         g = object_dec(h, x, h.obj[x].which),
         t.pc \in ObjectPCs => t.obj \in Objects
  PROVE  /\ CountInv(H, g, q, t)
         /\ TableLinks(g) = TableLinks(h)
<1> DEFINE k == h.obj[x].which
<1>1. /\ IsFiniteSet(H) /\ Counted(H, h, r, t) /\ DeadOK(h, t) /\ Emptied(h)
      /\ x \in Objects
  BY DEF CountInv, Known
<1>2. Holds(h, x, k) /\ k \in 0..2
  BY <1>1, CountedHolds
<1>3. ~Zero(h, x)
  BY <1>1, <1>2, HoldsAlive
<1>4. k \in Bits
  BY <1>1 DEF Good, HeapType, Object
<1>5. Lost(h, g, x, k)
  BY <1>1, <1>4, ObjectDecLost
<1>6. SameFlags(h, g)
  BY <1>1, <1>2, MildDec DEF Mild
<1>7. /\ Step(h, g, x, k, -1) /\ Requests(h, g, x) /\ g.failed = "none"
      /\ HasColl(h, x) => HasColl(g, x)
  BY <1>2, <1>5 DEF Lost, Holds
<1>8. -1 \in Int
  OBVIOUS
<1> QED
  BY <1>1, <1>3, <1>6, <1>7, <1>8, RootKeeps

\* object_inc_strong adds to the one count (object.c:164-168).
LEMMA IncStrongStep ==
  ASSUME NEW h, Good(h), Emptied(h), NEW x \in Objects, NEW g,
         g = object_inc_strong(h, x)
  PROVE  /\ Step(h, g, x, h.obj[x].which, 1) /\ Keeps(h, g)
         /\ Requests(h, g, x) /\ g.coll = h.coll /\ g.failed = h.failed
         /\ HasColl(h, x) => HasColl(g, x)
<1> DEFINE k == h.obj[x].which
<1>2. k \in Bits /\ k \in 0..2 /\ k # Phantom
  BY DEF Good, HeapType, Object, Bits, Phantom
<1>3. CountSet(h, g, x, k, 1)
  BY DEF CountSet, object_inc_strong
<1>4. 1 \in Int
  OBVIOUS
<1>5. CountMoved(h, g, x, k, 1) /\ g.failed = h.failed
  <2> HIDE DEF k
  <2> QED
    BY <1>2, <1>3, <1>4, CountStep
<1> QED
  BY <1>2, <1>5 DEF CountMoved, Requests

\* One that comes to an object takes a count.
LEMMA RootGains ==
  ASSUME NEW h, Good(h), NEW g, NEW H, NEW t, NEW x \in Objects, ~Zero(h, x),
         NEW r \in [Objects -> Nat], NEW q \in [Objects -> Nat],
         \A p \in Objects : q[p] = r[p] + (IF p = x THEN 1 ELSE 0),
         CountInv(H, h, r, t), h.failed = "none", g = object_inc_strong(h, x),
         t.pc \in ObjectPCs => t.obj \in Objects
  PROVE  /\ CountInv(H, g, q, t)
         /\ TableLinks(g) = TableLinks(h)
<1> DEFINE k == h.obj[x].which
<1>1. Emptied(h)
  BY DEF CountInv
<1>2. 1 \in Int
  OBVIOUS
<1>3. /\ Step(h, g, x, k, 1) /\ Keeps(h, g) /\ Requests(h, g, x)
      /\ g.coll = h.coll
      /\ HasColl(h, x) => HasColl(g, x)
  BY <1>1, IncStrongStep
<1>4. g.failed = "none"
  BY <1>1, IncStrongStep
<1>5. SameFlags(h, g)
  BY MildIncStrong DEF Mild
<1>6. CountInv(H, g, q, t) /\ TableLinks(g) = TableLinks(h)
  BY <1>2, <1>3, <1>4, <1>5, RootKeeps
<1> QED
  BY <1>6

\* acid_harden, acid_dissolve and acid_set move a variable's count with the
\* variable (acid.c:42-77).
LEMMA HardenCounts ==
  ASSUME IInv, CInv, Running, NEW w \in Workers, Workers = {w},
         NEW o \in Objects, acid_harden(o)
  PROVE  CInv'
<1> DEFINE t == thr[w]
           H == HeldBy(heap, old, t)
<1>1. /\ Callable(w) /\ ~Zero(heap, o)
  BY ProgramFacts, ReachCounted DEF acid_harden, Reached
<1>2. /\ old = NULL /\ heap' = object_inc_strong(heap, o)
      /\ root' = [root EXCEPT ![o] = @ + 1] /\ thr' = thr /\ old' = NULL
  BY DEF acid_harden
<1>3. /\ Good(heap) /\ CountInv(H, heap, root, t) /\ heap.failed = "none"
      /\ root \in [Objects -> Nat] /\ TakenOut(heap, old, t)
      /\ t.pc \in ObjectPCs => t.obj \in Objects
  BY <1>1 DEF Callable
<1>4. /\ root' \in [Objects -> Nat]
      /\ \A p \in Objects : root'[p] = root[p] + (IF p = o THEN 1 ELSE 0)
  BY <1>2, <1>3
<1> HIDE DEF H, t
<1>5. ASSUME NEW g, g = heap', NEW q, q = root'
      PROVE  CountInv(H, g, q, t) /\ TableLinks(g) = TableLinks(heap)
  <2>1. /\ g = object_inc_strong(heap, o) /\ q \in [Objects -> Nat]
        /\ \A p \in Objects : q[p] = root[p] + (IF p = o THEN 1 ELSE 0)
    BY <1>2, <1>4, <1>5
  <2> QED
    BY <1>1, <1>2, <1>3, <2>1, RootGains
<1>6. HeldBy(heap', old', t) = H /\ TakenOut(heap', old', t)
  <2>1. old' = old /\ TableLinks(heap') = TableLinks(heap)
    BY <1>2, <1>5
  <2>2. HeldBy(heap', old', t) = HeldBy(heap, old, t)
    BY <2>1 DEF HeldBy
  <2>3. TakenOut(heap', old', t)
    BY <1>3, <2>1 DEF TakenOut
  <2> QED
    BY <2>2, <2>3 DEF H
<1> QED
  BY <1>2, <1>5, <1>6, ProgramCounts DEF t

\* acid_dissolve.
LEMMA DissolveCounts ==
  ASSUME IInv, CInv, Running, NEW w \in Workers, Workers = {w},
         NEW o \in Objects, acid_dissolve(o)
  PROVE  CInv'
<1> DEFINE t == thr[w]
           H == HeldBy(heap, old, t)
<1>1. Callable(w) /\ o \in Known(heap)
  BY ProgramFacts DEF acid_dissolve, IInv, MutatorOK
<1>2. /\ old = NULL /\ heap' = object_dec(heap, o, heap.obj[o].which)
      /\ root[o] > 0 /\ CanCreate(heap)
      /\ root' = [root EXCEPT ![o] = @ - 1] /\ thr' = thr /\ old' = NULL
  BY DEF acid_dissolve
<1>3. /\ Good(heap) /\ CountInv(H, heap, root, t) /\ heap.failed = "none"
      /\ root \in [Objects -> Nat] /\ TakenOut(heap, old, t)
      /\ t.pc \in ObjectPCs => t.obj \in Objects
  BY <1>1 DEF Callable
<1>4. /\ root' \in [Objects -> Nat]
      /\ \A p \in Objects : root'[p] = root[p] + (IF p = o THEN -1 ELSE 0)
  BY <1>2, <1>3
<1> HIDE DEF H, t
<1>5. ASSUME NEW g, g = heap', NEW q, q = root'
      PROVE  CountInv(H, g, q, t) /\ TableLinks(g) = TableLinks(heap)
  <2>1. /\ g = object_dec(heap, o, heap.obj[o].which) /\ q \in [Objects -> Nat]
        /\ \A p \in Objects : q[p] = root[p] + (IF p = o THEN -1 ELSE 0)
    BY <1>2, <1>4, <1>5
  <2> QED
    BY <1>1, <1>2, <1>3, <2>1, RootDrops
<1>6. HeldBy(heap', old', t) = H /\ TakenOut(heap', old', t)
  <2>1. old' = old /\ TableLinks(heap') = TableLinks(heap)
    BY <1>2, <1>5
  <2>2. HeldBy(heap', old', t) = HeldBy(heap, old, t)
    BY <2>1 DEF HeldBy
  <2>3. TakenOut(heap', old', t)
    BY <1>3, <2>1 DEF TakenOut
  <2> QED
    BY <2>2, <2>3 DEF H
<1> QED
  BY <1>2, <1>5, <1>6, ProgramCounts DEF t

\* acid_set.
LEMMA SetCounts ==
  ASSUME IInv, CInv, Running, NEW w \in Workers, Workers = {w},
         NEW from \in Objects \cup {NULL}, NEW val \in Objects, acid_set(from, val)
  PROVE  CInv'
<1> DEFINE t  == thr[w]
           H  == HeldBy(heap, old, t)
           h1 == object_inc_strong(heap, val)
           q  == [p \in Objects |-> root[p] + (IF p = val THEN 1 ELSE 0)]
<1>1. Callable(w) /\ ~Zero(heap, val)
  BY ProgramFacts, ReachCounted DEF acid_set, Reached
<1>2. /\ old = NULL /\ thr' = thr /\ old' = NULL /\ CanCreate(heap)
      /\ from # NULL => root[from] > 0
      /\ heap' = IF from = NULL THEN h1
                 ELSE object_dec(h1, from, h1.obj[from].which)
      /\ root' = [o \in Objects |-> root[o] + (IF o = val THEN 1 ELSE 0)
                                            - (IF o = from THEN 1 ELSE 0)]
  BY DEF acid_set
<1>3. /\ Good(heap) /\ CountInv(H, heap, root, t) /\ heap.failed = "none"
      /\ root \in [Objects -> Nat] /\ TakenOut(heap, old, t)
      /\ t.pc \in ObjectPCs => t.obj \in Objects
  BY <1>1 DEF Callable
<1>4. /\ q \in [Objects -> Nat]
      /\ \A p \in Objects : q[p] = root[p] + (IF p = val THEN 1 ELSE 0)
  BY <1>3
<1> HIDE DEF H, t, q
<1>5. /\ CountInv(H, h1, q, t) /\ TableLinks(h1) = TableLinks(heap)
      /\ Keeps(heap, h1) /\ h1.coll = heap.coll /\ h1.failed = "none"
  <2>1. ASSUME NEW g, g = h1
        PROVE  CountInv(H, g, q, t) /\ TableLinks(g) = TableLinks(heap)
    <3>1. /\ g = object_inc_strong(heap, val) /\ q \in [Objects -> Nat]
          /\ \A p \in Objects : q[p] = root[p] + (IF p = val THEN 1 ELSE 0)
      BY <1>4, <2>1
    <3> HIDE DEF h1
    <3> QED
      BY <1>1, <1>3, <3>1, RootGains
  <2>2. Keeps(heap, h1) /\ h1.coll = heap.coll /\ h1.failed = heap.failed
    BY <1>3, IncStrongStep DEF CountInv
  <2> HIDE DEF h1
  <2> QED
    BY <1>3, <2>1, <2>2
<1> HIDE DEF h1
<1>6. CountInv(H, heap', root', t) /\ TableLinks(heap') = TableLinks(heap)
  <2>1. CASE from = NULL
    <3>1. root' = q
      BY <1>2, <1>3, <2>1, HeapAssumption DEF q
    <3> QED
      BY <1>2, <1>5, <2>1, <3>1
  <2>2. CASE from # NULL
    <3>1. /\ from \in Objects /\ root[from] > 0 /\ q[from] > 0
      BY <1>2, <1>3, <1>4, <2>2
    <3>2. from \in Known(h1) /\ Good(h1) /\ CanCreate(h1)
      BY <1>2, <1>5, <3>1 DEF IInv, MutatorOK, Keeps, SameUsed, CanCreate
    <3>3. /\ root' \in [Objects -> Nat]
          /\ \A p \in Objects : root'[p] = q[p] + (IF p = from THEN -1 ELSE 0)
      <4>1. ASSUME NEW p \in Objects
            PROVE  /\ root'[p] \in Nat
                   /\ root'[p] = q[p] + (IF p = from THEN -1 ELSE 0)
        <5>1. root[p] \in Nat /\ q[p] = root[p] + (IF p = val THEN 1 ELSE 0)
          BY <1>3, <1>4
        <5>2. root'[p] = root[p] + (IF p = val THEN 1 ELSE 0)
                                 - (IF p = from THEN 1 ELSE 0)
          BY <1>2
        <5>3. p = from => root[p] > 0
          BY <3>1
        <5> QED
          BY <5>1, <5>2, <5>3
      <4> QED
        BY <1>2, <4>1
    <3>4. heap' = object_dec(h1, from, h1.obj[from].which)
      BY <1>2, <2>2
    <3>5. ASSUME NEW g, g = heap', NEW r, r = root'
          PROVE  CountInv(H, g, r, t) /\ TableLinks(g) = TableLinks(h1)
      <4>1. /\ g = object_dec(h1, from, h1.obj[from].which)
            /\ r \in [Objects -> Nat]
            /\ \A p \in Objects : r[p] = q[p] + (IF p = from THEN -1 ELSE 0)
        BY <3>3, <3>4, <3>5
      <4> QED
        BY <1>3, <1>4, <1>5, <3>1, <3>2, <4>1, RootDrops
    <3> QED
      BY <1>5, <3>5
  <2> QED
    BY <2>1, <2>2
<1>7. HeldBy(heap', old', t) = H /\ TakenOut(heap', old', t)
  <2>1. old' = old /\ TableLinks(heap') = TableLinks(heap)
    BY <1>2, <1>6
  <2>2. HeldBy(heap', old', t) = HeldBy(heap, old, t)
    BY <2>1 DEF HeldBy
  <2>3. TakenOut(heap', old', t)
    BY <1>3, <2>1 DEF TakenOut
  <2> QED
    BY <2>2, <2>3 DEF H
<1> QED
  BY <1>2, <1>6, <1>7, ProgramCounts DEF t

\* object_set's end gives back the count of the link that it has taken out
\* (object.c:469-474).
LEMMA CleanupCounts ==
  ASSUME IInv, CInv, Running, NEW w \in Workers, Workers = {w}, object_set_cleanup
  PROVE  CInv'
<1> DEFINE t == thr[w]
           H == HeldBy(heap, old, t)
<1>1. Callable(w)
  BY ProgramFacts
<1>2. /\ old # NULL /\ CanCreate(heap) /\ heap' = link_dec(heap, old)
      /\ old' = NULL /\ thr' = thr /\ root' = root
  BY DEF object_set_cleanup
<1>3. /\ Good(heap) /\ CountInv(H, heap, root, t) /\ heap.failed = "none"
      /\ root \in [Objects -> Nat] /\ TakenOut(heap, old, t)
      /\ ListFits(t) /\ HandOK(heap, t) /\ FlagsOK(heap)
      /\ H \subseteq Allocated(heap) /\ TableLinks(heap) \subseteq H
      /\ t.pc \in ObjectPCs => t.obj \in Objects
  BY <1>1 DEF Callable
<1>4. t.pc = "idle" /\ InHand(t) = {}
  BY <1>1, <1>2 DEF Callable, Quiet, At, InHand
<1>5. /\ old \in H /\ old \notin TableLinks(heap) /\ old \in Allocated(heap)
      /\ H \subseteq Links
  BY <1>2, <1>3 DEF HeldBy, TakenOut, Allocated
<1>6. heap.link[old].target \in Objects /\ Kind(heap, old) \in 0..2
  BY <1>2, <1>3, <1>5, LinkDecLost DEF CountInv
<1>7. Dropped(heap, heap', old, heap.link[old])
  BY <1>2, <1>3, <1>5, LinkDropped DEF CountInv
<1>8. FlagsOK(heap')
  BY <1>2, <1>3, <1>5, MildLinkDec, FlagsKept DEF Mild
<1>9. HandOK(heap', t) /\ TableLinks(heap') = TableLinks(heap)
  <2>1. \A p \in Objects : heap'.obj[p].links = heap.obj[p].links
    BY <1>7 DEF Dropped, Touches
  <2> QED
    BY <1>3, <2>1, HandKept
<1>10. SameHold(heap, t, t)
  BY DEF SameHold
<1>11. CountInv(H \ {old}, heap', root', t)
  <2> HIDE DEF H, t
  <2>1. CountInv(H \ {old}, heap', root, t)
    BY <1>3, <1>5, <1>6, <1>7, <1>8, <1>9, <1>10, DropKeeps
  <2> QED
    BY <1>2, <2>1
<1>12. HeldBy(heap', old', t) = H \ {old}
  BY <1>2, <1>4, <1>5, <1>9 DEF HeldBy
<1>13. TakenOut(heap', old', t)
  BY <1>2, <1>4 DEF TakenOut, TableLinks, LinksOf
<1> QED
  BY <1>2, <1>11, <1>12, <1>13, ProgramCounts

\* A fresh object has the one count of the variable that gets it, and nothing
\* has led to its address before.
LEMMA FreshKeeps ==
  ASSUME NEW h, Good(h), NEW g, NEW H, NEW t, NEW x \in Objects,
         h.obj[x].state = "none", t.obj # x, x \notin Requested(h),
         NEW r \in [Objects -> Nat], NEW q \in [Objects -> Nat],
         \A p \in Objects : q[p] = IF p = x THEN 1 ELSE r[p],
         CountInv(H, h, r, t), h.failed = "none", Fresh(h, g, x),
         t.pc \in ObjectPCs => t.obj \in Objects
  PROVE  /\ CountInv(H, g, q, t)
         /\ TableLinks(g) = TableLinks(h)
<1>1. /\ IsFiniteSet(H) /\ Counted(H, h, r, t) /\ Placed(h) /\ ListFits(t)
      /\ HandOK(h, t) /\ DeadOK(h, t) /\ FlagsOK(h) /\ Emptied(h)
      /\ AllHaveColl(h)
  BY DEF CountInv
<1>2. /\ g.link = h.link /\ g.coll = h.coll /\ g.work = h.work
      /\ g.failed = "none"
      /\ \A p \in Objects \ {x} : g.obj[p] = h.obj[p]
  BY DEF Fresh
<1>3. /\ g.obj[x].state = "live" /\ g.obj[x].which = 0
      /\ g.obj[x].links = [f \in Fields |-> NULL]
      /\ g.obj[x].phantomization_complete
      /\ g.obj[x].count[2] = 0
  BY DEF Fresh, NoObject
<1>4. \A p \in Objects : g.obj[p].links = h.obj[p].links
  <2>1. h.obj[x].links \in [Fields -> Links \cup {NULL}]
    BY DEF Good, HeapType, Object
  <2>2. \A f \in Fields : h.obj[x].links[f] = NULL
    BY <1>1 DEF Placed, KeysOf
  <2>3. h.obj[x].links = [f \in Fields |-> NULL]
    BY <2>1, <2>2
  <2> QED
    BY <1>2, <1>3, <2>3
<1>5. HandOK(g, t) /\ TableLinks(g) = TableLinks(h)
  BY <1>1, <1>4, HandKept
<1>6. Placed(g)
  <2>1. \A p \in Objects : g.obj[p].state = "none" => h.obj[p].state = "none"
    BY <1>2, <1>3
  <2>2. \A l \in TableLinks(h) : g.link[l].src = h.link[l].src
    BY <1>2
  <2> QED
    BY <1>1, <1>4, <2>1, <2>2, PlacedKept
<1>7. \A o, i : HoldersOf(H, g, o, i) = HoldersOf(H, h, o, i)
  BY <1>2 DEF HoldersOf, HoldsCount, Kind
<1>8. Counted(H, g, q, t)
  <2> SUFFICES ASSUME NEW o \in Objects, NEW i \in 0..2
               PROVE  Unlisted(g, o, i) = Cardinality(HoldersOf(H, g, o, i))
                                            + Owed(g, q, t, o, i)
    BY DEF Counted
  <2>1. /\ Unlisted(h, o, i) = Cardinality(HoldersOf(H, h, o, i)) + Owed(h, r, t, o, i)
        /\ Unlisted(g, o, i) = Unlisted(h, o, i)
                                 + (IF o = x /\ i = 0 THEN 1 ELSE 0)
    BY <1>1 DEF Counted, Fresh
  <2>2. CASE o # x
    <3>1. Owed(g, q, t, o, i) = Owed(h, r, t, o, i)
      <4>1. g.obj[o] = h.obj[o] /\ q[o] = r[o]
        BY <1>2, <2>2
      <4> QED
        BY <4>1 DEF Owed
    <3>2. Unlisted(h, o, i) \in Int
      BY UnlistedInt
    <3> QED
      BY <1>7, <2>1, <2>2, <3>1, <3>2
  <2>3. CASE o = x
    <3>1. ~HasAt(t, "phantomize_node", x) /\ ~Carries(t, x)
      BY DEF HasAt, Carries
    <3>2. /\ Cardinality(HoldersOf(H, h, x, i)) \in Nat
          /\ Owed(h, r, t, x, i) \in Nat
      BY <1>1, CountedHolds
    <3>3. Unlisted(h, x, i) = 0
      BY DEF Fresh
    <3>4. Cardinality(HoldersOf(H, h, x, i)) = 0
      BY <2>1, <2>3, <3>2, <3>3
    <3>5. Owed(g, q, t, x, i) = IF i = 0 THEN 1 ELSE 0
      BY <1>3, <3>1 DEF Owed
    <3> QED
      BY <1>7, <2>1, <2>3, <3>3, <3>4, <3>5
  <2> QED
    BY <2>2, <2>3
<1>9. DeadOK(g, t)
  <2> SUFFICES ASSUME NEW o \in Objects,
                      g.obj[o].state # "live" \/ o \in Requested(g) \/ Deletes(t, o)
               PROVE  Zero(g, o)
    BY DEF DeadOK
  <2>1. Requested(g) = Requested(h)
    BY <1>2 DEF Requested
  <2>2. o # x
    BY <1>3, <2>1 DEF Deletes
  <2> QED
    BY <1>1, <1>2, <2>1, <2>2 DEF DeadOK, Zero
<1>10. FlagsOK(g) /\ Emptied(g) /\ AllHaveColl(g)
  <2>1. Emptied(g)
    BY <1>1, <1>2 DEF Emptied, store_count_zero
  <2>2. FlagsOK(g)
    BY <1>1, <1>2, <1>3 DEF FlagsOK
  <2>3. AllHaveColl(g)
    <3>1. HasColl(g, x)
      BY <1>3 DEF HasColl, Phantom
    <3> QED
      BY <1>1, <1>2, <3>1 DEF AllHaveColl, HasColl
  <2> QED
    BY <2>1, <2>2, <2>3
<1>11. g.failed \notin CountFailures
  BY <1>2, NoneFailed
<1> QED
  BY <1>1, <1>5, <1>6, <1>8, <1>9, <1>10, <1>11 DEF CountInv

\* acid_malloc.
LEMMA MallocCounts ==
  ASSUME IInv, CInv, Running, NEW w \in Workers, Workers = {w},
         NEW o \in Objects, acid_malloc(o)
  PROVE  CInv'
<1> DEFINE t == thr[w]
           H == HeldBy(heap, old, t)
<1>1. Callable(w)
  BY ProgramFacts
<1>2. /\ old = NULL /\ heap' = object_init_strong(heap, o)
      /\ heap.obj[o].state = "none"
      /\ root' = [root EXCEPT ![o] = 1] /\ thr' = thr /\ old' = NULL
  BY DEF acid_malloc
<1>3. /\ Good(heap) /\ CountInv(H, heap, root, t) /\ heap.failed = "none"
      /\ root \in [Objects -> Nat] /\ TakenOut(heap, old, t)
      /\ IsFiniteSet(H) /\ Counted(H, heap, root, t) /\ DeadOK(heap, t)
      /\ t.pc \in ObjectPCs => t.obj \in Objects
  BY <1>1 DEF Callable, CountInv
<1>4. /\ root' \in [Objects -> Nat]
      /\ \A p \in Objects : root'[p] = IF p = o THEN 1 ELSE root[p]
  BY <1>2, <1>3
<1>5. o \notin Known(heap)
  BY <1>2 DEF Known
<1>6. t.obj # o
  BY <1>1, <1>5, HeapAssumption DEF Callable
<1>7. o \notin Requested(heap)
  <2>1. heap.work \in Seq(KnownTask(heap))
    BY <1>3 DEF Good, UsedOK, WorkOK
  <2>2. ASSUME NEW j \in DOMAIN heap.work, heap.work[j].run = "request_delete"
        PROVE  heap.work[j].arg \in Known(heap)
    <3>1. heap.work[j] \in KnownTask(heap)
      BY <2>1
    <3> QED
      BY <2>2, <3>1 DEF KnownTask
  <2> QED
    BY <1>5, <2>2 DEF Requested
<1> HIDE DEF H, t
<1>8. ASSUME NEW g, g = heap', NEW q, q = root'
      PROVE  CountInv(H, g, q, t) /\ TableLinks(g) = TableLinks(heap)
  <2>1. /\ g = object_init_strong(heap, o) /\ q \in [Objects -> Nat]
        /\ \A p \in Objects : q[p] = IF p = o THEN 1 ELSE root[p]
    BY <1>2, <1>4, <1>8
  <2>2. Zero(heap, o)
    BY <1>2, <1>3 DEF DeadOK
  <2>3. \A i \in 0..2 : Unlisted(heap, o, i) >= 0
    BY <1>3, CountedHolds
  <2>4. Fresh(heap, g, o)
    BY <1>3, <2>1, <2>2, <2>3, InitStrongFresh
  <2> QED
    BY <1>2, <1>3, <1>6, <1>7, <2>1, <2>4, FreshKeeps
<1>9. HeldBy(heap', old', t) = H /\ TakenOut(heap', old', t)
  <2>1. old' = old /\ TableLinks(heap') = TableLinks(heap)
    BY <1>2, <1>8
  <2>2. HeldBy(heap', old', t) = HeldBy(heap, old, t)
    BY <2>1 DEF HeldBy
  <2>3. TakenOut(heap', old', t)
    BY <1>3, <2>1 DEF TakenOut
  <2> QED
    BY <2>2, <2>3 DEF H
<1> QED
  BY <1>2, <1>8, <1>9, ProgramCounts DEF t

\* The queue of tasks is the same in g.
SameWork(h, g) ==
  "work" \in DOMAIN h => "work" \in DOMAIN g /\ g.work = h.work

\* A counted pointer to a collector moves without any task.
LEMMA SetCollectorWork ==
  ASSUME NEW h, NEW o, NEW c
  PROVE  SameWork(h, object_set_collector(h, o, c))
<1> DEFINE k == counter_ref(h, c, h.obj[o].collector)
<1>1. SameWork(h, k)
  BY DEF SameWork, counter_ref
<1> HIDE DEF k
<1>2. SameWork(k, [k EXCEPT !.obj[o].collector = c])
  BY DEF SameWork
<1> QED
  BY <1>1, <1>2 DEF SameWork, object_set_collector, k

\* Nor does a merge start any (collector.c:139-161, object.c:343-406).
LEMMA MergeWork ==
  ASSUME NEW h, NEW o, NEW target
  PROVE  SameWork(h, object_merge_collectors(h, o, target))
<1> DEFINE s == h.obj[o].collector
           t == h.obj[target].collector
           S == collector_update(h, s)
           T == collector_update(h, t)
           h1 == IF S = T THEN h ELSE collector_merge(h, T, S)
           g3 == object_set_collector(h1, target, T)
<1>1. ASSUME NEW a, NEW b
      PROVE  SameWork(h, collector_merge(h, a, b))
  <2>1. ASSUME NEW k, NEW c, NEW f
        PROVE  SameWork(k, collector_set_forward(k, c, f))
    BY DEF SameWork, collector_set_forward, counter_ref
  <2> DEFINE from == h.coll[b].lists
             into == h.coll[a].lists
             e    == [into EXCEPT
                        !["collect"]      = @ \o from["collect"],
                        !["merged_list"]  = @ \o from["merged_list"]
                                              \o from["clean_list"]
                                              \o from["recovery_list"],
                        !["rebuild_list"] = @ \o from["rebuild_list"]]
             h2   == [h EXCEPT !.coll[b].lists = [l \in ListNames |-> <<>>],
                               !.coll[a].lists = e]
  <2>2. collector_merge(h, a, b) = collector_set_forward(h2, b, a)
    BY DEF collector_merge
  <2> HIDE DEF e
  <2>3. SameWork(h, h2)
    BY DEF SameWork
  <2> HIDE DEF h2
  <2> QED
    BY <2>1, <2>2, <2>3 DEF SameWork
<1>2. SameWork(h, h1)
  BY <1>1 DEF SameWork
<1> HIDE DEF s, t, S, T, h1
<1>3. SameWork(h, g3)
  BY <1>2, SetCollectorWork DEF SameWork
<1>4. object_merge_collectors(h, o, target)
        \in {h, object_set_collector(h, target, s), object_set_collector(h, o, t),
             object_set_collector(g3, o, T)}
  BY DEF object_merge_collectors, s, t, S, T, h1
<1> HIDE DEF g3
<1> QED
  BY <1>3, <1>4, SetCollectorWork DEF SameWork

\* Nor does object_set's locked section (object.c:448-470).
LEMMA SetLinkWork ==
  ASSUME NEW h, NEW o, NEW f, NEW t, NEW l
  PROVE  SameWork(h, object_set_link(h, o, f, t, l))
<1> DEFINE h1 == InstallLink(h, o, f, t, l)
           m  == object_merge_collectors(h1, o, t)
           P  == m.obj[o].collector # NULL
           m1 == assert(m, P, "object_set:455")
           m2 == [m1 EXCEPT !.obj[t].count[Phantom] = @ + 1]
           m3 == [m2 EXCEPT !.link[l].phantomized = TRUE]
           w  == LinkBit(h1, o, t, KeysOf(h1, t) = {})
           h2 == [h1 EXCEPT !.obj[t].count[w] = @ + 1]
           h3 == [h2 EXCEPT !.link[l].which = w]
<1>1. object_set_link(h, o, f, t, l) \in {m3, h3}
  BY DEF object_set_link
<1>2. SameWork(h, h1)
  BY DEF SameWork, InstallLink
<1>3. SameWork(h1, m)
  BY MergeWork
<1> HIDE DEF h1, m, P, w
<1>4. SameWork(m, m1)
  BY DEF SameWork, assert
<1>5. SameWork(m1, m2) /\ SameWork(h1, h2)
  <2> HIDE DEF m1
  <2> QED
    BY DEF SameWork
<1> HIDE DEF m1, m2, h2
<1>6. SameWork(m2, m3) /\ SameWork(h2, h3)
  BY DEF SameWork, m3, h3
<1> HIDE DEF m3, h3
<1> QED
  BY <1>1, <1>2, <1>3, <1>4, <1>5, <1>6 DEF SameWork

\* A link that is taken out of its field is in no table any more.
LEMMA TakeOutKeeps ==
  ASSUME NEW h, Good(h), NEW g, NEW H, NEW r, NEW t, t.pc = "idle",
         NEW o \in Objects, NEW f \in Fields, h.obj[o].links[f] # NULL,
         CountInv(H, h, r, t), g.failed = "none", h.failed = "none",
         TableSet(h, g, o, [h.obj[o].links EXCEPT ![f] = NULL]), SameFlags(h, g)
  PROVE  /\ CountInv(H, g, r, t)
         /\ TableLinks(g) = TableLinks(h) \ {h.obj[o].links[f]}
<1> DEFINE l == h.obj[o].links[f]
<1>1. /\ IsFiniteSet(H) /\ Counted(H, h, r, t) /\ Placed(h) /\ ListFits(t)
      /\ HandOK(h, t) /\ DeadOK(h, t) /\ FlagsOK(h) /\ Emptied(h)
      /\ AllHaveColl(h)
  BY DEF CountInv
<1>2. /\ SameCounts(h, g) /\ g.link = h.link
      /\ \A p \in Objects : g.obj[p].state = h.obj[p].state
  BY DEF TableSet
<1>3. \A p \in Objects, e \in Fields :
        g.obj[p].links[e] = IF p = o /\ e = f THEN NULL ELSE h.obj[p].links[e]
  <2>1. h.obj[o].links \in [Fields -> Links \cup {NULL}]
    BY DEF Good, HeapType, Object
  <2>2. \A p \in Objects :
          g.obj[p].links = IF p = o THEN [h.obj[o].links EXCEPT ![f] = NULL]
                                    ELSE h.obj[p].links
    BY DEF TableSet
  <2> QED
    BY <2>1, <2>2
<1>4. TableLinks(g) = TableLinks(h) \ {l}
  <2>1. ASSUME NEW m
        PROVE  m \in TableLinks(g) <=> m \in TableLinks(h) /\ m # l
    <3>1. m \in TableLinks(g) <=>
            \E p \in Objects, e \in Fields : g.obj[p].links[e] = m /\ m # NULL
      BY DEF TableLinks, LinksOf
    <3>2. m \in TableLinks(h) <=>
            \E p \in Objects, e \in Fields : h.obj[p].links[e] = m /\ m # NULL
      BY DEF TableLinks, LinksOf
    <3>3. \A p \in Objects, e \in Fields :
            h.obj[p].links[e] = l => p = o /\ e = f
      BY <1>1 DEF Placed
    <3> HIDE DEF l
    <3>4. l = h.obj[o].links[f]
      BY DEF l
    <3> QED
      BY <1>3, <3>1, <3>2, <3>3, <3>4
  <2> QED
    BY <2>1
<1>5. Placed(g)
  <2>1. \A p, q \in Objects, d, e \in Fields :
          g.obj[p].links[d] # NULL /\ g.obj[p].links[d] = g.obj[q].links[e]
            => p = q /\ d = e
    BY <1>1, <1>3 DEF Placed
  <2>2. \A p \in Objects, e \in Fields :
          g.obj[p].links[e] # NULL => g.link[g.obj[p].links[e]].src = p
    BY <1>1, <1>2, <1>3 DEF Placed
  <2>3. \A p \in Objects : g.obj[p].state = "none" => KeysOf(g, p) = {}
    BY <1>1, <1>2, <1>3 DEF Placed, KeysOf
  <2> QED
    BY <2>1, <2>2, <2>3 DEF Placed
<1>6. /\ \A p \in Objects, i \in 0..2 : Unlisted(g, p, i) = Unlisted(h, p, i)
      /\ \A p \in Objects : HasColl(g, p) <=> HasColl(h, p)
      /\ \A p \in Objects : Zero(g, p) <=> Zero(h, p)
      /\ Requested(g) = Requested(h)
      /\ Emptied(g) <=> Emptied(h)
  BY <1>2, CountsSame
<1>7. Counted(H, g, r, t)
  <2>1. \A p, i : HoldersOf(H, g, p, i) = HoldersOf(H, h, p, i)
    BY <1>2 DEF HoldersOf, HoldsCount, Kind
  <2>2. \A p \in Objects : \A i : Owed(g, r, t, p, i) = Owed(h, r, t, p, i)
    BY <1>2 DEF Owed, SameCounts
  <2> QED
    BY <1>1, <1>6, <2>1, <2>2 DEF Counted
<1>8. HandOK(g, t)
  BY <1>1 DEF HandOK
<1>9. DeadOK(g, t)
  BY <1>1, <1>2, <1>6 DEF DeadOK
<1>10. FlagsOK(g) /\ AllHaveColl(g)
  BY <1>1, <1>6, FlagsKept DEF AllHaveColl
<1>11. g.failed \notin CountFailures
  BY NoneFailed
<1> QED
  BY <1>1, <1>4, <1>5, <1>6, <1>7, <1>8, <1>9, <1>10, <1>11 DEF CountInv

\* acid_set_field(o, f, NULL), of a careful program.
LEMMA SetNullCounts ==
  ASSUME IInv, CInv, Running, Careful, NEW w \in Workers, Workers = {w},
         NEW o \in Objects, NEW f \in Fields, object_set_null(o, f)
  PROVE  CInv'
<1> DEFINE t == thr[w]
           H == HeldBy(heap, old, t)
           l == heap.obj[o].links[f]
           n == [heap.obj[o].links EXCEPT ![f] = NULL]
<1>1. Callable(w)
  BY ProgramFacts
<1>2. /\ old = NULL /\ l # NULL /\ old' = l
      /\ heap' = [heap EXCEPT !.obj[o].links[f] = NULL]
      /\ root' = root /\ thr' = thr
  BY DEF object_set_null
<1>3. /\ Good(heap) /\ CountInv(H, heap, root, t) /\ heap.failed = "none"
  BY <1>1 DEF Callable
<1>4. Quiet
  BY <1>2 DEF Careful
<1>5. t.pc = "idle"
  BY <1>4 DEF Quiet, At
<1> HIDE DEF H, t
<1>6. ASSUME NEW g, g = heap'
      PROVE  /\ CountInv(H, g, root, t)
             /\ TableLinks(g) = TableLinks(heap) \ {l}
             /\ g.work = heap.work
  <2>1. heap \in HeapType /\ heap.obj[o] \in Object
    BY <1>3 DEF Good, HeapType
  <2>2. g = [heap EXCEPT !.obj[o].links = n]
    BY <1>2, <1>6, <2>1 DEF HeapType, Object
  <2> HIDE DEF n
  <2>3. /\ g.coll = heap.coll /\ g.work = heap.work /\ g.link = heap.link
        /\ g.failed = heap.failed
        /\ \A p \in Objects \ {o} : g.obj[p] = heap.obj[p]
        /\ g.obj[o] = [heap.obj[o] EXCEPT !.links = n]
    BY <2>1, <2>2 DEF HeapType
  <2>4. /\ g.obj[o].links = n /\ g.obj[o].which = heap.obj[o].which
        /\ g.obj[o].state = heap.obj[o].state
        /\ g.obj[o].count = heap.obj[o].count
        /\ g.obj[o].collector = heap.obj[o].collector
        /\ g.obj[o].phantomized = heap.obj[o].phantomized
        /\ g.obj[o].phantomization_complete = heap.obj[o].phantomization_complete
    BY <2>1, <2>3 DEF Object
  <2>5. TableSet(heap, g, o, n)
    BY <2>3, <2>4 DEF TableSet, SameCounts
  <2>6. SameFlags(heap, g)
    BY <2>3, <2>4 DEF SameFlags
  <2>7. TableSet(heap, g, o, [heap.obj[o].links EXCEPT ![f] = NULL])
    BY <2>5 DEF n
  <2>8. g.failed = "none" /\ g.work = heap.work
    BY <1>3, <2>3
  <2>9. heap.obj[o].links[f] # NULL
    BY <1>2
  <2>10. /\ CountInv(H, g, root, t)
         /\ TableLinks(g) = TableLinks(heap) \ {heap.obj[o].links[f]}
    BY <1>3, <1>5, <2>6, <2>7, <2>8, <2>9, TakeOutKeeps
  <2> QED
    BY <2>8, <2>10
<1> HIDE DEF l
<1>7. InHand(t) = {}
  BY <1>5 DEF InHand
<1>8. /\ CountInv(H, heap', root, t) /\ heap'.work = heap.work
      /\ TableLinks(heap') = TableLinks(heap) \ {l}
  BY <1>6
<1>9. l \in TableLinks(heap)
  BY <1>2 DEF l, TableLinks, LinksOf
<1>10. HeldBy(heap', old', t) = H
  BY <1>2, <1>7, <1>8, <1>9 DEF H, HeldBy
<1>11. TakenOut(heap', old', t)
  BY <1>2, <1>7, <1>8 DEF TakenOut
<1>12. Quiet'
  BY <1>2, <1>4, <1>8 DEF Quiet, At
<1> QED
  BY <1>2, <1>8, <1>10, <1>11, <1>12, ProgramCounts DEF t

\* Link l has taken the place of was, if any, in the tables.
Swapped(h, g, was, l) == TableLinks(g) = (TableLinks(h) \ {was}) \cup {l}

\* A new link holds the one count that object_set takes for it; the link that
\* it replaces is in no table any more.
LEMMA InstallKeeps ==
  ASSUME NEW h, Good(h), NEW g, NEW H, NEW r \in [Objects -> Nat], NEW t,
         NEW o \in Objects, NEW f \in Fields, NEW x \in Objects, NEW l \in Links,
         ~Zero(h, o), ~Zero(h, x), H \subseteq Links, l \notin H, l # NULL,
         TableLinks(h) \subseteq H, NEW was, was = h.obj[o].links[f],
         was # NULL => t.pc = "idle", NEW K, K = H \cup {l},
         CountInv(H, h, r, t), h.failed = "none",
         Installed(h, g, o, f, x, l), SameFlags(h, g),
         t.pc \in ObjectPCs => t.obj \in Objects
  PROVE  CountInv(K, g, r, t) /\ Swapped(h, g, was, l)
<1>1. /\ IsFiniteSet(H) /\ Counted(H, h, r, t) /\ Placed(h) /\ ListFits(t)
      /\ HandOK(h, t) /\ DeadOK(h, t) /\ FlagsOK(h) /\ Emptied(h)
      /\ AllHaveColl(h)
  BY DEF CountInv
<1>2. /\ \A m \in Links \ {l} : g.link[m] = h.link[m]
      /\ g.link[l].src = o /\ g.link[l].target = x
      /\ Kind(g, l) \in 0..2
      /\ \A p \in Objects : /\ g.obj[p].which = h.obj[p].which
                            /\ g.obj[p].state = h.obj[p].state
      /\ \A p \in Objects \ {x} : g.obj[p].count = h.obj[p].count
      /\ Requested(g) \subseteq Requested(h) /\ Emptied(g)
      /\ g.failed = "none" => AllHaveColl(g)
      /\ g.failed \in {"none", "object_set:455"}
  BY <1>1 DEF Installed
<1>3. \A p \in Objects, e \in Fields :
        g.obj[p].links[e] = IF p = o /\ e = f THEN l ELSE h.obj[p].links[e]
  <2>1. h.obj[o].links \in [Fields -> Links \cup {NULL}]
    BY DEF Good, HeapType, Object
  <2>2. \A p \in Objects :
          g.obj[p].links = IF p = o THEN [h.obj[p].links EXCEPT ![f] = l]
                                    ELSE h.obj[p].links
    BY DEF Installed
  <2> QED
    BY <2>1, <2>2
<1>4. \A m : m \in TableLinks(h) <=>
               \E p \in Objects, e \in Fields : h.obj[p].links[e] = m /\ m # NULL
  BY DEF TableLinks, LinksOf
<1>5. \A m : m \in TableLinks(g) <=>
               \E p \in Objects, e \in Fields : g.obj[p].links[e] = m /\ m # NULL
  BY DEF TableLinks, LinksOf
<1>6. /\ \A p \in Objects, e \in Fields : h.obj[p].links[e] # l
      /\ \A p, q \in Objects, d, e \in Fields :
           h.obj[p].links[d] # NULL /\ h.obj[p].links[d] = h.obj[q].links[e]
             => p = q /\ d = e
  BY <1>1, <1>4 DEF Placed
<1>7. TableLinks(g) = (TableLinks(h) \ {was}) \cup {l}
  <2>1. ASSUME NEW m
        PROVE  m \in TableLinks(g) <=> m = l \/ (m \in TableLinks(h) /\ m # was)
    <3>1. CASE m = l
      BY <1>3, <1>5, <3>1
    <3>2. CASE m # l
      BY <1>3, <1>4, <1>5, <1>6, <3>2
    <3> QED
      BY <3>1, <3>2
  <2> QED
    BY <2>1
<1>8. Placed(g)
  <2>1. ASSUME NEW p \in Objects, NEW q \in Objects,
               NEW d \in Fields, NEW e \in Fields,
               g.obj[p].links[d] # NULL, g.obj[p].links[d] = g.obj[q].links[e]
        PROVE  p = q /\ d = e
    <3>1. /\ g.obj[p].links[d] = IF p = o /\ d = f THEN l ELSE h.obj[p].links[d]
          /\ g.obj[q].links[e] = IF q = o /\ e = f THEN l ELSE h.obj[q].links[e]
      BY <1>3
    <3>2. h.obj[p].links[d] # l /\ h.obj[q].links[e] # l
      BY <1>6
    <3>3. CASE p = o /\ d = f
      BY <2>1, <3>1, <3>2, <3>3
    <3>4. CASE ~(p = o /\ d = f)
      <4>1. /\ h.obj[p].links[d] # NULL
            /\ h.obj[p].links[d] = h.obj[q].links[e]
        BY <2>1, <3>1, <3>2, <3>4
      <4> QED
        BY <1>6, <4>1
    <3> QED
      BY <3>3, <3>4
  <2>2. ASSUME NEW p \in Objects, NEW e \in Fields, g.obj[p].links[e] # NULL
        PROVE  g.link[g.obj[p].links[e]].src = p
    <3>1. CASE p = o /\ e = f
      BY <1>2, <1>3, <3>1
    <3>2. CASE ~(p = o /\ e = f)
      <4>1. /\ g.obj[p].links[e] = h.obj[p].links[e]
            /\ h.obj[p].links[e] \in TableLinks(h)
        BY <1>3, <1>4, <2>2, <3>2
      <4>2. h.obj[p].links[e] \in Links \ {l}
        BY <1>6, <4>1
      <4> QED
        BY <1>1, <1>2, <2>2, <4>1, <4>2 DEF Placed
    <3> QED
      BY <3>1, <3>2
  <2>3. ASSUME NEW p \in Objects, g.obj[p].state = "none"
        PROVE  KeysOf(g, p) = {}
    <3>1. h.obj[p].state = "none" /\ p # o
      BY <1>1, <1>2, <2>3 DEF DeadOK
    <3> QED
      BY <1>1, <1>3, <3>1 DEF Placed, KeysOf
  <2> QED
    BY <2>1, <2>2, <2>3 DEF Placed
<1>9. Counted(H \cup {l}, g, r, t)
  <2> SUFFICES ASSUME NEW p \in Objects, NEW i \in 0..2
               PROVE  Unlisted(g, p, i) = Cardinality(HoldersOf(H \cup {l}, g, p, i))
                                            + Owed(g, r, t, p, i)
    BY DEF Counted
  <2>1. SameKinds(h, g, H)
    BY <1>2 DEF SameKinds, Kind
  <2>2. Cardinality(HoldersOf(H \cup {l}, g, p, i)) =
          Cardinality(HoldersOf(H, h, p, i)) + (IF HoldsCount(g, l, p, i) THEN 1 ELSE 0)
    BY <1>1, <2>1, HoldersGain
  <2>3. HoldsCount(g, l, p, i) <=> p = x /\ i = Kind(g, l)
    BY <1>2 DEF HoldsCount
  <2>4. Unlisted(g, p, i) = Unlisted(h, p, i)
                              + (IF p = x /\ i = Kind(g, l) THEN 1 ELSE 0)
    BY DEF Installed
  <2>5. Unlisted(h, p, i) = Cardinality(HoldersOf(H, h, p, i)) + Owed(h, r, t, p, i)
    BY <1>1 DEF Counted
  <2>6. Owed(g, r, t, p, i) = Owed(h, r, t, p, i)
    BY <1>2 DEF Owed
  <2>7. /\ Cardinality(HoldersOf(H, h, p, i)) \in Nat
        /\ Owed(h, r, t, p, i) \in Nat
    BY <1>1, CountedHolds
  <2> QED
    <3>1. CASE HoldsCount(g, l, p, i)
      <4>1. /\ Cardinality(HoldersOf(H \cup {l}, g, p, i)) =
                 Cardinality(HoldersOf(H, h, p, i)) + 1
            /\ Unlisted(g, p, i) = Unlisted(h, p, i) + 1
        BY <2>2, <2>3, <2>4, <3>1
      <4> QED
        BY <2>5, <2>6, <2>7, <4>1
    <3>2. CASE ~HoldsCount(g, l, p, i)
      <4>1. /\ Cardinality(HoldersOf(H \cup {l}, g, p, i)) =
                 Cardinality(HoldersOf(H, h, p, i))
            /\ Unlisted(g, p, i) = Unlisted(h, p, i)
        <5>1. Unlisted(h, p, i) \in Int
          BY UnlistedInt
        <5>2. Unlisted(g, p, i) = Unlisted(h, p, i)
          BY <2>3, <2>4, <3>2, <5>1
        <5> QED
          BY <2>2, <2>7, <3>2, <5>2
      <4> QED
        BY <2>5, <2>6, <4>1
    <3> QED
      BY <3>1, <3>2
<1>10. HandOK(g, t)
  <2>1. CASE t.pc = "idle"
    BY <1>1, <2>1 DEF HandOK
  <2>2. CASE was = NULL
    <3>1. \A p \in Objects : LinksOf(h, p) \subseteq LinksOf(g, p)
      <4>1. ASSUME NEW p \in Objects, NEW e \in Fields, h.obj[p].links[e] # NULL
            PROVE  g.obj[p].links[e] = h.obj[p].links[e]
        BY <1>3, <2>2, <4>1
      <4> QED
        BY <4>1 DEF LinksOf
    <3>2. \A p \in Objects : KeysOf(h, p) \subseteq KeysOf(g, p)
      BY <1>3, <2>2 DEF KeysOf
    <3>3. t.pc = "rebuild_link" => t.lk \in TableLinks(g)
      <4>1. TableLinks(h) \subseteq TableLinks(g)
        BY <1>4, <1>7, <2>2
      <4> QED
        BY <1>1, <4>1 DEF HandOK
    <3>4. t.pc = "phantomize_links" => t.links \subseteq LinksOf(g, t.obj)
      BY <1>1, <3>1 DEF HandOK, ObjectPCs
    <3>5. t.pc \in {"rebuild_links", "rebuild_link"} =>
            t.keys \subseteq KeysOf(g, t.obj)
      BY <1>1, <3>2 DEF HandOK, ObjectPCs
    <3>6. t.pc \in {"destroy_links", "delete"} /\ t.task.run = "request_delete"
            => KeysOf(g, t.obj) = {}
      <4> SUFFICES ASSUME t.pc \in {"destroy_links", "delete"},
                          t.task.run = "request_delete"
                   PROVE  KeysOf(g, t.obj) = {}
        OBVIOUS
      <4>1. t.obj \in Objects /\ Deletes(t, t.obj)
        BY DEF Deletes, ObjectPCs
      <4>2. t.obj # o
        BY <1>1, <4>1 DEF DeadOK
      <4>3. KeysOf(h, t.obj) = {}
        BY <1>1 DEF HandOK
      <4> QED
        BY <1>3, <4>1, <4>2, <4>3 DEF KeysOf
    <3> QED
      BY <1>1, <3>3, <3>4, <3>5, <3>6 DEF HandOK
  <2> QED
    BY <2>1, <2>2
<1>11. DeadOK(g, t)
  <2>1. Requests(h, g, x)
    BY <1>2 DEF Requests
  <2> QED
    BY <1>1, <1>2, <2>1, DeadKept
<1>12. FlagsOK(g) /\ Emptied(g)
  BY <1>1, <1>2, FlagsKept
<1>13. g.failed \notin CountFailures
  BY <1>2 DEF CountFailures
<1>14. IsFiniteSet(H \cup {l})
  BY <1>1, FS_AddElement
<1> QED
  BY <1>1, <1>2, <1>7, <1>8, <1>9, <1>10, <1>11, <1>12, <1>13, <1>14
     DEF CountInv, Swapped

\* acid_set_field(o, f, x), of a careful program.
LEMMA SetFieldCounts ==
  ASSUME IInv, CInv, Running, Careful, NEW w \in Workers, Workers = {w},
         NEW o \in Objects, NEW x \in Objects, NEW f \in Fields, object_set(o, f, x)
  PROVE  CInv'
<1> DEFINE t == thr[w]
           H == HeldBy(heap, old, t)
           l == CHOOSE m \in FreeLinks : TRUE
           was == heap.obj[o].links[f]
<1>1. /\ Callable(w) /\ ~Zero(heap, o) /\ ~Zero(heap, x)
  BY ProgramFacts, ReachCounted DEF object_set, Reached
<1>2. /\ old = NULL /\ old' = was /\ FreeLinks # {}
      /\ heap' = object_set_link(heap, o, f, x, l)
      /\ root' = root /\ thr' = thr
  BY DEF object_set
<1>3. /\ Good(heap) /\ CountInv(H, heap, root, t) /\ heap.failed = "none"
      /\ root \in [Objects -> Nat] /\ TakenOut(heap, old, t)
      /\ H \subseteq Allocated(heap) /\ TableLinks(heap) \subseteq H
      /\ DeadOK(heap, t) /\ Emptied(heap) /\ FlagsOK(heap)
      /\ t.pc \in ObjectPCs => t.obj \in Objects
  BY <1>1 DEF Callable
<1>4. l \in Links /\ l \notin Allocated(heap) /\ l # NULL
  BY <1>2, HeapAssumption DEF FreeLinks, Allocated
<1>5. o \in Known(heap) /\ x \in Known(heap)
  BY <1>1, <1>3 DEF DeadOK, Known
<1>6. was # NULL => Quiet /\ t.pc = "idle"
  BY <1>2 DEF Careful, Quiet, At
<1>7. H \subseteq Links /\ l \notin H
  BY <1>3, <1>4 DEF Allocated
<1> HIDE DEF H, t, l
<1>8. ASSUME NEW g, g = heap'
      PROVE  /\ CountInv(H \cup {l}, g, root, t)
             /\ TableLinks(g) = (TableLinks(heap) \ {was}) \cup {l}
             /\ g.work = heap.work
  <2>1. g = object_set_link(heap, o, f, x, l)
    BY <1>2, <1>8
  <2>2. Installed(heap, g, o, f, x, l)
    BY <1>3, <1>4, <1>5, <2>1, SetLinkInstalls
  <2>3. SameFlags(heap, g)
    BY <1>3, <1>4, <1>5, <2>1, MildSetLink DEF Mild
  <2>4. g.work = heap.work
    <3>1. "work" \in DOMAIN heap
      BY <1>3 DEF Good, HeapType
    <3> QED
      BY <2>1, <3>1, SetLinkWork DEF SameWork
  <2>5. was = heap.obj[o].links[f] /\ (was # NULL => t.pc = "idle")
    BY <1>6
  <2> HIDE DEF was
  <2>6. ASSUME NEW K, K = H \cup {l}
        PROVE  CountInv(K, g, root, t) /\ Swapped(heap, g, was, l)
    <3>1. ~Zero(heap, o) /\ ~Zero(heap, x)
      BY <1>1
    <3>2. l \in Links /\ l # NULL /\ H \subseteq Links /\ l \notin H
      BY <1>4, <1>7
    <3>3. /\ Good(heap) /\ CountInv(H, heap, root, t) /\ heap.failed = "none"
          /\ root \in [Objects -> Nat] /\ TableLinks(heap) \subseteq H
          /\ t.pc \in ObjectPCs => t.obj \in Objects
      BY <1>3
    <3> QED
      BY <2>2, <2>3, <2>5, <2>6, <3>1, <3>2, <3>3, InstallKeeps
  <2> QED
    BY <2>4, <2>6 DEF Swapped
<1>9. /\ CountInv(H \cup {l}, heap', root, t) /\ heap'.work = heap.work
      /\ TableLinks(heap') = (TableLinks(heap) \ {was}) \cup {l}
  BY <1>8
<1>10. was # NULL => was \in TableLinks(heap)
  BY DEF TableLinks, LinksOf
<1>11. NULL \notin TableLinks(heap)
  BY DEF TableLinks, LinksOf
<1> HIDE DEF was
<1>12. HeldBy(heap', old', t) = H \cup {l}
  BY <1>2, <1>9, <1>10, <1>11 DEF H, HeldBy
<1>13. TakenOut(heap', old', t)
  <2>1. InHand(t) \cap TableLinks(heap) = {} /\ InHand(t) \subseteq H
    BY <1>3 DEF TakenOut, H, HeldBy
  <2>2. l # was
    BY <1>3, <1>4, <1>7, <1>10
  <2> QED
    BY <1>2, <1>4, <1>7, <1>9, <1>11, <2>1, <2>2 DEF TakenOut
<1>14. old' # NULL => Quiet'
  BY <1>2, <1>6, <1>9 DEF Quiet, At
<1> QED
  BY <1>2, <1>9, <1>12, <1>13, <1>14, ProgramCounts DEF t

\* No call of a careful program moves a count that it should not.
LEMMA ProgramKeepsCounts ==
  ASSUME IInv, CInv, Running, Careful, NEW w \in Workers, Workers = {w}, MutatorNext
  PROVE  CInv'
BY MallocCounts, HardenCounts, DissolveCounts, SetCounts, SetNullCounts,
   SetFieldCounts, CleanupCounts, Zenon DEF MutatorNext

-----------------------------------------------------------------------------
(* The invariant of careful programs *)

\* At first nothing holds a count, and there is none.
LEMMA InitCounts == Init => CInv
<1> SUFFICES ASSUME Init, NEW w \in Workers
             PROVE  /\ CountInv(HeldBy(heap, old, thr[w]), heap, root, thr[w])
                    /\ TakenOut(heap, old, thr[w])
                    /\ old = NULL
  BY DEF CInv
<1> DEFINE t == thr[w]
<1>1. /\ \A o \in Objects : heap.obj[o] = NoObject /\ root[o] = 0
      /\ \A c \in Collectors : heap.coll[c] = NoCollector
      /\ heap.work = <<>> /\ heap.failed = "none"
      /\ t = IdleThread /\ old = NULL
  BY DEF Init, EmptyHeap
<1>2. /\ NoObject.state = "none" /\ NoObject.which = 0
      /\ NoObject.phantomization_complete
      /\ \A f \in Fields : NoObject.links[f] = NULL
      /\ \A i \in 0..2 : NoObject.count[i] = 0
  BY DEF NoObject
<1>3. /\ t.pc = "idle" /\ t.obj = NULL /\ t.keys = {} /\ t.task = NULL
  BY <1>1 DEF IdleThread
<1>4. \A c \in Collectors, n \in ListNames : heap.coll[c].lists[n] = <<>>
  BY <1>1 DEF NoCollector
<1>5. \A o \in Objects : o # NULL
  BY HeapAssumption
<1> HIDE DEF t
<1>6. TableLinks(heap) = {} /\ InHand(t) = {} /\ HeldBy(heap, old, t) = {}
  <2>1. TableLinks(heap) = {}
    BY <1>1, <1>2 DEF TableLinks, LinksOf
  <2>2. InHand(t) = {}
    BY <1>3 DEF InHand
  <2> QED
    BY <1>1, <2>1, <2>2 DEF HeldBy
<1>7. Counted({}, heap, root, t)
  <2> SUFFICES ASSUME NEW o \in Objects, NEW i \in 0..2
               PROVE  Unlisted(heap, o, i) = Cardinality(HoldersOf({}, heap, o, i))
                                               + Owed(heap, root, t, o, i)
    BY DEF Counted
  <2>1. Cardinality(HoldersOf({}, heap, o, i)) = 0
    <3>1. HoldersOf({}, heap, o, i) = {}
      BY DEF HoldersOf
    <3> QED
      BY <3>1, FS_EmptySet
  <2>2. Owed(heap, root, t, o, i) = 0
    <3>1. ~HasAt(t, "phantomize_node", o) /\ ~Carries(t, o)
      BY <1>3, <1>5 DEF HasAt, Carries
    <3> QED
      BY <1>1, <3>1 DEF Owed
  <2>3. \A names \in SUBSET ListNames : Listed(Store(heap), o, names) = 0
    <3> SUFFICES ASSUME NEW names \in SUBSET ListNames
                 PROVE  Listed(Store(heap), o, names) = 0
      OBVIOUS
    <3>1. \A p \in Collectors \X names : EntriesOf(Store(heap), o, p) = {}
      BY <1>4 DEF EntriesOf, Store
    <3>2. EntrySet(Store(heap), o, names) = {}
      BY <3>1 DEF EntrySet
    <3> QED
      BY <3>2, FS_EmptySet DEF Listed
  <2>4. Unlisted(heap, o, i) = 0
    <3>1. Counting \in SUBSET ListNames /\ {"collect"} \in SUBSET ListNames
      BY DEF Counting, ListNames
    <3> QED
      BY <1>1, <1>2, <2>3, <3>1 DEF Unlisted
  <2> QED
    BY <2>1, <2>2, <2>4
<1>8. Placed(heap) /\ FlagsOK(heap)
  BY <1>1, <1>2 DEF Placed, KeysOf, FlagsOK
<1>9. ListFits(t) /\ HandOK(heap, t)
  BY <1>3 DEF ListFits, HandOK
<1>10. DeadOK(heap, t) /\ AllHaveColl(heap)
  BY <1>1, <1>2 DEF DeadOK, Zero, AllHaveColl, HasColl, Phantom
<1>11. Emptied(heap)
  BY <1>4 DEF Emptied, store_count_zero
<1>12. heap.failed \notin CountFailures
  BY <1>1, NoneFailed
<1>13. TakenOut(heap, old, t)
  BY <1>6 DEF TakenOut
<1>14. IsFiniteSet({})
  BY FS_EmptySet
<1> QED
  BY <1>1, <1>6, <1>7, <1>8, <1>9, <1>10, <1>11, <1>12, <1>13, <1>14 DEF CountInv, t

\* Every step of a careful program and its one worker keeps it.
LEMMA NextCounts ==
  ASSUME NEW me, Workers = {me}, IInv, TInv, CInv, [Next /\ Careful]_vars
  PROVE  CInv'
<1>1. CASE UNCHANGED vars
  BY <1>1 DEF vars, CInv, Quiet, At
<1>2. CASE Next /\ Careful
  <2>1. Running /\ me \in Workers
    BY <1>2 DEF Next
  <2>2. CASE MutatorNext
    BY <1>2, <2>1, <2>2, ProgramKeepsCounts
  <2>3. CASE WorkerNext(me)
    BY <2>1, <2>3, WorkerKeepsCounts
  <2> QED
    BY <1>2, <2>2, <2>3 DEF Next
<1> QED
  BY <1>1, <1>2

\* The inductive invariant of careful programs that run with one worker.
THEOREM CarefulInvariant ==
  ASSUME NEW CONSTANT me, Workers = {me}
  PROVE  CarefulSpec => [](IInv /\ TInv /\ CInv)
<1>1. Init => IInv /\ TInv /\ CInv
  BY InitIInv, InitTasks, InitCounts
<1>2. IInv /\ TInv /\ CInv /\ [Next /\ Careful]_vars => (IInv /\ TInv /\ CInv)'
  <2> SUFFICES ASSUME IInv, TInv, CInv, [Next /\ Careful]_vars
               PROVE  IInv' /\ TInv' /\ CInv'
    OBVIOUS
  <2>1. [Next]_vars
    OBVIOUS
  <2>2. CInv'
    BY NextCounts
  <2> QED
    BY <2>1, <2>2, NextIInv, NextTasks
<1> QED
  BY <1>1, <1>2, PTL DEF CarefulSpec

\* No assertion about counts fails, nor about the links and collectors that a
\* collection still needs: no count is given back that was not taken
\* (object.c:74, 123, 150, 182, 222-225, 263, 289, 306 and 332, link.c:45-48).
THEOREM CountAssertionsHold ==
  ASSUME NEW CONSTANT me, Workers = {me}
  PROVE  CarefulSpec => []CountsHold
<1>1. CInv => CountsHold
  BY DEF CInv, CountInv, CountsHold
<1> QED
  BY <1>1, CarefulInvariant, PTL

\* What one worker holds.
LEMMA OneWorkerHolds ==
  ASSUME NEW me, Workers = {me}, NEW o \in Objects
  PROVE  /\ HeldLinks = HeldBy(heap, old, thr[me])
         /\ \A pc : Holding(o, {pc}) = IF HasAt(thr[me], pc, o) THEN 1 ELSE 0
         /\ Handling(o) = IF Carries(thr[me], o) THEN 1 ELSE 0
<1>1. Cardinality({}) = 0 /\ Cardinality({me}) = 1
  BY FS_EmptySet, FS_Singleton
<1>2. HeldLinks = HeldBy(heap, old, thr[me])
  <2>1. UNION {thr[w].links : w \in {v \in Workers : At(v, "destroy_links")}}
          = InHand(thr[me])
    BY DEF InHand, At
  <2> QED
    BY <2>1 DEF HeldLinks, HeldBy, TableLinks
<1>3. ASSUME NEW pc
      PROVE  Holding(o, {pc}) = IF HasAt(thr[me], pc, o) THEN 1 ELSE 0
  <2>1. {w \in Workers : thr[w].obj = o /\ thr[w].pc \in {pc}}
          = IF HasAt(thr[me], pc, o) THEN {me} ELSE {}
    BY DEF HasAt
  <2> QED
    BY <1>1, <2>1 DEF Holding
<1>4. Handling(o) = IF Carries(thr[me], o) THEN 1 ELSE 0
  <2>1. {w \in Workers : /\ thr[w].obj = o
                         /\ thr[w].task.run = "collector_run"
                         /\ thr[w].list # "rebuild_list"}
          = IF Carries(thr[me], o) THEN {me} ELSE {}
    BY DEF Carries
  <2> QED
    BY <1>1, <2>1 DEF Handling
<1> QED
  BY <1>2, <1>3, <1>4

\* The entries of lists that have been counted are all there are.
LEMMA EntriesListed ==
  ASSUME NEW o, NEW names \in SUBSET ListNames
  PROVE  Entries(o, names) = Listed(Store(heap), o, names)
<1> DEFINE E(p) == LET list == heap.coll[p[1]].lists[p[2]]
                   IN  {<<p, i>> : i \in {j \in DOMAIN list : list[j] = o}}
<1>1. \A p \in Collectors \X names : E(p) = EntriesOf(Store(heap), o, p)
  <2> SUFFICES ASSUME NEW c \in Collectors, NEW n \in names
               PROVE  E(<<c, n>>) = EntriesOf(Store(heap), o, <<c, n>>)
    OBVIOUS
  <2>1. Store(heap)[c] = heap.coll[c].lists
    BY DEF Store
  <2> QED
    BY <2>1 DEF EntriesOf
<1>2. Entries(o, names) = Cardinality(UNION {E(p) : p \in Collectors \X names})
  BY DEF Entries
<1> HIDE DEF E
<1>3. {E(p) : p \in Collectors \X names}
        = {EntriesOf(Store(heap), o, p) : p \in Collectors \X names}
  BY <1>1
<1> QED
  BY <1>2, <1>3 DEF Listed, EntrySet

\* Each of the three counts of every object is the number of its holders,
\* however the collector moves links from one count to another while the
\* program goes on (object.c:120-160, collector.c:60-81, link.c:37-66).
THEOREM EveryCountExact ==
  ASSUME NEW CONSTANT me, Workers = {me}
  PROVE  CarefulSpec => []CountsExact
<1>1. ASSUME IInv, CInv
      PROVE  CountsExact
  <2> DEFINE H == HeldBy(heap, old, thr[me])
             t == thr[me]
  <2>1. /\ Good(heap) /\ root \in [Objects -> Nat] /\ IsFiniteSet(H)
        /\ Counted(H, heap, root, t)
    BY <1>1 DEF IInv, MutatorOK, CInv, CountInv
  <2>2. H \subseteq Links
    BY <1>1, HeldByAllocated DEF Allocated
  <2>3. \A l \in H : /\ heap.link[l].phantomized \in BOOLEAN
                     /\ heap.link[l].which \in {0, 1}
    <3>1. \A l \in Links : heap.link[l] \in Link
      BY <2>1 DEF Good, HeapType
    <3> QED
      BY <2>2, <3>1 DEF Link, Bits
  <2> SUFFICES ASSUME NEW o \in Objects
               PROVE  LET node == heap.obj[o]
                      IN  /\ node.count[node.which] =
                               root[o] + Cardinality(LinksOn(o, node.which))
                                 + Entries(o, {"collect"})
                                 + Holding(o, {"phantomize_node"})
                          /\ node.count[Flip(node.which)] =
                               Cardinality(LinksOn(o, Flip(node.which)))
                          /\ node.count[Phantom] =
                               Cardinality(LinksTo(o, TRUE))
                                 + Entries(o, ListNames \ {"rebuild_list"})
                                 + Handling(o)
    BY DEF CountsExact
  <2> DEFINE k == heap.obj[o].which
             c == heap.obj[o].count
             N(i) == Cardinality(HoldersOf(H, heap, o, i))
  <2>0. Counting \in SUBSET ListNames /\ {"collect"} \in SUBSET ListNames
    BY DEF Counting, ListNames
  <2>4. /\ HeldLinks = H
        /\ Holding(o, {"phantomize_node"})
             = IF HasAt(t, "phantomize_node", o) THEN 1 ELSE 0
        /\ Handling(o) = IF Carries(t, o) THEN 1 ELSE 0
    BY OneWorkerHolds
  <2>5. \A names \in SUBSET ListNames : Entries(o, names) = Listed(Store(heap), o, names)
    BY EntriesListed
  <2> HIDE DEF H, t
  <2>6. \A i \in {0, 1} : LinksOn(o, i) = HoldersOf(H, heap, o, i)
    BY <2>3, <2>4 DEF LinksOn, LinksTo, HoldersOf, HoldsCount, Kind, Phantom
  <2>7. LinksTo(o, TRUE) = HoldersOf(H, heap, o, Phantom)
    BY <2>3, <2>4 DEF LinksTo, HoldersOf, HoldsCount, Kind, Phantom
  <2>8. k \in {0, 1} /\ Flip(k) \in {0, 1} /\ Flip(k) # k
    <3>1. k \in {0, 1}
      BY <2>1 DEF Good, HeapType, Object, Bits
    <3> QED
      BY <3>1 DEF Flip
  <2>9. \A i \in 0..2 : /\ c[i] \in Int /\ N(i) \in Nat
                        /\ Unlisted(heap, o, i) = N(i) + Owed(heap, root, t, o, i)
    BY <2>1, UnlistedInt, HoldersFinite DEF Counted
  <2>10. /\ Listed(Store(heap), o, Counting) \in Nat
         /\ Listed(Store(heap), o, {"collect"}) \in Nat
         /\ root[o] \in Nat
    BY <2>1, UnlistedInt
  <2> HIDE DEF N
  <2>11. c[k] = root[o] + N(k) + Entries(o, {"collect"})
                  + Holding(o, {"phantomize_node"})
    <3>1. Unlisted(heap, o, k) = c[k] - Listed(Store(heap), o, {"collect"})
      BY <2>8 DEF Unlisted, Phantom
    <3>2. Owed(heap, root, t, o, k) = root[o] + Holding(o, {"phantomize_node"})
      BY <2>4, <2>8, <2>10 DEF Owed, Phantom
    <3>3. Holding(o, {"phantomize_node"}) \in Nat /\ k \in 0..2
      BY <2>4, <2>8
    <3>4. Entries(o, {"collect"}) = Listed(Store(heap), o, {"collect"})
      BY <2>0, <2>5
    <3>5. Unlisted(heap, o, k) = N(k) + Owed(heap, root, t, o, k)
      BY <2>9, <3>3
    <3>6. c[k] \in Int /\ N(k) \in Nat
      BY <2>9, <3>3
    <3> HIDE DEF c, k
    <3> QED
      BY <2>10, <3>1, <3>2, <3>3, <3>4, <3>5, <3>6
  <2>12. c[Flip(k)] = N(Flip(k))
    <3>1. Flip(k) \in 0..2 /\ Flip(k) # Phantom
      BY <2>8 DEF Phantom
    <3>2. Unlisted(heap, o, Flip(k)) = c[Flip(k)] - 0
      BY <2>8, <3>1 DEF Unlisted
    <3>3. Owed(heap, root, t, o, Flip(k)) = 0
      BY <2>8, <3>1 DEF Owed
    <3> QED
      BY <2>9, <3>1, <3>2, <3>3
  <2>13. c[Phantom] = N(Phantom) + Entries(o, ListNames \ {"rebuild_list"})
                        + Handling(o)
    <3>1. Phantom \in 0..2 /\ k # Phantom
      BY <2>8 DEF Phantom
    <3>2. Unlisted(heap, o, Phantom) = c[Phantom] - Listed(Store(heap), o, Counting)
      BY DEF Unlisted
    <3>3. Owed(heap, root, t, o, Phantom) = Handling(o)
      BY <2>4, <3>1 DEF Owed
    <3>4. Entries(o, ListNames \ {"rebuild_list"}) = Listed(Store(heap), o, Counting)
      BY <2>0, <2>5 DEF Counting
    <3>5. Handling(o) \in Nat
      BY <2>4
    <3> QED
      BY <2>9, <2>10, <3>1, <3>2, <3>3, <3>4, <3>5
  <2> QED
    BY <2>6, <2>7, <2>8, <2>11, <2>12, <2>13 DEF N
<1>2. IInv /\ TInv /\ CInv => CountsExact
  BY <1>1
<1> QED
  BY <1>2, CarefulInvariant, PTL

\* Nothing that the program can reach is freed, or about to be: the collector
\* may turn every count that keeps an object alive into another one, but it
\* never lets go of all of them while a path leads there (README.md:66-71).
THEOREM ReachableAlive ==
  ASSUME NEW CONSTANT me, Workers = {me}
  PROVE  CarefulSpec => []AccessibleAlive
<1>1. ASSUME IInv, CInv
      PROVE  AccessibleAlive
  <2> SUFFICES ASSUME NEW o \in Accessible
               PROVE  heap.obj[o].state = "live" /\ o \notin Deleting
    BY DEF AccessibleAlive
  <2>1. o \in Objects /\ ~Zero(heap, o)
    BY <1>1, ReachCounted DEF Reached
  <2>2. DeadOK(heap, thr[me])
    BY <1>1 DEF CInv, CountInv
  <2>3. heap.obj[o].state = "live"
    BY <2>1, <2>2 DEF DeadOK
  <2>4. o \notin Requested(heap) /\ ~Deletes(thr[me], o)
    BY <2>1, <2>2 DEF DeadOK
  <2>5. o \notin Deleting
    BY <2>4 DEF Deleting, Requested, Deletes
  <2> QED
    BY <2>3, <2>5
<1>2. IInv /\ TInv /\ CInv => AccessibleAlive
  BY <1>1
<1> QED
  BY <1>2, CarefulInvariant, PTL

-----------------------------------------------------------------------------
(* Owners: the invariant *)

\* Objects are in the lists, and in the hands of the workers, of the collector
\* that they point to.
OwnersOK(h, t) ==
  /\ \A o \in Objects, c \in Collectors : ListedBy(h, o, c) => Owner(h, o, c)
  /\ \A o \in Objects : Carries(t, o) => Owner(h, o, t.task.arg)

\* So they are for every worker.
OInv == \A w \in Workers : OwnersOK(heap, thr[w])

\* What a step may do to owners.
Parts(h, g) == Stays(h, g, {}) \/ \E x \in Objects : Loses(h, g, x)

\* An object without phantom counts is in nobody's lists and hands.
LEMMA GoneUnlisted ==
  ASSUME NEW g, Good(g), NEW H, IsFiniteSet(H), NEW r \in [Objects -> Nat],
         NEW u, Counted(H, g, r, u), NEW x \in Objects,
         g.obj[x].count[Phantom] = 0
  PROVE  ~Carries(u, x) /\ \A c \in Collectors : ~ListedBy(g, x, c)
<1> DEFINE L == Store(g)
<1>1. ~Carries(u, x)
  BY CountedHolds DEF Holds
<1>2. Phantom \in 0..2 /\ Unlisted(g, x, Phantom) >= 0
  BY CountedHolds DEF Phantom
<1>3. /\ g.obj[x].which # Phantom /\ Counting \in SUBSET ListNames
      /\ Listed(L, x, Counting) \in Nat
  BY UnlistedInt DEF Counting
<1>4. L \in StoreType /\ \A c \in Collectors : L[c] = g.coll[c].lists
  BY StoreHas
<1> HIDE DEF L
<1>5. Listed(L, x, Counting) = 0
  BY <1>2, <1>3 DEF Unlisted, L
<1>6. EntrySet(L, x, Counting) = {}
  BY <1>3, <1>4, <1>5, ListedNat, FS_EmptySet DEF Listed
<1>7. ASSUME NEW c \in Collectors, ListedBy(g, x, c)
      PROVE  FALSE
  <2>1. PICK n \in Counting : In(g.coll[c].lists[n], x)
    BY <1>7 DEF ListedBy, InLists, Counting
  <2>2. PICK i \in DOMAIN g.coll[c].lists[n] : g.coll[c].lists[n][i] = x
    BY <2>1 DEF In
  <2>3. HoldsAt(L, x, c, n, i)
    BY <1>4, <2>2 DEF HoldsAt
  <2> QED
    BY <1>6, <2>3, EntryIs
<1> QED
  BY <1>1, <1>7

\* Everything is owned after a call that leaves the owners of all objects but
\* some that are not listed any more.
LEMMA OwnersMove ==
  ASSUME NEW h, NEW g, Good(h), Good(g), NEW t, OwnersOK(h, t), NEW u, NEW X,
         Stays(h, g, X),
         \A x \in X : ~Carries(u, x) /\ \A c \in Collectors : ~ListedBy(g, x, c),
         \A o \in Objects : Carries(u, o) =>
           u.task.arg \in Collectors /\ Owner(h, o, u.task.arg)
  PROVE  OwnersOK(g, u)
<1>1. ASSUME NEW o \in Objects \ X, NEW c \in Collectors, Owner(h, o, c)
      PROVE  Owner(g, o, c)
  <2>1. /\ h.obj[o].collector \in Collectors
        /\ Owner(g, o, h.obj[o].collector)
    BY <1>1, PointedLive DEF Owner, Stays
  <2>2. Together(g, h.obj[o].collector, c)
    BY <1>1, <2>1 DEF Owner, Stays
  <2> QED
    BY <2>1, <2>2, TogetherEquiv DEF Owner
<1>2. ASSUME NEW o \in Objects, NEW c \in Collectors, ListedBy(g, o, c)
      PROVE  Owner(g, o, c)
  <2>1. o \notin X
    BY <1>2
  <2>2. CASE \E d \in Collectors : ListedBy(h, o, d) /\ Together(g, d, c)
    <3>1. PICK d \in Collectors : ListedBy(h, o, d) /\ Together(g, d, c)
      BY <2>2
    <3>2. Owner(g, o, d)
      BY <1>1, <2>1, <3>1 DEF OwnersOK
    <3> QED
      BY <3>1, <3>2, TogetherEquiv DEF Owner
  <2> QED
    BY <1>2, <2>1, <2>2 DEF Stays
<1>3. ASSUME NEW o \in Objects, Carries(u, o)
      PROVE  Owner(g, o, u.task.arg)
  BY <1>1, <1>3
<1> QED
  BY <1>2, <1>3 DEF OwnersOK

\* So it is after a step, then: what is lost has no counts.
LEMMA OwnersStep ==
  ASSUME IInv, IInv', CInv', NEW w \in Workers, Workers = {w}, OInv,
         Parts(heap, heap'),
         \A o \in Objects : Carries(thr'[w], o) =>
           thr'[w].task.arg \in Collectors /\ Owner(heap, o, thr'[w].task.arg)
  PROVE  OInv'
<1> DEFINE u == thr'[w]
           H == HeldBy(heap', old', u)
<1>1. Good(heap) /\ OwnersOK(heap, thr[w])
  BY DEF IInv, OInv
<1>2. ASSUME NEW g, g = heap', NEW r, r = root'
      PROVE  OwnersOK(g, u)
  <2>1. Good(g) /\ r \in [Objects -> Nat]
    BY <1>2 DEF IInv, MutatorOK
  <2>2. IsFiniteSet(H) /\ Counted(H, g, r, u)
    BY <1>2 DEF CInv, CountInv
  <2>3. /\ Parts(heap, g)
        /\ \A o \in Objects : Carries(u, o) =>
             u.task.arg \in Collectors /\ Owner(heap, o, u.task.arg)
    BY <1>2
  <2> HIDE DEF u, H
  <2>4. CASE Stays(heap, g, {})
    BY <1>1, <2>1, <2>3, <2>4, OwnersMove
  <2>5. ASSUME NEW x \in Objects, Stays(heap, g, {x}), g.obj[x].count[Phantom] = 0
        PROVE  OwnersOK(g, u)
    <3>1. ~Carries(u, x) /\ \A c \in Collectors : ~ListedBy(g, x, c)
      BY <2>1, <2>2, <2>5, GoneUnlisted
    <3> QED
      BY <1>1, <2>1, <2>3, <2>5, <3>1, OwnersMove
  <2> QED
    BY <2>3, <2>4, <2>5 DEF Parts, Loses
<1> QED
  BY <1>2 DEF OInv

\* A worker that carries a node runs the task of a collector.
LEMMA CarriesMine ==
  ASSUME NEW h, NEW t, ThreadOK(h, t), HandOK(h, t), NEW o \in Objects,
         Carries(t, o)
  PROVE  t.task.arg \in Collectors /\ t.pc \in ObjectPCs
<1>1. t.obj = o /\ o # NULL /\ t.task.run = "collector_run"
  BY HeapAssumption DEF Carries
<1>2. t.pc \in ObjectPCs
  BY <1>1 DEF HandOK
<1>3. t.task \in KnownTask(h)
  BY <1>2 DEF ThreadOK, ObjectPCs
<1> QED
  BY <1>1, <1>2, <1>3 DEF KnownTask

\* The program moves no worker.
LEMMA ProgramOwners ==
  ASSUME IInv, IInv', CInv', NEW w \in Workers, Workers = {w}, OInv, Callable(w),
         Parts(heap, heap'), thr' = thr
  PROVE  OInv'
<1>1. ASSUME NEW o \in Objects, Carries(thr[w], o)
      PROVE  thr[w].task.arg \in Collectors /\ Owner(heap, o, thr[w].task.arg)
  BY <1>1, CarriesMine DEF OInv, OwnersOK, Callable
<1> QED
  BY <1>1, OwnersStep

\* In u the worker carries only what it carried in t, for the same task.
GoesOn(t, u) == \A o \in Objects : Carries(u, o) => Carries(t, o) /\ u.task = t.task

\* A worker that goes on with the node it has, or with none, leaves it owned.
LEMMA WorkerOwners ==
  ASSUME IInv, IInv', CInv', NEW w \in Workers, Workers = {w}, OInv, Ready(w),
         Parts(heap, heap'), GoesOn(thr[w], thr'[w])
  PROVE  OInv'
<1>1. ASSUME NEW o \in Objects, Carries(thr'[w], o)
      PROVE  thr'[w].task.arg \in Collectors /\ Owner(heap, o, thr'[w].task.arg)
  BY <1>1, CarriesMine DEF OInv, OwnersOK, Ready, GoesOn
<1> QED
  BY <1>1, OwnersStep

-----------------------------------------------------------------------------
(* Owners: the program *)

\* Whatever the program calls leaves objects with their collectors, but for one
\* whose last link is dropped (object.c:41-60, 112-138 and 430-489, link.c:55-66).
LEMMA ProgramParts ==
  ASSUME IInv, CInv, Running, NEW w \in Workers, MutatorNext
  PROVE  Parts(heap, heap')
<1>1. /\ Good(heap) /\ Callable(w)
      /\ \A o \in Objects : root[o] > 0 => o \in Known(heap)
      /\ old # NULL => old \in Allocated(heap)
  BY ProgramFacts DEF IInv, MutatorOK
<1>2. \A o \in Objects : heap.obj[o].which \in 0..2
  BY <1>1, CountsInt
<1>3. SUFFICES ASSUME ~Stays(heap, heap', {})
               PROVE  \E x \in Objects : Loses(heap, heap', x)
  BY DEF Parts
<1>4. ASSUME NEW o \in Objects, acid_malloc(o)
      PROVE  Stays(heap, heap', {})
  BY <1>1, <1>4, InitStrongStays DEF acid_malloc
<1>5. ASSUME NEW o \in Objects, acid_harden(o)
      PROVE  Stays(heap, heap', {})
  BY <1>1, <1>5, IncStrongStays DEF acid_harden
<1>6. ASSUME NEW o \in Objects, acid_dissolve(o)
      PROVE  Stays(heap, heap', {})
  <2>1. /\ o \in Known(heap) /\ CanCreate(heap)
        /\ heap' = object_dec(heap, o, heap.obj[o].which)
    BY <1>1, <1>6 DEF acid_dissolve
  <2> QED
    BY <1>1, <1>2, <2>1, ObjectDecStays
<1>7. ASSUME NEW from \in Objects \cup {NULL}, NEW val \in Objects,
             acid_set(from, val)
      PROVE  Stays(heap, heap', {})
  <2> DEFINE h1 == object_inc_strong(heap, val)
             k  == h1.obj[from].which
  <2>1. /\ CanCreate(heap) /\ (from # NULL => root[from] > 0)
        /\ heap' = IF from = NULL THEN h1 ELSE object_dec(h1, from, k)
    BY <1>7 DEF acid_set
  <2>2. Keeps(heap, h1) /\ Stays(heap, h1, {})
    BY <1>1, IncStrongGood, IncStrongStays
  <2>3. CASE from # NULL
    <3>1. from \in Objects /\ from \in Known(h1) /\ Good(h1) /\ CanCreate(h1)
      BY <1>1, <2>1, <2>2, <2>3 DEF Keeps, SameUsed, CanCreate
    <3> HIDE DEF h1
    <3>2. k \in 0..2
      BY <3>1, CountsInt
    <3> HIDE DEF k
    <3>3. Stays(h1, object_dec(h1, from, k), {})
      BY <3>1, <3>2, ObjectDecStays
    <3>4. Good(object_dec(h1, from, k))
      BY <3>1, <3>2, ObjectDecGood
    <3> QED
      BY <1>1, <2>1, <2>2, <2>3, <3>1, <3>3, <3>4, StaysTrans
  <2> QED
    BY <2>1, <2>2, <2>3
<1>8. ASSUME NEW o \in Objects, NEW f \in Fields, object_set_null(o, f)
      PROVE  Stays(heap, heap', {})
  <2> DEFINE t == [heap.obj[o].links EXCEPT ![f] = NULL]
  <2>1. heap \in HeapType /\ heap.obj[o] \in Object
    BY <1>1 DEF Good, HeapType
  <2>2. heap' = [heap EXCEPT !.obj[o].links = t]
    BY <1>8, <2>1 DEF object_set_null, HeapType, Object
  <2>3. t \in [Fields -> Allocated(heap) \cup {NULL}]
    <3>1. heap.obj[o].links \in [Fields -> Links \cup {NULL}]
      BY <2>1 DEF Object
    <3>2. \A e \in Fields : heap.obj[o].links[e] # NULL =>
            heap.obj[o].links[e] \in Allocated(heap)
      BY <1>1 DEF Good, UsedOK, TablesOK
    <3> QED
      BY <3>1, <3>2
  <2> HIDE DEF t
  <2> QED
    BY <1>1, <2>2, <2>3, TableStays
<1>9. ASSUME NEW o \in Objects, NEW x \in Objects, NEW f \in Fields,
             object_set(o, f, x)
      PROVE  Stays(heap, heap', {})
  <2> DEFINE l == CHOOSE m \in FreeLinks : TRUE
  <2>1. /\ FreeLinks # {} /\ o \in Accessible /\ x \in Accessible
        /\ heap' = object_set_link(heap, o, f, x, l)
    BY <1>9 DEF object_set
  <2>2. l \in Links
    BY <2>1 DEF FreeLinks
  <2> HIDE DEF l
  <2>3. o \in Known(heap) /\ x \in Known(heap)
    BY <1>1, <2>1, ReachCounted DEF Callable, Reached, DeadOK, Known
  <2> QED
    BY <1>1, <2>1, <2>2, <2>3, SetLinkStays
<1>10. ASSUME object_set_cleanup
       PROVE  \E x \in Objects : Loses(heap, heap', x)
  <2>1. old \in Allocated(heap) /\ CanCreate(heap) /\ heap' = link_dec(heap, old)
    BY <1>1, <1>10 DEF object_set_cleanup
  <2>2. heap.link[old].target \in Objects
    BY <1>1, <2>1 DEF Good, UsedOK, LinksOK, Known
  <2> QED
    BY <1>1, <2>1, <2>2, LinkDecLoses
<1> QED
  BY <1>3, <1>4, <1>5, <1>6, <1>7, <1>8, <1>9, <1>10, Zenon DEF MutatorNext

-----------------------------------------------------------------------------
(* Owners: the worker *)

\* Steps that leave owners alone.
LEMMA CalmParts ==
  ASSUME IInv, IInv', SameOwners(heap, heap')
  PROVE  Parts(heap, heap')
<1>1. ASSUME NEW g, g = heap'
      PROVE  Parts(heap, g)
  <2>1. Good(heap) /\ Good(g) /\ SameOwners(heap, g)
    BY <1>1 DEF IInv
  <2> QED
    BY <2>1, SameStays DEF Parts
<1> QED
  BY <1>1

\* A worker with nothing in hand, or with the same, goes on.
LEMMA GoOn ==
  ASSUME NEW t, NEW u,
         u.obj = NULL \/ (u.obj = t.obj /\ u.task = t.task /\ u.list = t.list)
  PROVE  GoesOn(t, u)
BY HeapAssumption DEF GoesOn, Carries

\* A task is queued or taken (worker.c:53-78, task.c:57-62).
LEMMA TaskOwners ==
  ASSUME IInv, IInv', CInv', NEW w \in Workers, Workers = {w}, OInv, Ready(w),
         worker_get_next_task(w) \/ Requeue(w, heap)
  PROVE  OInv'
<1> DEFINE u    == thr'[w]
           task == Head(heap.work)
<1>1. heap \in HeapType
  BY DEF Ready, Good
<1>2. heap'.obj = heap.obj /\ heap'.coll = heap.coll
  BY <1>1 DEF worker_get_next_task, Requeue, Become, HeapType
<1>3. Parts(heap, heap')
  BY <1>2, CalmParts DEF SameOwners
<1>4. CASE u.obj = NULL
  BY <1>3, <1>4, GoOn, WorkerOwners
<1>5. CASE worker_get_next_task(w) /\ task.run # "collector_run"
  <2>1. u = [IdleThread EXCEPT !.pc = "remove_links", !.task = task,
                               !.obj = task.arg]
    BY <1>5 DEF worker_get_next_task, Ready
  <2>2. u.task = task
    BY <2>1 DEF IdleThread
  <2>3. GoesOn(thr[w], u)
    BY <1>5, <2>2 DEF GoesOn, Carries
  <2> QED
    BY <1>3, <2>3, WorkerOwners
<1>6. CASE worker_get_next_task(w) /\ task.run = "collector_run"
  <2>1. u = [IdleThread EXCEPT !.pc = "collector_run", !.task = task]
    BY <1>6 DEF worker_get_next_task, Ready
  <2> QED
    BY <1>4, <2>1 DEF IdleThread
<1>7. CASE Requeue(w, heap)
  <2>1. u = IdleThread
    BY <1>7 DEF Requeue, Ready
  <2> QED
    BY <1>4, <2>1 DEF IdleThread
<1> QED
  BY <1>5, <1>6, <1>7

\* Between two lists of a collector (collector.c:83-124).
LEMMA BetweenListsOwners ==
  ASSUME IInv, IInv', CInv', NEW w \in Workers, Workers = {w}, OInv, Ready(w),
         CollectorStarts(w) \/ DrainMerged(w) \/ PollNothing(w)
  PROVE  OInv'
<1> DEFINE t == thr[w]
           u == thr'[w]
<1>1. t.pc \notin ObjectPCs /\ t.obj = NULL
  BY DEF CollectorStarts, DrainMerged, PollNothing, At, Draining, Handler,
         Ready, HandOK, ObjectPCs
<1>2. u.obj = NULL
  <2>1. ASSUME NEW pc, NEW n, \/ u = [t EXCEPT !.pc = pc]
                              \/ u = [t EXCEPT !.pc = pc, !.list = n]
        PROVE  u.obj = t.obj
    BY <2>1 DEF Ready, Thread
  <2>2. CASE CollectorStarts(w)
    <3>1. u = [t EXCEPT !.pc = "merged"]
      BY <2>2 DEF CollectorStarts, Goto, Ready
    <3> QED
      BY <1>1, <2>1, <3>1
  <2>3. CASE DrainMerged(w)
    <3>1. u = [t EXCEPT !.pc = "collect", !.list = "collect"]
      BY <2>3 DEF DrainMerged, Ready
    <3> QED
      BY <1>1, <2>1, <3>1
  <2>4. CASE PollNothing(w)
    <3>1. \/ u = [t EXCEPT !.pc = "finish"]
          \/ u = [t EXCEPT !.pc = AfterList[t.list], !.list = AfterList[t.list]]
      BY <2>4 DEF PollNothing, Goto, Ready
    <3> QED
      BY <1>1, <2>1, <3>1
  <2> QED
    BY <2>2, <2>3, <2>4
<1>3. GoesOn(t, u)
  BY <1>2, GoOn
<1>4. CASE CollectorStarts(w) \/ PollNothing(w)
  <2>1. heap' = heap
    BY <1>4 DEF CollectorStarts, PollNothing
  <2> QED
    BY <1>3, <2>1, CalmParts, WorkerOwners DEF SameOwners
<1>5. CASE DrainMerged(w)
  <2>1. Mine(w) \in Collectors /\ Good(heap)
    BY <1>5 DEF DrainMerged, At, Ready, CollectorPCs, PCs
  <2>2. ASSUME NEW g, g = heap'
        PROVE  Stays(heap, g, {})
    <3>1. ListsSet(heap, g, Mine(w),
            [heap.coll[Mine(w)].lists EXCEPT
               !["recovery_list"] = @ \o heap.coll[Mine(w)].lists["merged_list"],
               !["merged_list"] = <<>>])
      BY <1>5, <2>2 DEF DrainMerged, Become, ListsSet
    <3> QED
      BY <2>1, <3>1, DrainMergedStays
  <2> QED
    BY <1>3, <2>2, WorkerOwners DEF Parts
<1> QED
  BY <1>4, <1>5

\* What the worker takes from a list has the list's owner (safelist.c:47-58).
LEMMA PollOwners ==
  ASSUME IInv, IInv', CInv', NEW w \in Workers, Workers = {w}, OInv, Ready(w),
         PollObject(w)
  PROVE  OInv'
<1> DEFINE t == thr[w]
           u == thr'[w]
           n == t.list
           c == Mine(w)
           x == Head(heap.coll[c].lists[n])
<1>1. /\ t.pc \in {"collect", "recovery_list", "rebuild_list", "clean_list"}
      /\ heap.coll[c].lists[n] # <<>>
      /\ heap' = safelist_poll(heap, c, n)
      /\ u = [t EXCEPT !.pc = Handler[n], !.obj = x]
  BY DEF PollObject, Draining, Handler, Become, Ready
<1>2. /\ c \in Collectors /\ n \in ListNames /\ Good(heap)
  BY <1>1 DEF Ready, ListFits, CollectorPCs, PCs, ListNames
<1>3. u.obj = x /\ u.task = t.task /\ u.list = n
  BY <1>1 DEF Ready, Thread
<1> HIDE DEF u, x, n, c
<1>4. /\ Stays(heap, heap', {})
      /\ n # "rebuild_list" => ListedBy(heap, x, c)
  BY <1>1, <1>2, SafelistPollStays DEF x
<1>5. ASSUME NEW o \in Objects, Carries(u, o)
      PROVE  u.task.arg \in Collectors /\ Owner(heap, o, u.task.arg)
  <2>1. o = x /\ n # "rebuild_list" /\ u.task.arg = c
    BY <1>3, <1>5 DEF Carries, c, Mine
  <2> QED
    BY <1>2, <1>4, <2>1 DEF OInv, OwnersOK
<1> QED
  BY <1>4, <1>5, OwnersStep DEF Parts, u

\* A collector that is freed lists nothing, and nothing points to it
\* (collector.c:126-137).
LEMMA FinishOwners ==
  ASSUME IInv, IInv', CInv', NEW w \in Workers, Workers = {w}, OInv, Ready(w),
         CollectorFinishes(w)
  PROVE  OInv'
<1> DEFINE c == Mine(w)
           u == thr'[w]
<1>1. CASE ~counter_done(heap, c)
  BY <1>1, TaskOwners DEF CollectorFinishes
<1>2. CASE counter_done(heap, c)
  <2>1. heap' = collector_destroy(heap, c) /\ u = IdleThread
    BY <1>2 DEF CollectorFinishes, Done, Become, Ready
  <2>2. c \in Collectors /\ Good(heap) /\ OwnersOK(heap, thr[w])
    BY DEF CollectorFinishes, At, CollectorPCs, PCs, Ready, OInv
  <2> HIDE DEF c
  <2>3. ASSUME NEW g, g = heap'
        PROVE  OwnersOK(g, u)
    <3>1. ASSUME NEW o \in Objects, NEW d \in Collectors, ListedBy(g, o, d)
          PROVE  Owner(g, o, d)
      <4>1. /\ ListedBy(g, o, d) => d # c /\ ListedBy(heap, o, d)
            /\ d # c /\ Owner(heap, o, d) => Owner(g, o, d)
        BY <1>2, <2>1, <2>2, <2>3, DestroyOwners
      <4> QED
        BY <2>2, <3>1, <4>1 DEF OwnersOK
    <3>2. \A o \in Objects : ~Carries(u, o)
      BY <2>1, HeapAssumption DEF IdleThread, Carries
    <3> QED
      BY <3>1, <3>2 DEF OwnersOK
  <2> QED
    BY <2>3 DEF OInv
<1> QED
  BY <1>1, <1>2

\* Phantomizing a node, link by link (object.c:177-234, link.c:39-53).
LEMMA PhantomizeOwners ==
  ASSUME IInv, IInv', CInv', NEW w \in Workers, Workers = {w}, OInv, Ready(w),
         \/ PhantomizeNode(w)
         \/ \E l \in Links : PhantomizeLink(w, l)
         \/ PhantomizeComplete(w)
  PROVE  OInv'
<1> DEFINE t == thr[w]
           u == thr'[w]
           o == t.obj
<1>1. /\ o \in Objects /\ Good(heap) /\ t \in Thread
      /\ t.links \subseteq Allocated(heap)
  BY DEF PhantomizeNode, PhantomizeLink, PhantomizeComplete, At, Ready,
         ObjectPCs, ThreadOK
<1>2. GoesOn(t, u)
  <2>1. ASSUME NEW pc, NEW ls, \/ u = [t EXCEPT !.pc = pc]
                               \/ u = [t EXCEPT !.pc = pc, !.links = ls]
                               \/ u = [t EXCEPT !.links = ls]
        PROVE  GoesOn(t, u)
    <3>1. u.obj = t.obj /\ u.task = t.task /\ u.list = t.list
      BY <1>1, <2>1 DEF Thread
    <3> QED
      BY <3>1, GoOn
  <2>2. CASE PhantomizeNode(w)
    <3>1. \/ u = [t EXCEPT !.pc = "phantomize_links", !.links = LinksOf(heap, o)]
          \/ u = [t EXCEPT !.pc = "phantomized"]
      BY <2>2 DEF PhantomizeNode, Ready
    <3> QED
      BY <2>1, <3>1
  <2>3. CASE \E l \in Links : PhantomizeLink(w, l)
    <3>1. PICK l \in Links : PhantomizeLink(w, l)
      BY <2>3
    <3>2. u = [t EXCEPT !.links = t.links \ {l}]
      BY <3>1 DEF PhantomizeLink, Ready
    <3> QED
      BY <2>1, <3>2
  <2>4. CASE PhantomizeComplete(w)
    <3>1. u = [t EXCEPT !.pc = "phantomized"]
      BY <2>4 DEF PhantomizeComplete, Goto, Ready
    <3> QED
      BY <2>1, <3>1
  <2> QED
    BY <2>2, <2>3, <2>4
<1>3. CASE PhantomizeNode(w)
  <2>1. heap' = object_phantomize_node(heap, o)
    BY <1>3 DEF PhantomizeNode, Become
  <2>2. Stays(heap, heap', {})
    BY <1>1, <2>1, PhantomizeNodeStays
  <2> QED
    BY <1>2, <2>2, WorkerOwners DEF Parts
<1>4. ASSUME NEW l \in Links, PhantomizeLink(w, l)
      PROVE  Parts(heap, heap')
  <2> DEFINE src == heap.obj[heap.link[l].src]
             h1  == assert(heap, heap.obj[o].phantomized, "object_phantomize_node:222")
             h2  == assert(h1, src.phantomized, "object_phantomize_node:224")
             h3  == assert(h2, src.collector # NULL, "object_phantomize_node:225")
  <2>1. /\ CanCreate(heap) /\ l \in Allocated(heap)
        /\ heap' = IF heap.link[l].phantomized THEN h1 ELSE link_phantomize(h3, l)
    BY <1>1, <1>4 DEF PhantomizeLink, Become
  <2>2. "object_phantomize_node:222" \in Failures
    BY DEF Failures
  <2>3. "object_phantomize_node:224" \in Failures
    BY DEF Failures
  <2>4. "object_phantomize_node:225" \in Failures
    BY DEF Failures
  <2>5. Stays(heap, h1, {}) /\ Keeps(heap, h1)
    BY <1>1, <2>2, AssertStays
  <2> HIDE DEF h1, src
  <2>6. Stays(h1, h2, {}) /\ Keeps(h1, h2)
    BY <2>3, <2>5, AssertStays DEF Keeps
  <2> HIDE DEF h2
  <2>7. Stays(h2, h3, {}) /\ Keeps(h2, h3)
    BY <2>4, <2>6, AssertStays DEF Keeps
  <2> HIDE DEF h3
  <2>8. Stays(heap, h3, {}) /\ Keeps(heap, h3)
    BY <1>1, <2>5, <2>6, <2>7, StaysTrans DEF Keeps, SameUsed
  <2>9. CASE heap.link[l].phantomized
    BY <2>1, <2>5, <2>9 DEF Parts
  <2>10. CASE ~heap.link[l].phantomized
    <3>1. Good(h3) /\ l \in Allocated(h3) /\ CanCreate(h3)
      BY <2>1, <2>8 DEF Keeps, SameUsed, CanCreate
    <3>2. Stays(h3, link_phantomize(h3, l), {}) /\ Good(link_phantomize(h3, l))
      BY <3>1, LinkPhantomizeStays, LinkPhantomizeGood
    <3> QED
      BY <1>1, <2>1, <2>8, <2>10, <3>1, <3>2, StaysTrans DEF Parts
  <2> QED
    BY <2>9, <2>10
<1>5. CASE PhantomizeComplete(w)
  <2> DEFINE r == [heap.obj[o] EXCEPT !.phantomization_complete = TRUE]
  <2>1. heap \in HeapType /\ heap.obj[o] \in Object
    BY <1>1 DEF Good, HeapType
  <2>2. heap' = [heap EXCEPT !.obj[o] = r] /\ r.collector = heap.obj[o].collector
    BY <1>5, <2>1 DEF PhantomizeComplete, Become, Object
  <2> HIDE DEF r
  <2>3. SameOwners(heap, heap')
    BY <2>1, <2>2 DEF SameOwners, HeapType
  <2> QED
    BY <1>2, <2>3, CalmParts, WorkerOwners
<1> QED
  BY <1>2, <1>3, <1>4, <1>5, WorkerOwners

\* A node that has been followed to its collector, and is no phantom any more
\* (object.c:271-294).
LEMMA RecoveredStays ==
  ASSUME IInv, NEW w \in Workers, Ready(w), thr[w].obj \in Objects,
         NEW h, Good(h), Stays(heap, h, {}), Recovered(w, h)
  PROVE  Parts(heap, heap') /\ GoesOn(thr[w], thr'[w])
<1> DEFINE t == thr[w]
           o == t.obj
           P == h.obj[o].phantomization_complete
           k == assert(h, P, "object_recover_node:289")
           g == [k EXCEPT !.obj[o].phantomized = FALSE]
<1>1. heap' = g /\ thr'[w] = [t EXCEPT !.pc = "rebuild_links", !.keys = KeysOf(h, o)]
  BY DEF Recovered, Become, Ready
<1>2. GoesOn(t, thr'[w])
  <2>1. thr'[w].obj = t.obj /\ thr'[w].task = t.task /\ thr'[w].list = t.list
    BY <1>1 DEF Ready, Thread
  <2> QED
    BY <2>1, GoOn
<1>3. "object_recover_node:289" \in Failures
  BY DEF Failures
<1> HIDE DEF P
<1>4. Stays(h, k, {}) /\ Good(k)
  BY <1>3, AssertStays DEF Keeps
<1> HIDE DEF k
<1>5. Good(g)
  BY <1>4, PhantomizedGood DEF Keeps
<1>6. SameOwners(k, g)
  BY <1>4 DEF SameOwners, Good, HeapType, Object
<1> HIDE DEF g
<1>7. Stays(k, g, {}) /\ Good(heap)
  BY <1>4, <1>5, <1>6, SameStays DEF Ready
<1>8. Stays(heap, k, {})
  BY <1>4, <1>7, StaysTrans
<1>9. Stays(heap, g, {})
  BY <1>4, <1>5, <1>7, <1>8, StaysTrans
<1> QED
  BY <1>1, <1>2, <1>9 DEF Parts

\* object_recover_node (object.c:271-300).
LEMMA RecoverOwners ==
  ASSUME IInv, IInv', CInv', NEW w \in Workers, Workers = {w}, OInv, Ready(w),
         RecoverNode(w) \/ AwaitPhantomization(w)
  PROVE  OInv'
<1> DEFINE t == thr[w]
           u == thr'[w]
           o == t.obj
           h == FollowCollector(heap, o)
           P == h.obj[o].count[Flip(h.obj[o].which)] = 0
           k == assert(h, P, "object_recover_node:298")
<1>1. o \in Objects /\ Good(heap) /\ t \in Thread
  BY DEF RecoverNode, AwaitPhantomization, At, Ready, ObjectPCs
<1>2. CASE AwaitPhantomization(w)
  <2>1. Recovered(w, heap) /\ Stays(heap, heap, {})
    BY <1>1, <1>2, SelfStays DEF AwaitPhantomization
  <2> QED
    BY <1>1, <2>1, RecoveredStays, WorkerOwners
<1>3. Good(h) /\ Stays(heap, h, {})
  BY <1>1, FollowGood, FollowStays DEF Keeps
<1>4. CASE Recovered(w, h)
  <2> HIDE DEF h
  <2> QED
    BY <1>1, <1>3, <1>4, RecoveredStays, WorkerOwners
<1>5. ASSUME NEW pc, Goto(w, pc)
      PROVE  GoesOn(t, u)
  <2>1. u = [t EXCEPT !.pc = pc]
    BY <1>5 DEF Goto, Ready
  <2>2. u.obj = t.obj /\ u.task = t.task /\ u.list = t.list
    BY <1>1, <2>1 DEF Thread
  <2> QED
    BY <2>2, GoOn
<1>6. CASE Become(h) /\ Goto(w, "await")
  <2>1. Stays(heap, heap', {})
    BY <1>3, <1>6 DEF Become
  <2> QED
    BY <1>5, <1>6, <2>1, WorkerOwners DEF Parts
<1>7. "object_recover_node:298" \in Failures
  BY DEF Failures
<1>8. CASE Become(k) /\ Goto(w, "rebuild_links")
  <2> HIDE DEF h, P
  <2>1. Stays(h, k, {}) /\ Good(k)
    BY <1>3, <1>7, AssertStays DEF Keeps
  <2> HIDE DEF k
  <2>2. Stays(heap, k, {})
    BY <1>1, <1>3, <2>1, StaysTrans
  <2>3. Stays(heap, heap', {})
    BY <1>8, <2>2 DEF Become
  <2> QED
    BY <1>5, <1>8, <2>3, WorkerOwners DEF Parts
<1>9. RecoverNode(w) =>
        \/ Recovered(w, h)
        \/ Become(h) /\ Goto(w, "await")
        \/ Become(k) /\ Goto(w, "rebuild_links")
  BY DEF RecoverNode
<1> HIDE DEF h, k
<1> QED
  BY <1>2, <1>4, <1>6, <1>8, <1>9

\* Rebuilding the links of a node (object.c:302-324 and 245-268).
LEMMA RebuildOwners ==
  ASSUME IInv, IInv', CInv', NEW w \in Workers, Workers = {w}, OInv, Ready(w),
         (\E f \in Fields : RebuildGet(w, f)) \/ RebuildLink(w)
  PROVE  OInv'
<1> DEFINE t == thr[w]
           u == thr'[w]
<1>1. /\ Good(heap) /\ t \in Thread /\ heap.failed = "none" /\ ThreadOK(heap, t)
  BY DEF Ready
<1>2. ASSUME NEW f \in Fields, RebuildGet(w, f)
      PROVE  OInv'
  <2> DEFINE l  == heap.obj[t.obj].links[f]
             lk == IF l # NULL THEN l ELSE t.lk
             ks == t.keys \ {f}
             P  == lk # NULL
  <2>1. /\ heap' = assert(heap, P, "object_recover_node:306")
        /\ u = [t EXCEPT !.pc = "rebuild_link", !.keys = ks, !.lk = lk]
    BY <1>2 DEF RebuildGet, Become, Ready
  <2> HIDE DEF P, lk, ks
  <2>2. u.obj = t.obj /\ u.task = t.task /\ u.list = t.list
    BY <1>1, <2>1 DEF Thread
  <2>3. "object_recover_node:306" \in Failures
    BY DEF Failures
  <2>4. Stays(heap, heap', {})
    BY <1>1, <2>1, <2>3, AssertStays
  <2> QED
    BY <2>2, <2>4, GoOn, WorkerOwners DEF Parts
<1>3. CASE RebuildLink(w)
  <2> DEFINE l == t.lk
             x == heap.link[l].target
  <2>1. /\ t.pc = "rebuild_link" /\ heap' = object_rebuild_link(heap, Mine(w), l)
        /\ u = [t EXCEPT !.pc = "rebuild_links"]
    BY <1>3 DEF RebuildLink, At, Become, Goto, Ready
  <2>2. Mine(w) \in Collectors /\ l \in Allocated(heap)
    BY <1>1, <2>1 DEF Ready, CollectorPCs, PCs, ThreadOK
  <2>3. u.obj = t.obj /\ u.task = t.task /\ u.list = t.list
    BY <1>1, <2>1 DEF Thread
  <2>4. x \in Objects
    BY <1>1, <2>2 DEF Good, UsedOK, LinksOK, Known
  <2>5. Loses(heap, heap', x)
    BY <1>1, <2>1, <2>2, RebuildLinkLoses
  <2> QED
    BY <2>3, <2>4, <2>5, GoOn, WorkerOwners DEF Parts
<1> QED
  BY <1>2, <1>3

\* Looking at a node's counts (object.c:311-316 and 328-339).
LEMMA LookOwners ==
  ASSUME IInv, IInv', CInv', NEW w \in Workers, Workers = {w}, OInv, Ready(w),
         RecoverEnd(w) \/ CleanNode(w)
  PROVE  OInv'
<1> DEFINE t == thr[w]
           u == thr'[w]
           o == t.obj
           P == heap.obj[o].count[Phantom] = 0 => heap.obj[o].collector = NULL
           Q == heap.obj[o].count[0] >= 0 /\ heap.obj[o].count[1] >= 0
           h == assert(heap, P, "object_recover_node:314")
           k == assert(heap, Q, "object_clean_node:332")
<1>1. Good(heap) /\ t \in Thread
  BY DEF Ready
<1>2. RecoverEnd(w) =>
        /\ heap' = h
        /\ \/ u = [t EXCEPT !.pc = "recovered"]
           \/ u = [t EXCEPT !.pc = t.list, !.obj = NULL, !.lk = NULL]
  BY DEF RecoverEnd, NextObject, Become, Goto, Ready
<1>3. CleanNode(w) =>
        /\ heap' = k
        /\ \/ u = [t EXCEPT !.pc = "dec_phantom"]
           \/ u = [t EXCEPT !.pc = "remove_links"]
  BY DEF CleanNode, Become, Goto, Ready
<1>4. "object_recover_node:314" \in Failures
  BY DEF Failures
<1>5. "object_clean_node:332" \in Failures
  BY DEF Failures
<1> HIDE DEF P, Q
<1>6. Stays(heap, h, {}) /\ Stays(heap, k, {})
  BY <1>1, <1>4, <1>5, AssertStays
<1> HIDE DEF h, k
<1>7. u.obj = NULL \/ (u.obj = t.obj /\ u.task = t.task /\ u.list = t.list)
  BY <1>1, <1>2, <1>3 DEF Thread
<1> QED
  BY <1>2, <1>3, <1>6, <1>7, GoOn, WorkerOwners DEF Parts

\* The worker lists a node again that it took from a list of its collector
\* (collector.c:99-120), or is done with it (object.c:140-160).
LEMMA NextListOwners ==
  ASSUME IInv, IInv', CInv', NEW w \in Workers, Workers = {w}, OInv, Ready(w),
         ToRecovery(w) \/ ToClean(w) \/ DecPhantom(w)
  PROVE  OInv'
<1> DEFINE t == thr[w]
           u == thr'[w]
           o == t.obj
           c == Mine(w)
<1>1. /\ Good(heap) /\ t \in Thread /\ o \in Objects /\ o \in Known(heap)
      /\ t.list \in {"collect", "recovery_list", "clean_list"}
      /\ c \in Collectors /\ t.task.run = "collector_run"
  BY DEF ToRecovery, ToClean, DecPhantom, At, Ready, ListFits, ObjectPCs,
         CollectorPCs, PCs
<1>2. Owner(heap, o, c)
  <2>1. Carries(t, o)
    BY <1>1 DEF Carries
  <2> QED
    BY <1>1, <2>1 DEF OInv, OwnersOK, Mine
<1>3. u = [t EXCEPT !.pc = t.list, !.obj = NULL, !.lk = NULL]
  BY DEF ToRecovery, ToClean, DecPhantom, NextObject, Ready
<1>4. u.obj = NULL
  BY <1>1, <1>3 DEF Thread
<1>5. CASE DecPhantom(w)
  <2>1. heap' = object_dec_phantom(heap, o)
    BY <1>5 DEF DecPhantom, NextObject, Become
  <2>2. Loses(heap, heap', o)
    BY <1>1, <2>1, DecPhantomLoses
  <2> QED
    BY <1>1, <1>4, <2>2, GoOn, WorkerOwners DEF Parts
<1>6. CASE ToRecovery(w) \/ ToClean(w)
  <2>1. PICK n \in {"recovery_list", "clean_list"} : heap' = safelist_add(heap, c, n, o)
    BY <1>6 DEF ToRecovery, ToClean, NextObject, Become
  <2>2. n \in ListNames
    BY DEF ListNames
  <2> HIDE DEF c, o
  <2>3. Stays(heap, heap', {})
    BY <1>1, <1>2, <2>1, <2>2, SafelistAddStays
  <2> QED
    BY <1>4, <2>3, GoOn, WorkerOwners DEF Parts
<1> QED
  BY <1>5, <1>6

\* Emptying a table, dropping its links and freeing the object (object.c:63-98
\* and 108-114, link.c:28-37).
LEMMA CleanOwners ==
  ASSUME IInv, IInv', CInv', TInv, NEW w \in Workers, Workers = {w}, OInv,
         Ready(w),
         \/ RemoveLinks(w)
         \/ \E l \in Links : DestroyLink(w, l)
         \/ ObjectDel(w)
  PROVE  OInv'
<1> DEFINE t == thr[w]
           u == thr'[w]
           o == t.obj
<1>1. /\ o \in Objects /\ o \in Known(heap) /\ Good(heap) /\ t \in Thread
      /\ t.links \subseteq Allocated(heap)
  BY DEF RemoveLinks, DestroyLink, ObjectDel, At, Ready, ObjectPCs, ThreadOK
<1>2. ASSUME NEW pc, NEW ls, u = [t EXCEPT !.pc = pc, !.links = ls]
      PROVE  GoesOn(t, u)
  <2>1. u.obj = t.obj /\ u.task = t.task /\ u.list = t.list
    BY <1>1, <1>2 DEF Thread
  <2> QED
    BY <2>1, GoOn
<1>3. CASE RemoveLinks(w)
  <2>1. heap' = object_remove_links(heap, o)
    BY <1>3 DEF RemoveLinks, Become
  <2>2. Stays(heap, heap', {})
    BY <1>1, <2>1, RemoveLinksStays
  <2>3. u = [t EXCEPT !.pc = IF LinksOf(heap, o) = {} THEN AfterLinks(w)
                             ELSE "destroy_links",
                      !.links = LinksOf(heap, o)]
    BY <1>3 DEF RemoveLinks, Ready
  <2> QED
    BY <1>2, <2>2, <2>3, WorkerOwners DEF Parts
<1>4. ASSUME NEW l \in Links, DestroyLink(w, l)
      PROVE  OInv'
  <2> DEFINE x  == heap.link[l].target
             pc == IF t.links = {l} THEN AfterLinks(w) ELSE t.pc
  <2>1. /\ heap' = link_destroy(heap, l) /\ l \in Allocated(heap)
        /\ CanCreate(heap)
    BY <1>1, <1>4 DEF DestroyLink, Become
  <2>2. u = [t EXCEPT !.pc = pc, !.links = t.links \ {l}]
    BY <1>4 DEF DestroyLink, Ready
  <2>3. x \in Objects
    BY <1>1, <2>1 DEF Good, UsedOK, LinksOK, Known
  <2>4. Loses(heap, heap', x)
    BY <1>1, <2>1, LinkDestroyLoses
  <2> QED
    BY <1>2, <2>2, <2>3, <2>4, WorkerOwners DEF Parts
<1>5. CASE ObjectDel(w)
  <2>1. t.pc = "delete" /\ heap' = object_del(heap, o) /\ u = IdleThread
    BY <1>5 DEF ObjectDel, Done, At, Become, Ready
  <2>2. t.task.run = "request_delete"
    BY <2>1 DEF TInv, OwnTask
  <2>3. Zero(heap, o)
    BY <1>1, <2>2 DEF Ready, DeadOK, Deletes
  <2>4. Loses(heap, heap', o)
    BY <1>1, <2>1, <2>3, ObjectDelLoses
  <2>5. u.obj = NULL
    BY <2>1 DEF IdleThread
  <2> QED
    BY <1>1, <2>4, <2>5, GoOn, WorkerOwners DEF Parts
<1> QED
  BY <1>3, <1>4, <1>5

-----------------------------------------------------------------------------
(* Who lists an object *)

\* No step puts an object into the lists of a collector that it does not point
\* to.
LEMMA NextOwners ==
  ASSUME NEW me, Workers = {me}, IInv, TInv, CInv, OInv, IInv', CInv',
         [Next /\ Careful]_vars
  PROVE  OInv'
<1>1. CASE UNCHANGED vars
  BY <1>1 DEF vars, OInv
<1>2. CASE Next /\ Careful
  <2>1. Running /\ me \in Workers
    BY <1>2 DEF Next
  <2>2. CASE MutatorNext
    <3>1. thr' = thr
      BY <2>2 DEF MutatorNext, acid_malloc, acid_harden, acid_dissolve, acid_set,
                  object_set_null, object_set, object_set_cleanup
    <3> QED
      BY <2>1, <2>2, <3>1, ProgramFacts, ProgramParts, ProgramOwners
  <2>3. CASE WorkerNext(me)
    <3>1. thr[me].pc # "idle" \/ heap.work # <<>>
      BY <2>3
         DEF WorkerNext, worker_get_next_task, CollectorWaits, CollectorStarts,
             DrainMerged, PollObject, PollNothing, CollectorFinishes,
             PhantomizeNode, PhantomizeLink, PhantomizeComplete, ToRecovery,
             RecoverNode, AwaitPhantomization, RebuildGet, RebuildLink, RecoverEnd,
             ToClean, CleanNode, RemoveLinks, DestroyLink, DecPhantom, ObjectDel,
             Draining, Handler, At
    <3>2. Ready(me)
      BY <2>1, <3>1, Facts
    <3>3. CASE worker_get_next_task(me) \/ CollectorWaits(me) \/ CollectorStarts(me)
                 \/ DrainMerged(me) \/ PollObject(me) \/ PollNothing(me)
                 \/ CollectorFinishes(me)
      BY <2>1, <3>2, <3>3, TaskOwners, BetweenListsOwners, PollOwners, FinishOwners
         DEF CollectorWaits
    <3>4. CASE PhantomizeNode(me) \/ (\E l \in Links : PhantomizeLink(me, l))
                 \/ PhantomizeComplete(me)
      BY <2>1, <3>2, <3>4, PhantomizeOwners
    <3>5. CASE RecoverNode(me) \/ AwaitPhantomization(me)
                 \/ (\E f \in Fields : RebuildGet(me, f)) \/ RebuildLink(me)
                 \/ RecoverEnd(me) \/ CleanNode(me)
      BY <2>1, <3>2, <3>5, RecoverOwners, RebuildOwners, LookOwners
    <3>6. CASE ToRecovery(me) \/ ToClean(me) \/ DecPhantom(me) \/ RemoveLinks(me)
                 \/ (\E l \in Links : DestroyLink(me, l)) \/ ObjectDel(me)
      BY <2>1, <3>2, <3>6, NextListOwners, CleanOwners
    <3> QED
      BY <2>3, <3>3, <3>4, <3>5, <3>6 DEF WorkerNext
  <2> QED
    BY <1>2, <2>1, <2>2, <2>3 DEF Next
<1> QED
  BY <1>1, <1>2

\* At first nothing is listed.
LEMMA InitOwners == Init => OInv
<1> SUFFICES ASSUME Init, NEW w \in Workers
             PROVE  OwnersOK(heap, thr[w])
  BY DEF OInv
<1>1. heap.coll = [c \in Collectors |-> NoCollector] /\ thr[w] = IdleThread
  BY DEF Init, EmptyHeap
<1>2. \A c \in Collectors, n \in ListNames : heap.coll[c].lists[n] = <<>>
  BY <1>1 DEF NoCollector
<1>3. \A o \in Objects, c \in Collectors : ~ListedBy(heap, o, c)
  BY <1>2 DEF ListedBy, InLists, In
<1>4. \A o \in Objects : ~Carries(thr[w], o)
  BY <1>1, HeapAssumption DEF IdleThread, Carries
<1> QED
  BY <1>3, <1>4 DEF OwnersOK

\* An object is listed by the collector that its own pointer leads to, merges
\* included: what a collector works on is its own (collector.c:60-81,
\* object.c:354-406).
THEOREM ListedByOwner ==
  ASSUME NEW CONSTANT me, Workers = {me}
  PROVE  CarefulSpec => []OwnedByLister
<1>1. Init => OInv
  BY InitOwners
<1>2. /\ IInv /\ TInv /\ CInv /\ OInv
      /\ (IInv /\ TInv /\ CInv)'
      /\ [Next /\ Careful]_vars
      => OInv'
  BY NextOwners
<1>3. IInv /\ TInv /\ CInv /\ OInv => OwnedByLister
  <2> SUFFICES ASSUME IInv, TInv, OInv,
                      NEW c \in Collectors, NEW n \in ListNames \ {"rebuild_list"},
                      NEW i \in DOMAIN heap.coll[c].lists[n]
               PROVE  LET owner == heap.obj[heap.coll[c].lists[n][i]].collector
                      IN  owner # NULL /\ collector_update(heap, owner) = c
    BY DEF OwnedByLister
  <2> DEFINE o == heap.coll[c].lists[n][i]
  <2>1. me \in Workers /\ Good(heap) /\ Stored(heap)
    BY DEF IInv, TInv
  <2>2. o \in Objects
    BY <2>1 DEF Good, HeapType, Collector
  <2>3. heap.coll[c].lists[n] # <<>>
    OBVIOUS
  <2>4. heap.coll[c].forward = NULL
    BY <2>1, <2>3 DEF Stored, store_count_zero
  <2> HIDE DEF o
  <2>5. ListedBy(heap, o, c)
    BY DEF ListedBy, InLists, In, o
  <2>6. Owner(heap, o, c)
    BY <2>1, <2>2, <2>5 DEF OInv, OwnersOK
  <2>7. collector_update(heap, c) = c
    BY <2>4 DEF collector_update
  <2> QED
    BY <2>6, <2>7 DEF Owner, Together, o
<1> QED
  BY <1>1, <1>2, <1>3, CarefulInvariant, PTL DEF CarefulSpec

=============================================================================
