------------------------------- MODULE MCLists -------------------------------
(***************************************************************************)
(* Lists on small instances: three elements, two of them of the same rank, *)
(* one of which the predicate drops, and a copy function that tells a      *)
(* copied list from a shared one.                                          *)
(***************************************************************************)
EXTENDS Lists, TLC

MCRank == 1 :> 1 @@ 2 :> 2 @@ 3 :> 2
MCCopy == 1 :> 1 @@ 2 :> 3 @@ 3 :> 2
MCKeep == {1, 3}

\* Which node is which does not matter: heaps whose lists are well linked and
\* whose iterator points into them differ in the names of nodes only when
\* their lists hold the same elements and the iterator is at the same places.
Typed ==
  /\ {heap.next, heap.prev} \subseteq [Nodes -> Nodes \cup {NULL}]
  /\ heap.data \in [Nodes -> Elements \cup {NULL}]
  /\ iter # NULL =>
       {iter.last, iter.next} \subseteq
         [DOMAIN iter.over -> Nodes \cup {NULL}]

Clean == \A n \in Free(heap) : heap.next[n] = NULL /\ heap.prev[n] = NULL

UpToNames ==
  IF Typed /\ WellLinked /\ IteratorLive /\ Clean
  THEN <<ans,
         [l \in Existing(heap) |-> Contents(heap, l)],
         IF iter = NULL THEN NULL ELSE <<Walk, iter.index, iter.fresh>>>>
  ELSE vars
=============================================================================
