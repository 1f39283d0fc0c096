---------------------------- MODULE MCCollectors ----------------------------
(***************************************************************************)
(* Collectors, for TLC: two objects with one link or two, which the        *)
(* mutator drops, and may add the missing link to, at any moment; a ring   *)
(* of three, each of which has a collector of its own, so that merges make *)
(* chains of two forward pointers; and a fan of three, where a collector   *)
(* that ends may find that it forwards to an older one than it has locked. *)
(* o3 is made after the first collector, its id is the higher one.         *)
(***************************************************************************)
EXTENDS Collectors, TLC

CONSTANTS o1, o2, o3, c1, c2, c3, m, w1, w2

MCOrder == <<o1, o2, c1, o3, c2, c3>>

MCNesting == <<o1, o2, o3, c1, c2, c3>>

NoLists == [c \in Collectors |-> <<>>]

Pair(g) == [links |-> g @@ o3 :> {}, roots |-> {o1, o2}, lists |-> NoLists, work |-> <<>>]

Ring ==
  [links |-> o1 :> {o3} @@ o3 :> {o2} @@ o2 :> {o1}, roots |-> {},
   lists |-> c1 :> <<o1>> @@ c2 :> <<o2>> @@ c3 :> <<o3>>,
   work |-> <<c1, c2, c3>>]

Fan ==
  [links |-> o1 :> {} @@ o2 :> {} @@ o3 :> {o1, o2}, roots |-> {},
   lists |-> c1 :> <<o1>> @@ c2 :> <<o2>> @@ c3 :> <<o3>>,
   work |-> <<c2, c3, c1>>]

MCStarts ==
  {Pair(o1 :> {o2} @@ o2 :> {o1}), Pair(o1 :> {} @@ o2 :> {o1}), Ring, Fan}

MCAdds == {<<o1, o2>>}
=============================================================================
