-------------------------------- MODULE Dict --------------------------------
(***************************************************************************)
(* What lib/collectc/hashtable.h promises: a finite map from keys to       *)
(* values, changed one key at a time, that can be walked entry by entry.   *)
(* A call that cannot get memory, or finds the table at its largest, says  *)
(* so and changes nothing.                                                 *)
(***************************************************************************)
EXTENDS Naturals, FiniteSets

CONSTANTS Keys, Values, NONE

VARIABLES
  map,    \* the table, or NONE where there is none
  todo,   \* keys the iterator has yet to return, or NONE without one
  last,   \* the key it returned last, or NONE
  ans     \* the last call, its status and its output, or NONE

Returns(call, stat, out) ==
  ans = NONE /\ ans' = [call |-> call, stat |-> stat, out |-> out]

\* The call leaves the map m, and no iterator is about.
Leaves(call, m, stat, out) ==
  /\ Returns(call, stat, out)
  /\ todo = NONE /\ map' = m /\ UNCHANGED <<todo, last>>

Without(k) == [x \in DOMAIN map \ {k} |-> map[x]]
With(k, v) == [x \in DOMAIN map \cup {k} |-> IF x = k THEN v ELSE map[x]]

New ==
  /\ map = NONE
  /\ \/ Leaves(<<"new">>, <<>>, "CC_OK", NONE)
     \/ Leaves(<<"new">>, NONE, "CC_ERR_ALLOC", NONE)

Add(k, v) ==
  \/ Leaves(<<"add", k, v>>, With(k, v), "CC_OK", NONE)
  \/ \E stat \in {"CC_ERR_ALLOC", "CC_ERR_MAX_CAPACITY"} :
       Leaves(<<"add", k, v>>, map, stat, NONE)

Remove(k) ==
  IF k \in DOMAIN map
  THEN Leaves(<<"remove", k>>, Without(k), "CC_OK", map[k])
  ELSE Leaves(<<"remove", k>>, map, "CC_ERR_KEY_NOT_FOUND", NONE)

Get(k) ==
  IF k \in DOMAIN map
  THEN Leaves(<<"get", k>>, map, "CC_OK", map[k])
  ELSE Leaves(<<"get", k>>, map, "CC_ERR_KEY_NOT_FOUND", NONE)

Contains(k) ==
  Leaves(<<"contains_key", k>>, map, "CC_OK", IF k \in DOMAIN map THEN 1 ELSE 0)

\* Calls about the whole map.
Whole ==
  \/ Leaves(<<"destroy">>, NONE, "CC_OK", NONE)
  \/ Leaves(<<"remove_all">>, <<>>, "CC_OK", NONE)
  \/ Leaves(<<"size">>, map, "CC_OK", Cardinality(DOMAIN map))

Walk ==
  /\ Returns(<<"iter_init">>, "CC_OK", NONE)
  /\ todo = NONE /\ todo' = DOMAIN map /\ UNCHANGED <<map, last>>

Step ==
  /\ todo # NONE /\ UNCHANGED map
  /\ \/ /\ Returns(<<"iter_next">>, "CC_ITER_END", NONE)
        /\ todo = {} /\ todo' = NONE /\ last' = NONE
     \/ \E k \in todo :
          /\ Returns(<<"iter_next">>, "CC_OK", map[k])
          /\ todo' = todo \ {k} /\ last' = k

RemoveLast ==
  /\ todo # NONE /\ last # NONE
  /\ Returns(<<"iter_remove">>, "CC_OK", map[last])
  /\ map' = Without(last) /\ last' = NONE /\ UNCHANGED todo

Init == map = NONE /\ todo = NONE /\ last = NONE /\ ans = NONE

Answered == ans # NONE /\ ans' = NONE /\ UNCHANGED <<map, todo, last>>

Next ==
  \/ Answered \/ New
  \/ /\ map # NONE
     /\ \/ Whole \/ Walk \/ Step \/ RemoveLast
        \/ \E k \in Keys :
             \/ Get(k) \/ Remove(k) \/ Contains(k)
             \/ \E v \in Values : Add(k, v)

Spec == Init /\ [][Next]_<<map, todo, last, ans>>
=============================================================================
