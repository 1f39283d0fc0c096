-------------------------------- MODULE Seqs --------------------------------
(***************************************************************************)
(* What the comments of lib/collectc/list.c promise: sequences, what each  *)
(* call does to them, and iterators that know how far they have come.  A   *)
(* call that finds no memory says so and changes nothing.                  *)
(***************************************************************************)
EXTENDS Integers, FiniteSets, SequencesExt

CONSTANTS
  Handles, Elements, Rank, Keep, Copy, NULL,   \* as in module Lists
  Places      \* the indices that calls are given

VARIABLES
  seq,    \* the sequence of each list, or NULL where there is none
  walk,   \* the iterator: its lists, how many elements of each lie before
          \* what it returns next, and the place of what it returned last
  ans     \* the last call, its status and its output, or NULL

Returns(call, stat, out) ==
  ans = NULL /\ ans' = [call |-> call, stat |-> stat, out |-> out]

Same == UNCHANGED <<seq, walk>>

\* The call leaves s in list l.
Leaves(call, l, s, out) ==
  /\ Returns(call, "CC_OK", out)
  /\ seq' = [seq EXCEPT ![l] = s] /\ UNCHANGED walk

NoMemory == \E call \in {ans'.call} : Returns(call, "CC_ERR_ALLOC", NULL) /\ Same

Inserted(s, i, t) == SubSeq(s, 1, i) \o t \o SubSeq(s, i + 1, Len(s))
First(s, e) == SelectInSeq(s, LAMBDA x : x = e)
Ordered(s) == \A i \in DOMAIN s : i > 1 => Rank[s[i - 1]] <= Rank[s[i]]
OfRank(s, r) == SelectSeq(s, LAMBDA e : Rank[e] = r)
Kept(s) == SelectSeq(s, LAMBDA e : e \in Keep)

\* Calls about list l, which is s, with an element e and an index i from 0.
One(l, s, e, i) ==
  \/ Leaves(<<"add_first", l, e>>, l, <<e>> \o s, NULL)
  \/ Leaves(<<"add_last", l, e>>, l, Append(s, e), NULL)
  \/ i < Len(s) /\ Leaves(<<"add_at", l, e, i>>, l, Inserted(s, i, <<e>>), NULL)
  \/ /\ i < Len(s)
     /\ Leaves(<<"replace_at", l, e, i>>, l, [s EXCEPT ![i + 1] = e], s[i + 1])
  \/ i < Len(s) /\ Leaves(<<"remove_at", l, i>>, l, RemoveAt(s, i + 1), s[i + 1])
  \/ First(s, e) # 0 /\ Leaves(<<"remove", l, e>>, l, RemoveAt(s, First(s, e)), e)
  \/ s # <<>> /\ Leaves(<<"remove_first", l>>, l, Tail(s), Head(s))
  \/ s # <<>> /\ Leaves(<<"remove_last", l>>, l, Front(s), Last(s))
  \/ s # <<>> /\ Leaves(<<"remove_all", l>>, l, <<>>, NULL)
  \/ Leaves(<<"destroy", l>>, l, NULL, NULL)
  \/ Leaves(<<"reverse", l>>, l, Reverse(s), NULL)
  \/ s # <<>> /\ Leaves(<<"filter_mut", l>>, l, Kept(s), NULL)

\* A sorted list holds the same elements; in place, equal ones keep their order.
Sort(l, s, t) ==
  /\ Ordered(t)
  /\ \/ ToBag(t) = ToBag(s) /\ s # <<>> /\ Leaves(<<"sort", l>>, l, t, NULL)
     \/ /\ \A r \in {Rank[e] : e \in Elements} : OfRank(t, r) = OfRank(s, r)
        /\ Leaves(<<"sort_in_place", l>>, l, t, NULL)

\* Calls about l, which is s, and m, which is t, at index i of l.
Two(l, s, m, t, i) ==
  \/ Leaves(<<"add_all", l, m>>, l, s \o t, NULL)
  \/ i <= Len(s) /\ Leaves(<<"add_all_at", l, m, i>>, l, Inserted(s, i, t), NULL)
  \/ /\ i <= Len(s)
     /\ Returns(<<"splice_at", l, m, i>>, "CC_OK", NULL)
     /\ seq' = [seq EXCEPT ![l] = Inserted(s, i, t), ![m] = <<>>]
     /\ UNCHANGED walk
  \/ /\ t = <<>> /\ i > Len(s)
     /\ \E fn \in {"add_all_at", "splice_at"} :
          Returns(<<fn, l, m, i>>, "CC_OK", NULL)
     /\ Same

\* Calls that make list m of l, which is s.  list_filter does not notice that
\* memory runs out, and what it makes may end early.
Make(l, s, m) ==
  \/ Leaves(<<"copy_shallow", l, m>>, m, s, NULL)
  \/ Leaves(<<"copy_deep", l, m>>, m, [i \in DOMAIN s |-> Copy[s[i]]], NULL)
  \/ /\ s # <<>>
     /\ \E n \in 0 .. Len(Kept(s)) :
          Leaves(<<"filter", l, m>>, m, SubSeq(Kept(s), 1, n), NULL)
  \/ \E b, e \in 0 .. Len(s) - 1 :
       b <= e /\ Leaves(<<"sublist", l, m, b, e>>, m, SubSeq(s, b + 1, e + 1), NULL)

\* Calls that find nothing where they are told to look.
Miss(l, s, m, e, i) ==
  /\ Same
  /\ \/ i >= Len(s) /\ \E call \in {<<"add_at", l, e, i>>, <<"replace_at", l, e, i>>,
                                    <<"remove_at", l, i>>} :
          Returns(call, "CC_ERR_OUT_OF_RANGE", NULL)
     \/ i > Len(s) /\ seq[m] # NULL /\ seq[m] # <<>> /\
          \E fn \in {"add_all_at", "splice_at"} :
            Returns(<<fn, l, m, i>>, "CC_ERR_OUT_OF_RANGE", NULL)
     \/ First(s, e) = 0 /\ Returns(<<"remove", l, e>>, "CC_ERR_VALUE_NOT_FOUND", NULL)
     \/ s = <<>> /\ \E fn \in {"remove_first", "remove_last", "remove_all"} :
          Returns(<<fn, l>>, "CC_ERR_VALUE_NOT_FOUND", NULL)
     \/ s = <<>> /\ \E call \in {<<"filter_mut", l>>, <<"filter", l, m>>} :
          Returns(call, "CC_ERR_OUT_OF_RANGE", NULL)
     \/ s = <<>> /\ Returns(<<"sort", l>>, "CC_ERR_INVALID_RANGE", NULL)

MissRange(l, s, m, b, e) ==
  /\ b > e \/ e >= Len(s)
  /\ Returns(<<"sublist", l, m, b, e>>, "CC_ERR_INVALID_RANGE", NULL) /\ Same

-----------------------------------------------------------------------------
(* Iterators *)

Started(call, kind, over) ==
  /\ walk = NULL /\ Returns(call, "CC_OK", NULL) /\ UNCHANGED seq
  /\ walk' = [kind |-> kind, over |-> over,
              pos |-> [k \in DOMAIN over |->
                         IF kind = "down" THEN Len(seq[over[k]]) ELSE 0],
              cur |-> [k \in DOMAIN over |-> 0]]

\* The place in its k-th list of what the iterator returns next, or 0.
Ahead(k) ==
  IF walk.kind = "down" THEN walk.pos[k]
  ELSE IF walk.pos[k] < Len(seq[walk.over[k]]) THEN walk.pos[k] + 1 ELSE 0

Here(place) == [k \in DOMAIN walk.over |-> seq[walk.over[k]][place[k]]]

Step ==
  /\ UNCHANGED seq
  /\ LET place == [k \in DOMAIN walk.over |-> Ahead(k)]
     IN  IF \E k \in DOMAIN place : place[k] = 0
         THEN Returns(<<"next">>, "CC_ITER_END", NULL) /\ walk' = NULL
         ELSE /\ Returns(<<"next">>, "CC_OK", Here(place))
              /\ walk' = [walk EXCEPT !.cur = place,
                   !.pos = [k \in DOMAIN place |->
                     IF walk.kind = "down" THEN place[k] - 1 ELSE place[k]]]

\* New sequences of the iterator's lists, each made by its number.
Changed(Of(_)) ==
  seq' = [l \in Handles |->
            IF \E k \in DOMAIN walk.over : walk.over[k] = l
            THEN Of(CHOOSE k \in DOMAIN walk.over : walk.over[k] = l)
            ELSE seq[l]]

At(k) == seq[walk.over[k]]
Returned == \A k \in DOMAIN walk.cur : walk.cur[k] # 0
By(n) == [k \in DOMAIN walk.pos |-> walk.pos[k] + n]

RemoveHere ==
  /\ Returned
  /\ Returns(<<"iter_remove">>, "CC_OK", Here(walk.cur))
  /\ Changed(LAMBDA k : RemoveAt(At(k), walk.cur[k]))
  /\ walk' = [walk EXCEPT !.cur = [k \in DOMAIN @ |-> 0],
                          !.pos = IF walk.kind = "down" THEN @ ELSE By(-1)]

ReplaceHere(es) ==
  /\ Returned
  /\ Returns(<<"iter_replace", es>>, "CC_OK", Here(walk.cur))
  /\ Changed(LAMBDA k : [At(k) EXCEPT ![walk.cur[k]] = es[k]])
  /\ UNCHANGED walk

\* Upwards, between what was returned last and what comes next; downwards,
\* before what was returned last, and it now stands for that.
AddHere(es) ==
  /\ Returned
  /\ Returns(<<"iter_add", es>>, "CC_OK", NULL)
  /\ IF walk.kind = "down"
     THEN /\ Changed(LAMBDA k : Inserted(At(k), walk.cur[k] - 1, <<es[k]>>))
          /\ UNCHANGED walk
     ELSE /\ Changed(LAMBDA k : Inserted(At(k), walk.cur[k], <<es[k]>>))
          /\ walk' = [walk EXCEPT !.pos = By(1)]

MissHere ==
  /\ ~Returned
  /\ \E call \in {ans'.call} : call[1] \in {"iter_remove", "iter_replace"}
       /\ Returns(call, "CC_ERR_VALUE_NOT_FOUND", NULL)
  /\ Same

Pairs == {<<e>> : e \in Elements} \cup {<<e, f>> : e, f \in Elements}

-----------------------------------------------------------------------------
Init == seq = [l \in Handles |-> NULL] /\ walk = NULL /\ ans = NULL

Answered == ans # NULL /\ ans' = NULL /\ Same

Call ==
  /\ ans = NULL /\ ans' # NULL
  /\ \/ NoMemory
     \/ \E l \in Handles :
          \/ seq[l] = NULL /\ Leaves(<<"new", l>>, l, <<>>, NULL)
          \/ /\ walk = NULL /\ seq[l] # NULL
             /\ LET s == seq[l] n == Places
                IN \/ \E e \in Elements, i \in n : One(l, s, e, i)
                   \/ Sort(l, s, seq'[l])
                   \/ \E m \in Handles :
                        \/ seq[m] # NULL /\ \E i \in n : Two(l, s, m, seq[m], i)
                        \/ seq[m] = NULL /\ Make(l, s, m)
                        \/ \E e \in Elements, i \in n : Miss(l, s, m, e, i)
                        \/ seq[m] = NULL /\ \E b, e \in n : MissRange(l, s, m, b, e)
          \/ Started(<<"up", l>>, "up", <<l>>)
          \/ Started(<<"down", l>>, "down", <<l>>)
          \/ \E m \in Handles \ {l} : Started(<<"zip", l, m>>, "zip", <<l, m>>)
     \/ /\ walk # NULL
        /\ \/ Step \/ RemoveHere \/ MissHere
           \/ \E es \in Pairs : ReplaceHere(es) \/ AddHere(es)

Next == Answered \/ Call

Spec == Init /\ [][Next]_<<seq, walk, ans>>
=============================================================================
