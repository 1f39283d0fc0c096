------------------------------- MODULE Table -------------------------------
(***************************************************************************)
(* The hash table of lib/collectc/hashtable.c, in which an object keeps    *)
(* its links: an array of buckets that doubles when it fills, each with a  *)
(* chain of entries, newest first.  A key is a pointer, compared as such   *)
(* and hashed to itself (object.c:19 and 41-44): 0 is the null pointer,    *)
(* which is the key of a field at offset 0.                                *)
(***************************************************************************)
EXTENDS Integers, FiniteSets, SequencesExt, Bitwise

CONSTANTS
  Keys,         \* the keys a program uses, 0 among them
  Values,
  Capacities,   \* the initial capacities it asks for
  MAX_POW_TWO,  \* the largest capacity
  NONE

VARIABLES table, iter, ans

vars == <<table, iter, ans>>

NoKey == -1   \* a null pointer to an entry

-----------------------------------------------------------------------------
(* Buckets *)

round_pow_two(n) ==
  LET or_shift(m, by) == m | shiftR(m, by)
  IN  IF n >= MAX_POW_TWO THEN MAX_POW_TWO
      ELSE IF n = 0 THEN 2
      ELSE FoldLeft(or_shift, n - 1, <<1, 2, 4, 8, 16>>) + 1

\* The load factor is 0.75f, and the product is cut off to an integer.
Threshold(capacity) == (3 * capacity) \div 4

Empty(capacity) == [i \in 0 .. capacity - 1 |-> <<>>]

NewTable(initial) ==
  LET capacity == round_pow_two(initial)
  IN  [capacity |-> capacity, threshold |-> Threshold(capacity), size |-> 0,
       buckets |-> Empty(capacity)]

get_table_index(t, k) == k & (t.capacity - 1)

\* Every entry, bucket by bucket.
Entries(t) == FlattenSeq([i \in 1 .. t.capacity |-> t.buckets[i - 1]])

hashtable_foreach_key(t) == [i \in DOMAIN Entries(t) |-> Entries(t)[i].key]

\* Where an entry for k is in a chain, or 0.
Find(chain, k) == SelectInSeq(chain, LAMBDA e : e.key = k)

\* Mutant of move_entries: the index is masked with the old size.
MovedByOldMask(t, size) ==
  LET move(dest, e) ==
        [dest EXCEPT ![e.hash & (t.capacity - 1)] =
           <<e>> \o dest[e.hash & (t.capacity - 1)]]
  IN  FoldLeft(move, Empty(size), Entries(t))

move_entries(t, size) ==
  LET move(dest, e) ==
        [dest EXCEPT ![e.hash & (size - 1)] = <<e>> \o dest[e.hash & (size - 1)]]
  IN  FoldLeft(move, Empty(size), Entries(t))

resize(t, capacity) ==
  [t EXCEPT !.buckets = move_entries(t, capacity),
            !.capacity = capacity,
            !.threshold = Threshold(capacity)]

\* The value replaced in chain i, or a new entry in front of it.
Store(t, i, e) ==
  LET at == Find(t.buckets[i], e.key)
  IN  IF at # 0
      THEN [t EXCEPT !.buckets[i][at].value = e.value]
      ELSE [t EXCEPT !.buckets[i] = <<e>> \o t.buckets[i], !.size = @ + 1]

add_null_key(t, v) == Store(t, 0, [key |-> 0, value |-> v, hash |-> 0])

Added(t, k, v) ==
  IF k = 0 THEN add_null_key(t, v)
  ELSE Store(t, get_table_index(t, k), [key |-> k, value |-> v, hash |-> k])

\* The value in chain i, or NONE.
Lookup(t, i, k) ==
  LET at == Find(t.buckets[i], k)
  IN  IF at = 0 THEN NONE ELSE t.buckets[i][at].value

get_null_key(t) == Lookup(t, 0, 0)

Got(t, k) ==
  IF k = 0 THEN get_null_key(t) ELSE Lookup(t, get_table_index(t, k), k)

\* Mutant of Unchain: next becomes the head of the chain wherever k was.
UnchainUpTo(t, i, k) ==
  LET at == Find(t.buckets[i], k)
  IN  IF at = 0 THEN t
      ELSE [t EXCEPT !.buckets[i] = SubSeq(@, at + 1, Len(@)), !.size = @ - 1]

Unchain(t, i, k) ==
  LET at == Find(t.buckets[i], k)
  IN  IF at = 0 THEN t
      ELSE [t EXCEPT !.buckets[i] = RemoveAt(t.buckets[i], at), !.size = @ - 1]

remove_null_key(t) == Unchain(t, 0, 0)

Removed(t, k) ==
  IF k = 0 THEN remove_null_key(t) ELSE Unchain(t, get_table_index(t, k), k)

-----------------------------------------------------------------------------
(* Calls.  An entry is named by its key, and an iterator is void while the *)
(* table changes by other means.                                           *)

\* The call returns stat and out, and leaves the table t.
Return(call, t, stat, out) ==
  /\ ans = NONE
  /\ table' = t
  /\ ans' = [call |-> call, stat |-> stat, out |-> out]

Idle == table # NONE /\ iter = NONE /\ UNCHANGED iter

ReturnValue(call, t, v) ==
  IF v = NONE THEN Return(call, t, "CC_ERR_KEY_NOT_FOUND", NONE)
  ELSE Return(call, t, "CC_OK", v)

hashtable_new_conf(initial) ==
  /\ table = NONE /\ UNCHANGED iter
  /\ \/ Return(<<"new">>, NewTable(initial), "CC_OK", NONE)
     \/ Return(<<"new">>, NONE, "CC_ERR_ALLOC", NONE)

hashtable_destroy == Idle /\ Return(<<"destroy">>, NONE, "CC_OK", NONE)

\* Mutant of Grown: the table grows one entry too late.
GrownLate(t) ==
  IF t.size > t.threshold THEN resize(t, 2 * t.capacity) ELSE t

\* The table as hashtable_add makes it before it looks for the key.
Grown(t) ==
  IF t.size >= t.threshold THEN resize(t, 2 * t.capacity) ELSE t

Full(t) == t.size >= t.threshold /\ t.capacity = MAX_POW_TWO

\* Without memory for the new buckets the table stays as it is; without
\* memory for the entry, once they are in place, it has grown.
hashtable_add(k, v) ==
  LET call == <<"add", k, v>>
  IN  /\ Idle
      /\ \/ ~Full(table) /\ Return(call, Added(Grown(table), k, v), "CC_OK", NONE)
         \/ Full(table) /\ Return(call, table, "CC_ERR_MAX_CAPACITY", NONE)
         \/ /\ ~Full(table) /\ table.size >= table.threshold
            /\ Return(call, table, "CC_ERR_ALLOC", NONE)
         \/ /\ ~Full(table) /\ Got(table, k) = NONE
            /\ Return(call, Grown(table), "CC_ERR_ALLOC", NONE)

hashtable_get(k) == Idle /\ ReturnValue(<<"get", k>>, table, Got(table, k))

hashtable_remove(k) ==
  Idle /\ ReturnValue(<<"remove", k>>, Removed(table, k), Got(table, k))

hashtable_remove_all ==
  /\ Idle
  /\ Return(<<"remove_all">>,
            [table EXCEPT !.size = @ - Len(Entries(table)),
                          !.buckets = Empty(table.capacity)],
            "CC_OK", NONE)

\* The null key has no branch of its own here: it hashes to bucket 0.
hashtable_contains_key(k) ==
  /\ Idle
  /\ LET at == Find(table.buckets[get_table_index(table, k)], k)
     IN  Return(<<"contains_key", k>>, table, "CC_OK", IF at # 0 THEN 1 ELSE 0)

hashtable_size == Idle /\ Return(<<"size">>, table, "CC_OK", table.size)

-----------------------------------------------------------------------------
(* Iterators *)

\* The first bucket with an entry among those from i on, or the capacity.
FirstUsed(t, i) ==
  CHOOSE j \in i .. t.capacity :
    /\ j = t.capacity \/ t.buckets[j] # <<>>
    /\ \A m \in i .. j - 1 : t.buckets[m] = <<>>

\* On an empty table the fields are left unset: every caller asks for the
\* size first (object.c:90, 202 and 291).
hashtable_iter_init ==
  /\ table # NONE /\ iter = NONE /\ table.size > 0
  /\ LET i == FirstUsed(table, 0)
     IN  iter' = [bucket |-> i, next |-> table.buckets[i][1].key, prev |-> NoKey]
  /\ Return(<<"iter_init">>, table, "CC_OK", NONE)

\* The iterator past its next entry e, which is in the chain of its bucket.
Advanced(e) ==
  LET chain == table.buckets[iter.bucket]
      at    == Find(chain, e)
      j     == FirstUsed(table, iter.bucket + 1)
  IN  IF at < Len(chain)
      THEN [iter EXCEPT !.next = chain[at + 1].key, !.prev = e]
      ELSE IF j < table.capacity
      THEN [bucket |-> j, next |-> table.buckets[j][1].key, prev |-> e]
      ELSE [iter EXCEPT !.next = NoKey, !.prev = e]

hashtable_iter_next ==
  /\ iter # NONE
  /\ \/ /\ iter.next = NoKey /\ iter' = NONE
        /\ Return(<<"iter_next">>, table, "CC_ITER_END", NONE)
     \/ /\ iter.next # NoKey /\ iter' = Advanced(iter.next)
        /\ Return(<<"iter_next">>, table, "CC_OK", Got(table, iter.next))

\* Called once after hashtable_iter_next, as hashtable.c:661 asks: the entry
\* that prev points to is freed here.
hashtable_iter_remove ==
  /\ iter # NONE /\ iter.prev # NoKey
  /\ ReturnValue(<<"iter_remove">>, Removed(table, iter.prev),
                 Got(table, iter.prev))
  /\ iter' = [iter EXCEPT !.prev = NoKey]

-----------------------------------------------------------------------------
Init == table = NONE /\ iter = NONE /\ ans = NONE

\* The program has its answer and may call again.
Answered == ans # NONE /\ ans' = NONE /\ UNCHANGED <<table, iter>>

Next ==
  \/ \E c \in Capacities : hashtable_new_conf(c)
  \/ hashtable_destroy
  \/ \E k \in Keys, v \in Values : hashtable_add(k, v)
  \/ \E k \in Keys :
       hashtable_get(k) \/ hashtable_remove(k) \/ hashtable_contains_key(k)
  \/ hashtable_remove_all
  \/ hashtable_size
  \/ hashtable_iter_init
  \/ hashtable_iter_next
  \/ hashtable_iter_remove
  \/ Answered

Spec == Init /\ [][Next]_vars

-----------------------------------------------------------------------------
(* Properties *)

\* Every entry is in the bucket that its hash names, where hashtable_get and
\* hashtable_remove look for it (hashtable.c:260, 314), no key has two entries,
\* and the size is exact, over all the adds, removes and moves to larger
\* arrays.  The mask at hashtable.c:550 needs a capacity that is a power of two.
WellPlaced ==
  table # NONE =>
    /\ \E p \in 0 .. 10 : table.capacity = 2 ^ p
    /\ \A i \in DOMAIN table.buckets : \A n \in DOMAIN table.buckets[i] :
         LET e == table.buckets[i][n] IN e.key % table.capacity = i
    /\ IsInjective(hashtable_foreach_key(table))
    /\ table.size = Len(Entries(table))

\* hashtable_add grows the table before it is too full: there are never more
\* entries than the threshold, three quarters of the buckets
\* (hashtable.c:169-172).
RoomLeft == table # NONE => 4 * table.size <= 3 * table.capacity

\* The keys that the iterator has still to return: those from its next entry
\* on in the chain, and those of later buckets.
Remaining ==
  IF iter.next = NoKey THEN {}
  ELSE LET chain == table.buckets[iter.bucket]
           rest  == {chain[n].key : n \in Find(chain, iter.next) .. Len(chain)}
       IN  rest \cup UNION {{e.key : e \in ToSet(table.buckets[i])} :
                              i \in iter.bucket + 1 .. table.capacity - 1}

Map ==
  LET all == UNION {ToSet(table.buckets[i]) : i \in DOMAIN table.buckets}
  IN  [k \in {e.key : e \in all} |-> (CHOOSE e \in all : e.key = k).value]

Abstract ==
  INSTANCE Dict WITH
    map  <- IF table = NONE THEN NONE ELSE Map,
    todo <- IF iter = NONE THEN NONE ELSE Remaining,
    last <- IF iter = NONE \/ iter.prev = NoKey THEN NONE ELSE iter.prev

\* The table implements a map: no call loses, revives or changes an entry it
\* is not about, an array that moves keeps them all, a failed call changes
\* nothing, and an iterator returns each entry once, removals included, which
\* object_phantomize_node needs to reach every link of a node (object.c:206).
IsDictionary == Abstract!Spec
=============================================================================
