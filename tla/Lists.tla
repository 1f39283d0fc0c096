------------------------------- MODULE Lists -------------------------------
(***************************************************************************)
(* The doubly linked list of lib/collectc/list.c, which queues the tasks,  *)
(* the objects of a collector and the locks of a thread.  The heap is a    *)
(* record of functions, and every operator takes a heap and returns the    *)
(* heap that the code leaves.                                              *)
(***************************************************************************)
EXTENDS Integers, FiniteSets, SequencesExt

CONSTANTS
  Handles,    \* the lists a program can have
  Nodes,      \* 1 .. N: all the memory there is for their nodes
  Elements,   \* what is stored
  Rank,       \* the order that the program's comparator gives elements
  Keep,       \* the elements that its predicate keeps
  Copy,       \* what its copy function makes of an element
  MaxWalked,  \* bound on the nodes in use when an iterator starts
  AnyAdd,     \* FALSE: list_iter_add only where the iterator's index counts
              \* the elements up to the last one returned, as it does until
              \* the iterator removes one
  NULL

VARIABLES heap, iter, ans

vars == <<heap, iter, ans>>

-----------------------------------------------------------------------------
(* Nodes *)

Free(h) == {n \in Nodes : h.data[n] = NULL}
Used(h) == Nodes \ Free(h)
Least(S) == CHOOSE n \in S : \A m \in S : n <= m

\* mem_calloc: the pointers of a free node are NULL.
Alloc(h, n, e) == [h EXCEPT !.data[n] = e]

\* x->next = y and y->prev = x, where x or y may be missing.
Join(h, x, y) ==
  LET half == IF x = NULL THEN h ELSE [h EXCEPT !.next[x] = y]
  IN  IF y = NULL THEN half ELSE [half EXCEPT !.prev[y] = x]

\* At most k nodes from n on, along next or prev.
RECURSIVE Along(_, _, _)
Along(pointer, n, k) ==
  IF n = NULL \/ k = 0 THEN <<>>
  ELSE <<n>> \o Along(pointer, pointer[n], k - 1)

\* The nodes of a list, and their elements.
Chain(h, l) == Along(h.next, h.list[l].head, Cardinality(Nodes) + 1)
Contents(h, l) == [i \in DOMAIN Chain(h, l) |-> h.data[Chain(h, l)[i]]]

Size(h, l) == h.list[l].size

\* Mutant of get_node_at: one node too far from the tail.
OneTooFar(h, l, i) ==
  LET size == Size(h, l)
  IN  IF i < 0 \/ i >= size THEN NULL
      ELSE IF i < size \div 2
      THEN Along(h.next, h.list[l].head, i + 1)[i + 1]
      ELSE LET back == Along(h.prev, h.list[l].tail, size - i + 1)
           IN  back[Len(back)]

get_node_at(h, l, i) ==
  LET size == Size(h, l)
  IN  IF i < 0 \/ i >= size THEN NULL
      ELSE IF i < size \div 2
      THEN Along(h.next, h.list[l].head, i + 1)[i + 1]
      ELSE Along(h.prev, h.list[l].tail, size - i)[size - i]

get_node(h, l, e) ==
  LET i == SelectInSeq(Chain(h, l), LAMBDA n : h.data[n] = e)
  IN  IF i = 0 THEN NULL ELSE Chain(h, l)[i]

\* Mutant of link_behind: ins is not taken out of where it was.
LinkedTwice(h, base, ins) == Join(Join(h, h.prev[base], ins), ins, base)

\* Both first take ins out of wherever it is.
link_behind(h, base, ins) ==
  LET out == Join(h, h.prev[ins], h.next[ins])
  IN  Join(Join(out, out.prev[base], ins), ins, base)

link_after(h, base, ins) ==
  LET out == Join(h, h.prev[ins], h.next[ins])
  IN  Join(Join(out, ins, out.next[base]), base, ins)

unlink(h, l, n) ==
  LET left  == h.prev[n]
      right == h.next[n]
  IN  [Join(h, left, right) EXCEPT
         !.list[l].head = IF left = NULL THEN right ELSE @,
         !.list[l].tail = IF right = NULL THEN left ELSE @,
         !.list[l].size = @ - 1,
         !.data[n] = NULL, !.next[n] = NULL, !.prev[n] = NULL]

RECURSIVE Unlinked(_, _, _)
Unlinked(h, l, nodes) ==
  IF nodes = <<>> THEN h ELSE Unlinked(unlink(h, l, Head(nodes)), l, Tail(nodes))

swap_adjacent(h, a, b) ==
  LET left == h.prev[a] right == h.next[b]
  IN  Join(Join(Join(h, b, a), a, right), left, b)

swap(h, a, b) ==
  IF h.next[a] = b THEN swap_adjacent(h, a, b)
  ELSE IF h.next[b] = a THEN swap_adjacent(h, b, a)
  ELSE Join(Join(Join(Join(h, h.prev[a], b), b, h.next[a]), h.prev[b], a),
            a, h.next[b])

-----------------------------------------------------------------------------
(* Changes to one list *)

EmptyList == [head |-> NULL, tail |-> NULL, size |-> 0]

Made(h, l) == [h EXCEPT !.list[l] = EmptyList]

AddedFirst(h, l, n, e) ==
  LET old == h.list[l]
  IN  [Join(Alloc(h, n, e), n, old.head) EXCEPT
         !.list[l] = [head |-> n,
                      tail |-> IF old.size = 0 THEN n ELSE old.tail,
                      size |-> old.size + 1]]

AddedLast(h, l, n, e) ==
  LET old == h.list[l]
  IN  [Join(Alloc(h, n, e), old.tail, n) EXCEPT
         !.list[l] = [head |-> IF old.size = 0 THEN n ELSE old.head,
                      tail |-> n,
                      size |-> old.size + 1]]

AddedAt(h, l, n, e, i) ==
  LET linked == link_behind(Alloc(h, n, e), get_node_at(h, l, i), n)
  IN  [linked EXCEPT !.list[l].head = IF i = 0 THEN n ELSE @,
                     !.list[l].size = @ + 1]

\* es added one by one to the end of l, while there is memory.
RECURSIVE AddedAll(_, _, _)
AddedAll(h, l, es) ==
  IF es = <<>> \/ Free(h) = {} THEN h
  ELSE AddedAll(AddedLast(h, l, Least(Free(h)), Head(es)), l, Tail(es))

list_remove_all(h, l) ==
  [Unlinked(h, l, Chain(h, l)) EXCEPT !.list[l].head = NULL,
                                      !.list[l].tail = NULL]

Destroyed(h, l) == [list_remove_all(h, l) EXCEPT !.list[l] = NULL]

\* k swaps, from both ends of the list inwards.
RECURSIVE SwapInwards(_, _, _, _)
SwapInwards(h, left, right, k) ==
  IF k = 0 THEN h
  ELSE SwapInwards(swap(h, left, right), h.next[left], h.prev[right], k - 1)

list_reverse(h, l) ==
  LET old == h.list[l]
  IN  IF old.size < 2 THEN h
      ELSE [SwapInwards(h, old.head, old.tail, old.size \div 2) EXCEPT
              !.list[l].head = old.tail, !.list[l].tail = old.head]

list_filter_mut(h, l) ==
  Unlinked(h, l, SelectSeq(Chain(h, l), LAMBDA n : h.data[n] \notin Keep))

\* Elements put into the nodes of l in order.
Refilled(h, l, es) ==
  LET nodes == Chain(h, l)
  IN  [h EXCEPT !.data = [n \in Nodes |->
         LET i == SelectInSeq(nodes, LAMBDA m : m = n)
         IN  IF i = 0 THEN h.data[n] ELSE es[i]]]

-----------------------------------------------------------------------------
(* Sorting in place *)

\* Mutant of InOrder: equal elements change places.
InStrictOrder(e, f) == Rank[e] < Rank[f]

InOrder(e, f) == Rank[e] <= Rank[f]

\* The loop of merge: m.lp and m.rp are the nodes compared, of which m.l and
\* m.r have been passed in the m.i rounds so far.
RECURSIVE merge(_, _, _)
merge(m, l_size, r_size) ==
  LET h     == m.heap
      size  == l_size + r_size
      pair  == m.i = 0 /\ size = 2
      moved == link_behind(h, m.lp, m.rp)
  IN  IF m.i = size THEN m
      ELSE IF InOrder(h.data[m.lp], h.data[m.rp])
      THEN IF pair THEN m
           ELSE IF m.l = l_size
           THEN [m EXCEPT !.right = Last(Along(h.next, m.rp, r_size - m.r))]
           ELSE merge([m EXCEPT !.lp = h.next[m.lp], !.l = @ + 1, !.i = @ + 1],
                      l_size, r_size)
      ELSE IF pair
      THEN [m EXCEPT !.heap = moved, !.left = m.rp, !.right = m.lp]
      ELSE IF m.r + 1 = r_size
      THEN [m EXCEPT !.heap = moved,
                     !.right = Last(Along(moved.next, m.lp, l_size - m.l))]
      ELSE merge([m EXCEPT !.heap = moved,
                           !.left = IF m.i = 0 THEN m.rp ELSE @,
                           !.rp = h.next[m.rp], !.r = @ + 1, !.i = @ + 1],
                 l_size, r_size)

\* size nodes from b on, sorted: the heap and the node that is now first.
RECURSIVE split(_, _, _, _)
split(h, l, b, size) ==
  IF size < 2 THEN [heap |-> h, first |-> b]
  ELSE LET l_size == size \div 2
           r_size == size - l_size
           center == Along(h.next, b, l_size + 1)[l_size + 1]
           left   == split(h, l, b, l_size)
           right  == split(left.heap, l, center, r_size)
           m      == merge([heap |-> right.heap,
                            left |-> left.first, right |-> right.first,
                            lp |-> left.first, rp |-> right.first,
                            l |-> 0, r |-> 0, i |-> 0], l_size, r_size)
       IN  [heap |-> [m.heap EXCEPT !.list[l].head = m.left,
                                    !.list[l].tail = m.right],
            first |-> m.left]

list_sort_in_place(h, l) == split(h, l, h.list[l].head, Size(h, l)).heap

\* What qsort may make of a sequence: it need not be stable.
Sorted(s) ==
  {t \in [DOMAIN s -> Range(s)] :
     /\ \A i \in DOMAIN t : i > 1 => Rank[t[i - 1]] <= Rank[t[i]]
     /\ ToBag(t) = ToBag(s)}

-----------------------------------------------------------------------------
(* Two lists *)

\* The nodes on both sides of index i.
Gap(h, l, i) ==
  LET end == get_node_at(h, l, i)
  IN  [left  |-> IF end # NULL THEN h.prev[end] ELSE get_node_at(h, l, i - 1),
       right |-> end]

splice_between(h, l, gap, part) ==
  [Join(Join(h, gap.left, part.head), part.tail, gap.right) EXCEPT
     !.list[l].head = IF gap.left = NULL THEN part.head ELSE @,
     !.list[l].tail = IF gap.right = NULL THEN part.tail ELSE @,
     !.list[l].size = @ + part.size]

\* A chain of new nodes for es, begun by part; NULL, and nothing kept, without
\* the memory.
RECURSIVE link_all_externally(_, _, _)
link_all_externally(h, es, part) ==
  IF es = <<>> THEN [heap |-> h, part |-> part]
  ELSE IF Free(h) = {} THEN NULL
  ELSE LET n == Least(Free(h))
       IN  link_all_externally(
             Join(Alloc(h, n, Head(es)), part.tail, n), Tail(es),
             [head |-> IF part.head = NULL THEN n ELSE part.head,
              tail |-> n, size |-> part.size + 1])

-----------------------------------------------------------------------------
(* Calls.  Where a call builds a list, NULL is its handle until then.      *)

Existing(h) == {l \in Handles : h.list[l] # NULL}

Return(call, h, stat, out) ==
  /\ ans = NULL
  /\ heap' = h
  /\ ans' = [call |-> call, stat |-> stat, out |-> out]

Listed(l) == heap.list[l] # NULL /\ iter = NULL /\ UNCHANGED iter
Unused(l) == heap.list[l] = NULL /\ iter = NULL /\ UNCHANGED iter

\* The heap that NewHeap makes with a new node, if there is one.
WithNode(call, NewHeap(_)) ==
  IF Free(heap) = {} THEN Return(call, heap, "CC_ERR_ALLOC", NULL)
  ELSE Return(call, NewHeap(Least(Free(heap))), "CC_OK", NULL)

list_new(l) ==
  /\ Unused(l)
  /\ \/ Return(<<"new", l>>, Made(heap, l), "CC_OK", NULL)
     \/ Return(<<"new", l>>, heap, "CC_ERR_ALLOC", NULL)

list_destroy(l) ==
  Listed(l) /\ Return(<<"destroy", l>>, Destroyed(heap, l), "CC_OK", NULL)

list_add_first(l, e) ==
  /\ Listed(l)
  /\ WithNode(<<"add_first", l, e>>, LAMBDA n : AddedFirst(heap, l, n, e))

list_add_last(l, e) ==
  /\ Listed(l)
  /\ WithNode(<<"add_last", l, e>>, LAMBDA n : AddedLast(heap, l, n, e))

list_add_at(l, e, i) ==
  LET call == <<"add_at", l, e, i>>
  IN  /\ Listed(l)
      /\ IF get_node_at(heap, l, i) = NULL
         THEN Return(call, heap, "CC_ERR_OUT_OF_RANGE", NULL)
         ELSE WithNode(call, LAMBDA n : AddedAt(heap, l, n, e, i))

\* The elements of m copied into l at i.
AddAllAt(call, l, m, i) ==
  LET new == link_all_externally(heap, Contents(heap, m), EmptyList)
  IN  IF Size(heap, m) = 0 THEN Return(call, heap, "CC_OK", NULL)
      ELSE IF i > Size(heap, l)
      THEN Return(call, heap, "CC_ERR_OUT_OF_RANGE", NULL)
      ELSE IF new = NULL THEN Return(call, heap, "CC_ERR_ALLOC", NULL)
      ELSE Return(call, splice_between(new.heap, l, Gap(heap, l, i), new.part),
                  "CC_OK", NULL)

list_add_all(l, m) ==
  /\ Listed(l) /\ Listed(m)
  /\ AddAllAt(<<"add_all", l, m>>, l, m, Size(heap, l))

\* On an empty list the code follows the null tail: only list_add_all asks
\* for the size first.
list_add_all_at(l, m, i) ==
  /\ Listed(l) /\ Listed(m)
  /\ Size(heap, l) > 0
  /\ AddAllAt(<<"add_all_at", l, m, i>>, l, m, i)

\* The nodes of m moved into l at i; m is another list.
list_splice_at(l, m, i) ==
  LET call  == <<"splice_at", l, m, i>>
      moved == splice_between(heap, l, Gap(heap, l, i), heap.list[m])
  IN  /\ Listed(l) /\ Listed(m) /\ l # m
      /\ IF Size(heap, m) = 0 THEN Return(call, heap, "CC_OK", NULL)
         ELSE IF i > Size(heap, l)
         THEN Return(call, heap, "CC_ERR_OUT_OF_RANGE", NULL)
         ELSE Return(call, [moved EXCEPT !.list[m] = EmptyList], "CC_OK", NULL)

\* n removed, or nothing where n is NULL.
RemoveNode(call, l, n, missing) ==
  IF n = NULL THEN Return(call, heap, missing, NULL)
  ELSE Return(call, unlink(heap, l, n), "CC_OK", heap.data[n])

list_remove(l, e) ==
  Listed(l) /\ RemoveNode(<<"remove", l, e>>, l, get_node(heap, l, e),
                          "CC_ERR_VALUE_NOT_FOUND")

list_remove_at(l, i) ==
  Listed(l) /\ RemoveNode(<<"remove_at", l, i>>, l, get_node_at(heap, l, i),
                          "CC_ERR_OUT_OF_RANGE")

list_remove_first(l) ==
  Listed(l) /\ RemoveNode(<<"remove_first", l>>, l, heap.list[l].head,
                          "CC_ERR_VALUE_NOT_FOUND")

list_remove_last(l) ==
  Listed(l) /\ RemoveNode(<<"remove_last", l>>, l, heap.list[l].tail,
                          "CC_ERR_VALUE_NOT_FOUND")

list_clear(l) ==
  /\ Listed(l)
  /\ Return(<<"remove_all", l>>, list_remove_all(heap, l),
            IF Size(heap, l) = 0 THEN "CC_ERR_VALUE_NOT_FOUND" ELSE "CC_OK",
            NULL)

list_replace_at(l, e, i) ==
  LET n    == get_node_at(heap, l, i)
      call == <<"replace_at", l, e, i>>
  IN  /\ Listed(l)
      /\ IF n = NULL THEN Return(call, heap, "CC_ERR_OUT_OF_RANGE", NULL)
         ELSE Return(call, [heap EXCEPT !.data[n] = e], "CC_OK", heap.data[n])

\* Calls that change the order of a list, or drop what Keep does not hold.
Rearrange(l) ==
  /\ Listed(l)
  /\ \/ Return(<<"reverse", l>>, list_reverse(heap, l), "CC_OK", NULL)
     \/ Return(<<"sort_in_place", l>>, list_sort_in_place(heap, l), "CC_OK", NULL)
     \/ IF Size(heap, l) = 0
        THEN Return(<<"filter_mut", l>>, heap, "CC_ERR_OUT_OF_RANGE", NULL)
        ELSE Return(<<"filter_mut", l>>, list_filter_mut(heap, l), "CC_OK", NULL)

list_sort(l) ==
  /\ Listed(l)
  /\ IF Size(heap, l) = 0
     THEN Return(<<"sort", l>>, heap, "CC_ERR_INVALID_RANGE", NULL)
     ELSE \E s \in Sorted(Contents(heap, l)) :
            Return(<<"sort", l>>, Refilled(heap, l, s), "CC_OK", NULL)

\* A list of es at to, or nothing of it without the memory.
CopyTo(call, to, es) ==
  \/ Return(call, heap, "CC_ERR_ALLOC", NULL)
  \/ /\ Len(es) <= Cardinality(Free(heap))
     /\ Return(call, AddedAll(Made(heap, to), to, es), "CC_OK", NULL)

list_sublist(l, to, b, e) ==
  LET call == <<"sublist", l, to, b, e>>
  IN  /\ Listed(l) /\ Unused(to)
      /\ IF b > e \/ e >= Size(heap, l)
         THEN Return(call, heap, "CC_ERR_INVALID_RANGE", NULL)
         ELSE LET nodes == Along(heap.next, get_node_at(heap, l, b), e - b + 1)
              IN  CopyTo(call, to, [i \in DOMAIN nodes |-> heap.data[nodes[i]]])

list_copy_shallow(l, to) ==
  /\ Listed(l) /\ Unused(to)
  /\ CopyTo(<<"copy_shallow", l, to>>, to, Contents(heap, l))

list_copy_deep(l, to) ==
  /\ Listed(l) /\ Unused(to)
  /\ CopyTo(<<"copy_deep", l, to>>, to,
            [i \in DOMAIN Contents(heap, l) |-> Copy[Contents(heap, l)[i]]])

\* The status of list_add is not looked at (list.c:1281).
list_filter(l, to) ==
  LET call == <<"filter", l, to>>
      kept == SelectSeq(Contents(heap, l), LAMBDA e : e \in Keep)
  IN  /\ Listed(l) /\ Unused(to)
      /\ IF Size(heap, l) = 0
         THEN Return(call, heap, "CC_ERR_OUT_OF_RANGE", NULL)
         ELSE \/ Return(call, heap, "CC_ERR_ALLOC", NULL)
              \/ Return(call, AddedAll(Made(heap, to), to, kept), "CC_OK", NULL)

\* Calls that change nothing, by what they return.
list_get_first(l) == heap.data[heap.list[l].head]
list_get_last(l)  == heap.data[heap.list[l].tail]
list_get_at(l, i) == heap.data[get_node_at(heap, l, i)]
list_to_array(l)  ==
  LET nodes == Along(heap.next, heap.list[l].head, Size(heap, l))
  IN  [i \in DOMAIN nodes |-> heap.data[nodes[i]]]
list_contains(l, e) ==
  Cardinality({i \in DOMAIN Chain(heap, l) : heap.data[Chain(heap, l)[i]] = e})

-----------------------------------------------------------------------------
(* Iterators: over one list upwards or downwards, or over two at once.     *)
(* The lists are not changed otherwise meanwhile.                          *)

Start(kind, over, index) ==
  /\ iter = NULL
  /\ \A k \in DOMAIN over : heap.list[over[k]] # NULL
  /\ Cardinality(Used(heap)) <= MaxWalked
  /\ Return(<<kind>> \o over, heap, "CC_OK", NULL)
  /\ iter' = [kind |-> kind, over |-> over, index |-> index, fresh |-> FALSE,
              last |-> [k \in DOMAIN over |-> NULL],
              next |-> [k \in DOMAIN over |->
                IF kind = "down" THEN heap.list[over[k]].tail
                ELSE heap.list[over[k]].head]]

list_iter_init(l)  == Start("up", <<l>>, 0)
list_diter_init(l) == heap.list[l] # NULL /\ Start("down", <<l>>, Size(heap, l))
list_zip_iter_init(l, m) == l # m /\ Start("zip", <<l, m>>, 0)

Walking(kind) == iter # NULL /\ iter.kind = kind

Data(nodes) == [k \in DOMAIN nodes |-> heap.data[nodes[k]]]

\* To the nodes that iter.next names, and on along pointer.
Advance(pointer, by) ==
  IF \E k \in DOMAIN iter.next : iter.next[k] = NULL
  THEN Return(<<"next">>, heap, "CC_ITER_END", NULL) /\ iter' = NULL
  ELSE /\ Return(<<"next">>, heap, "CC_OK", Data(iter.next))
       /\ iter' = [iter EXCEPT !.last = iter.next, !.index = @ + by,
                               !.fresh = TRUE,
                               !.next = [k \in DOMAIN @ |-> pointer[@[k]]]]

list_iter_next     == Walking("up") /\ Advance(heap.next, 1)
list_diter_next    == Walking("down") /\ Advance(heap.prev, -1)
list_zip_iter_next == Walking("zip") /\ Advance(heap.next, 1)

NothingReturned == \E k \in DOMAIN iter.last : iter.last[k] = NULL

\* Mutant of Forget: the iterator still points to what it removed.
Keeping(it) == it

\* The iterator without what it returned last, which is gone.
Forget(it) == [it EXCEPT !.last = [k \in DOMAIN @ |-> NULL]]

\* What the iterator returned last, removed from each list.
RemoveLast ==
  LET one == unlink(heap, iter.over[1], iter.last[1])
  IN  IF NothingReturned
      THEN /\ Return(<<"iter_remove">>, heap, "CC_ERR_VALUE_NOT_FOUND", NULL)
           /\ UNCHANGED iter
      ELSE /\ Return(<<"iter_remove">>,
                     IF Len(iter.over) = 1 THEN one
                     ELSE unlink(one, iter.over[2], iter.last[2]),
                     "CC_OK", Data(iter.last))
           /\ iter' = Forget(iter)

list_iter_remove     == Walking("up") /\ RemoveLast
list_diter_remove    == Walking("down") /\ RemoveLast
list_zip_iter_remove == Walking("zip") /\ RemoveLast

\* es put in the place of what the iterator returned last.
ReplaceLast(es) ==
  LET call == <<"iter_replace", es>>
  IN  /\ UNCHANGED iter
      /\ IF NothingReturned
         THEN Return(call, heap, "CC_ERR_VALUE_NOT_FOUND", NULL)
         ELSE Return(call,
                [heap EXCEPT !.data = [n \in Nodes |->
                   IF n = iter.last[1] THEN es[1]
                   ELSE IF n = iter.last[Len(es)] THEN es[Len(es)]
                   ELSE heap.data[n]]],
                "CC_OK", Data(iter.last))

list_iter_replace(e)        == Walking("up") /\ ReplaceLast(<<e>>)
list_diter_replace(e)       == Walking("down") /\ ReplaceLast(<<e>>)
list_zip_iter_replace(e, f) == Walking("zip") /\ ReplaceLast(<<e, f>>)

\* The iterator's index is the place of what it returned last.
IndexTrue ==
  \A k \in DOMAIN iter.over :
    LET nodes == Chain(heap, iter.over[k])
    IN  SelectInSeq(nodes, LAMBDA n : n = iter.last[k]) = iter.index

\* e linked behind what the iterator returned last from its k-th list.
InsertedAfter(h, k, e) ==
  LET n      == Least(Free(h))
      l      == iter.over[k]
      linked == link_after(Alloc(h, n, e), iter.last[k], n)
  IN  [linked EXCEPT
         !.list[l].tail = IF iter.index = Size(h, l) THEN n ELSE @,
         !.list[l].size = @ + 1]

\* To be called once after next, as list.c:1339 asks (iter.fresh).
AddAfter(es) ==
  LET one == InsertedAfter(heap, 1, es[1])
  IN  /\ ~NothingReturned /\ iter.fresh
      /\ AnyAdd \/ IndexTrue
      /\ IF Cardinality(Free(heap)) < Len(es)
         THEN /\ Return(<<"iter_add", es>>, heap, "CC_ERR_ALLOC", NULL)
              /\ UNCHANGED iter
         ELSE /\ Return(<<"iter_add", es>>,
                        IF Len(es) = 1 THEN one ELSE InsertedAfter(one, 2, es[2]),
                        "CC_OK", NULL)
              /\ iter' = [iter EXCEPT !.index = @ + 1, !.fresh = FALSE]

list_iter_add(e)        == Walking("up") /\ AddAfter(<<e>>)
list_zip_iter_add(e, f) == Walking("zip") /\ AddAfter(<<e, f>>)

list_diter_add(e) ==
  LET n      == Least(Free(heap))
      l      == iter.over[1]
      linked == link_behind(Alloc(heap, n, e), iter.last[1], n)
  IN  /\ Walking("down") /\ ~NothingReturned
      /\ IF Free(heap) = {}
         THEN /\ Return(<<"iter_add", <<e>>>>, heap, "CC_ERR_ALLOC", NULL)
              /\ UNCHANGED iter
         ELSE /\ Return(<<"iter_add", <<e>>>>,
                   [linked EXCEPT
                      !.list[l].head = IF iter.index = 0 THEN n ELSE @,
                      !.list[l].size = @ + 1],
                   "CC_OK", NULL)
              /\ iter' = [iter EXCEPT !.last = <<n>>]

-----------------------------------------------------------------------------
Init ==
  /\ heap = [next |-> [n \in Nodes |-> NULL], prev |-> [n \in Nodes |-> NULL],
             data |-> [n \in Nodes |-> NULL], list |-> [l \in Handles |-> NULL]]
  /\ iter = NULL
  /\ ans = NULL

\* The program has its answer and may call again.
Answered == ans # NULL /\ ans' = NULL /\ UNCHANGED <<heap, iter>>

Places == 0 .. Cardinality(Nodes)

ListNext ==
  \E l \in Handles :
    \/ list_new(l) \/ list_destroy(l)
    \/ list_remove_first(l) \/ list_remove_last(l) \/ list_clear(l)
    \/ Rearrange(l) \/ list_sort(l)
    \/ \E e \in Elements :
         \/ list_add_first(l, e) \/ list_add_last(l, e) \/ list_remove(l, e)
         \/ \E i \in Places : list_add_at(l, e, i) \/ list_replace_at(l, e, i)
    \/ \E i \in Places : list_remove_at(l, i)
    \/ \E m \in Handles :
         \/ list_add_all(l, m)
         \/ list_copy_shallow(l, m) \/ list_copy_deep(l, m) \/ list_filter(l, m)
         \/ \E i \in Places : list_add_all_at(l, m, i) \/ list_splice_at(l, m, i)
         \/ \E b, e \in Places : list_sublist(l, m, b, e)

IterNext ==
  \/ \E l \in Handles :
       \/ list_iter_init(l) \/ list_diter_init(l)
       \/ \E m \in Handles : list_zip_iter_init(l, m)
  \/ list_iter_next \/ list_diter_next \/ list_zip_iter_next
  \/ list_iter_remove \/ list_diter_remove \/ list_zip_iter_remove
  \/ \E e \in Elements :
       \/ list_iter_add(e) \/ list_diter_add(e)
       \/ list_iter_replace(e) \/ list_diter_replace(e)
       \/ \E f \in Elements : list_zip_iter_add(e, f) \/ list_zip_iter_replace(e, f)

Next == ListNext \/ IterNext \/ Answered

Spec == Init /\ [][Next]_vars

-----------------------------------------------------------------------------
(* Properties *)

\* Forward from the head and back from the tail a list is the same chain of
\* as many nodes as its size says, its ends point nowhere, each node in use is
\* in one list and no list holds a freed one: what unlink (list.c:1905), the
\* two ends of get_node_at (list.c:1971) and every loop up to the size rely on,
\* after any sequence of calls, the failing ones and sorts included.
WellLinked ==
  /\ \A l \in Existing(heap) :
       LET back == Along(heap.prev, heap.list[l].tail, Cardinality(Nodes) + 1)
       IN  /\ Len(Chain(heap, l)) = Size(heap, l)
           /\ back = Reverse(Chain(heap, l))
  /\ \A n \in Nodes :
       heap.data[n] # NULL <=>
         Cardinality({l \in Existing(heap) : n \in Range(Chain(heap, l))}) = 1
  /\ \A n \in Nodes : heap.data[n] = NULL =>
       \A l \in Existing(heap) : n \notin Range(Chain(heap, l))

\* An iterator never points to a node that has been freed, or to one of
\* another list, whatever it removes or adds on the way
\* (list.c:1326, 1503, 1694).
IteratorLive ==
  iter # NULL =>
    \A k \in DOMAIN iter.over :
      {iter.last[k], iter.next[k]} \ {NULL} \subseteq
        Range(Chain(heap, iter.over[k]))

\* Each way of reading a list gives the same elements: by index from the
\* nearer end (list.c:1971), at the ends, into an array, by value.
ReadersAgree ==
  \A l \in Existing(heap) :
    LET s == Contents(heap, l)
    IN  /\ list_to_array(l) = s
        /\ \A i \in DOMAIN s : list_get_at(l, i - 1) = s[i]
        /\ s # <<>> => list_get_first(l) = Head(s) /\ list_get_last(l) = Last(s)
        /\ \A e \in Elements :
             list_contains(l, e) = Cardinality({i \in DOMAIN s : s[i] = e})

\* Where an iterator is: pos elements before what it returns next, or up to
\* and with it on the way down, and the place of what it returned last.
Walk ==
  [kind |-> iter.kind, over |-> iter.over,
   pos |-> [k \in DOMAIN iter.over |->
     LET nodes == Chain(heap, iter.over[k])
         at    == SelectInSeq(nodes, LAMBDA n : n = iter.next[k])
     IN  IF iter.kind = "down" THEN at
         ELSE IF at = 0 THEN Len(nodes) ELSE at - 1],
   cur |-> [k \in DOMAIN iter.over |->
     SelectInSeq(Chain(heap, iter.over[k]), LAMBDA n : n = iter.last[k])]]

Abstract ==
  INSTANCE Seqs WITH
    seq  <- [l \in Handles |->
              IF heap.list[l] = NULL THEN NULL ELSE Contents(heap, l)],
    walk <- IF iter = NULL THEN NULL ELSE Walk

\* The list implements a sequence: each call does to it, and returns, what the
\* comments of list.c say, and iterators survive what they add and remove.
IsSequences == Abstract!Spec
=============================================================================
