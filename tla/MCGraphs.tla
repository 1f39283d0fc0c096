------------------------------ MODULE MCGraphs ------------------------------
(***************************************************************************)
(* Acid driven by all programs of two kinds that keep away from the races  *)
(* of object_set with the collector.                                       *)
(*                                                                         *)
(* One kind builds a graph first and then drops its variables one by one,  *)
(* in any order, as the programs of examples/main.c do.  The graphs have   *)
(* at most Cardinality(Links) edges, and all of Objects or, with more than *)
(* one worker, MaxShared of them.  The other kind makes CarefulOperate's   *)
(* calls, with one worker.                                                 *)
(***************************************************************************)
EXTENDS MCBudget

CONSTANT MaxShared   \* bound on the objects that several workers collect

VARIABLES
  active,    \* the workers that acid_start brings up
  careful    \* the kind of the program

graphvars == <<budgetvars, active, careful>>

Size == IF Cardinality(active) = 1 THEN Cardinality(Objects) ELSE MaxShared

Allocated == {o \in Objects : heap.obj[o].state # "none"}

GraphInit ==
  /\ BudgetInit
  /\ active \in (SUBSET Workers) \ {{}}
  /\ careful \in BOOLEAN
  /\ careful => Cardinality(active) = 1

\* Nothing has been dropped yet.
Building ==
  /\ heap.work = <<>>
  /\ \A o \in Objects : heap.obj[o].state = "live" => root[o] > 0

Build ==
  /\ Building
  /\ \/ \E o \in Objects : Cardinality(Allocated) < Size /\ acid_malloc(o)
     \/ \E o, t \in Objects, f \in Fields :
          heap.obj[o].links[f] = NULL /\ object_set(o, f, t)

Drop == \E o \in Objects : acid_dissolve(o)

\* Every worker polls an empty queue, and the program is over: it has dropped its
\* variables, or it is a careful one, which may be so at any time.  Or an
\* assertion has failed.
Ended ==
  /\ \/ /\ Quiet /\ old = NULL
        /\ ~careful => Cardinality(Allocated) = Size /\ \A o \in Objects : root[o] = 0
     \/ ~Running
  /\ UNCHANGED graphvars

GraphNext ==
  \/ /\ Running
     /\ \/ ~careful /\ (Build \/ Drop) /\ UNCHANGED ops
        \/ careful /\ CarefulOperate
        \/ \E w \in active : Work(w)
     /\ UNCHANGED <<active, careful>>
  \/ Ended

GraphSpec == GraphInit /\ [][GraphNext]_graphvars

\* Objects, fields and workers are interchangeable: no operator chooses among
\* them.
SymmetricGraphs ==
  Permutations(Objects) \cup Permutations(Fields) \cup Permutations(Workers)
=============================================================================
