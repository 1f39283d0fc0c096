------------------------------ MODULE MCBudget ------------------------------
(***************************************************************************)
(* Acid driven by every program of at most MaxOps operations, which come   *)
(* at any moment of the collections they cause.                            *)
(***************************************************************************)
EXTENDS Acid, TLC

CONSTANT MaxOps   \* bound on the operations of the program

VARIABLE ops      \* how many it has made

budgetvars == <<vars, ops>>

BudgetInit == Init /\ ops = 0

Operate == ops < MaxOps /\ MutatorNext /\ ops' = ops + 1

Cleanup == object_set_cleanup /\ UNCHANGED ops

Work(w) == WorkerNext(w) /\ UNCHANGED ops

AnyNext ==
  /\ Running
  /\ (old = NULL /\ Operate) \/ Cleanup \/ \E w \in Workers : Work(w)

\* Any program whatever.
AnySpec == BudgetInit /\ [][AnyNext]_budgetvars

\* The operations of a careful program.
CarefulOperate ==
  (old = NULL /\ Operate /\ Careful) \/ Cleanup

\* Objects and fields are interchangeable: no operator chooses among them.
Symmetric == Permutations(Objects) \cup Permutations(Fields)
=============================================================================
