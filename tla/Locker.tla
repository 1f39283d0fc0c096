------------------------------- MODULE Locker -------------------------------
(***************************************************************************)
(* The locks of acid's threads (locker.c, idlock.c).  A thread keeps a     *)
(* stack with one entry for each locker_start it has not ended; an entry   *)
(* holds the locks of up to four lockables, taken one at a time in the     *)
(* order of their ids.  The mutexes are recursive: a lock is held as often *)
(* as it stands in the entries of its thread.                              *)
(***************************************************************************)
EXTENDS Integers, SequencesExt

CONSTANTS
  Threads,
  Order,     \* the objects and collectors, in the order of their ids
  Nesting,   \* the same, in the order in which nested calls take them
  NULL

ASSUME LockerAssumption ==
  /\ Order \in Seq(ToSet(Order)) /\ IsInjective(Order)
  /\ NULL \notin ToSet(Order)
  /\ Nesting \in Seq(ToSet(Order)) /\ ToSet(Nesting) = ToSet(Order)

VARIABLE locker

Locks == ToSet(Order)

Id(k) == CHOOSE i \in DOMAIN Order : Order[i] = k

\* What locker_start makes of its arguments: no nulls and no duplicates.
lock_set(args) == args \ {NULL}

\* stack: the entries; got and want: the locks of the entry in the making that
\* have been taken, and those still to take.
NoLocks == [stack |-> <<>>, got |-> {}, want |-> {}]

HeldBy(t) == (UNION ToSet(locker[t].stack)) \cup locker[t].got

FreeFor(t, k) == \A u \in Threads \ {t} : k \notin HeldBy(u)

\* locker_start, up to its first lock.
started(args, lk) ==
  LET ks == lock_set(args)
  IN  IF ks = {} THEN [lk EXCEPT !.stack = Append(@, {})]
      ELSE [lk EXCEPT !.want = ks]

\* A section that locks only k, whose lock is free, begins in one step.
taken(k, lk) == [lk EXCEPT !.stack = Append(@, {k})]

\* The entry once k is in it; it is pushed after the last.
locker_entry_add(k, lk) ==
  IF lk.want = {k}
    THEN [stack |-> Append(lk.stack, lk.got \cup {k}), got |-> {}, want |-> {}]
    ELSE [lk EXCEPT !.got = @ \cup {k}, !.want = @ \ {k}]

\* The lock that a thread takes next: its locks are sorted by their ids.
NextLock(t) ==
  CHOOSE k \in locker[t].want : \A j \in locker[t].want : Id(k) <= Id(j)

\* Mutant: the locks are not sorted.
LockUnsorted(t) ==
  \E k \in locker[t].want :
    /\ FreeFor(t, k)
    /\ locker' = [locker EXCEPT ![t] = locker_entry_add(k, @)]

idlock_lock(t) ==
  /\ locker[t].want # {}
  /\ FreeFor(t, NextLock(t))
  /\ locker' = [locker EXCEPT ![t] = locker_entry_add(NextLock(t), @)]

\* locker_end pops the last entry and unlocks what is in it.
ended(lk) == [lk EXCEPT !.stack = Front(@)]

\* The thread is past locker_start.
Ready(t) == locker[t].want = {}

-----------------------------------------------------------------------------
LockerTypeOK ==
  locker \in [Threads -> [stack: Seq(SUBSET Locks), got: SUBSET Locks,
                          want: SUBSET Locks]]

Exclusive == \A t \in Threads : \A k \in HeldBy(t) : FreeFor(t, k)

Rank(k) == CHOOSE i \in DOMAIN Nesting : Nesting[i] = k

\* A lock that a thread waits for, and does not have already, comes after all
\* those it has that another thread is to take.  The ids sort the locks of one
\* locker_start (locker.c:49); that nested ones agree with each other,
\* collectors coming after objects whatever their ids, is left to the callers
\* (object.c:380, collector.c:63).  Where collector_terminate locks anew it may
\* take an older collector after its own, which no one is to take any more
\* (collector.c:126-129).
LocksOrdered ==
  /\ LockerTypeOK /\ Exclusive
  /\ \A t \in Threads :
       ~Ready(t) => LET k == NextLock(t)
                    IN  \/ k \in HeldBy(t)
                        \/ \A j \in HeldBy(t) :
                             \/ Rank(j) < Rank(k)
                             \/ \A u \in Threads \ {t} : j \notin locker[u].want

\* No threads wait for one another's locks in a circle, although a second
\* locker_start is not asked whether its ids come after those that the thread
\* has already (locker.c:46).
NoDeadlock ==
  ~ \E S \in (SUBSET Threads) \ {{}} : \A t \in S :
      /\ ~Ready(t)
      /\ \E u \in S \ {t} : NextLock(t) \in HeldBy(u)
=============================================================================
