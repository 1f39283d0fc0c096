-------------------------- MODULE CollectorsProofs --------------------------
(***************************************************************************)
(* Why acid's nested locks leave no deadlock, why no thread follows a      *)
(* pointer to a collector that has been freed, and why merges strand       *)
(* nothing, for any number of workers, objects and collectors.             *)
(*                                                                         *)
(* What a thread has locked is a function of where it is (LocksFit); what  *)
(* it follows is at the end of a chain of forward pointers that starts at  *)
(* an object it has locked (Follows), and a collector on such a chain has  *)
(* a reference, so that its worker does not end it.                        *)
(***************************************************************************)
EXTENDS Collectors, SequenceTheorems, WellFoundedInduction, TLAPS

-----------------------------------------------------------------------------
(* The order of locks: it is enough for any threads that each of them takes *)
(* its locks in the order of Nesting                                        *)

\* Every lock has a place in Nesting.
LEMMA RankType ==
  ASSUME NEW k \in Locks
  PROVE  Rank(k) \in 1 .. Len(Nesting)
<1>1. \E i \in DOMAIN Nesting : Nesting[i] = k
  BY LockerAssumption DEF Locks, ToSet
<1>2. DOMAIN Nesting = 1 .. Len(Nesting)
  BY LockerAssumption
<1> QED
  BY <1>1, <1>2 DEF Rank

\* A nonempty set of naturals has a least element.
LEMMA Least ==
  ASSUME NEW R \in SUBSET Nat, R # {}
  PROVE  \E x \in R : \A y \in R : x <= y
<1>1. \E x \in R : \A y \in R : ~ (<<y, x>> \in OpToRel(<, Nat))
  BY NatLessThanWellFounded, WFMin, Zenon
<1>2. PICK x \in R : \A y \in R : ~ (<<y, x>> \in OpToRel(<, Nat))
  BY <1>1
<1>3. ASSUME NEW y \in R
      PROVE  x <= y
  <2>1. ~ (y < x) /\ x \in Nat /\ y \in Nat
    BY <1>2 DEF OpToRel
  <2> QED
    BY <2>1
<1> QED
  BY <1>3

\* Ids are positions in Order, and tell locks apart.
LEMMA IdType ==
  ASSUME NEW k \in Locks
  PROVE  Id(k) \in Nat /\ \A j \in Locks : Id(j) = Id(k) => j = k
<1>1. \A j \in Locks : Id(j) \in DOMAIN Order /\ Order[Id(j)] = j
  <2> SUFFICES ASSUME NEW j \in Locks
               PROVE  Id(j) \in DOMAIN Order /\ Order[Id(j)] = j
    OBVIOUS
  <2>1. \E i \in DOMAIN Order : Order[i] = j
    BY DEF Locks, ToSet
  <2> QED
    BY <2>1 DEF Id
<1>2. DOMAIN Order \subseteq Nat
  BY LockerAssumption
<1> QED
  BY <1>1, <1>2

\* The lock that a thread takes next is the one with the least id.
LEMMA NextLockLeast ==
  ASSUME NEW t, ~Ready(t), locker[t].want \subseteq Locks
  PROVE  /\ NextLock(t) \in locker[t].want
         /\ \A j \in locker[t].want : Id(NextLock(t)) <= Id(j)
<1> DEFINE R == {Id(k) : k \in locker[t].want}
<1>1. R \in SUBSET Nat /\ R # {}
  BY IdType DEF Ready
<1>2. \E x \in R : \A y \in R : x <= y
  BY <1>1, Least
<1>3. \E k \in locker[t].want : \A j \in locker[t].want : Id(k) <= Id(j)
  BY <1>2
<1> QED
  BY <1>3 DEF NextLock

\* What a waiting thread waits for is a lock.
LEMMA WantedLock ==
  ASSUME LockerTypeOK, NEW t \in Threads, ~Ready(t)
  PROVE  NextLock(t) \in Locks /\ NextLock(t) \in locker[t].want
<1>1. locker[t].want \subseteq Locks
  BY DEF LockerTypeOK
<1> QED
  BY <1>1, NextLockLeast

\* If t waits for a lock of u, then u waits for a later one, or runs.
LEMMA WaitsForLater ==
  ASSUME LocksOrdered, NEW t \in Threads, NEW u \in Threads \ {t},
         ~Ready(t), ~Ready(u), NextLock(t) \in HeldBy(u),
         NEW v \in Threads \ {u}, NextLock(u) \in HeldBy(v)
  PROVE  Rank(NextLock(t)) < Rank(NextLock(u))
<1>1. NextLock(u) \notin HeldBy(u)
  BY DEF LocksOrdered, Exclusive, FreeFor
<1>2. NextLock(t) \in locker[t].want
  BY WantedLock DEF LocksOrdered
<1> QED
  BY <1>1, <1>2 DEF LocksOrdered

\* A nonempty set of naturals up to n has a greatest element.
LEMMA Greatest ==
  ASSUME NEW n \in Nat, NEW R \in SUBSET (0 .. n), R # {}
  PROVE  \E x \in R : \A y \in R : y <= x
<1> DEFINE Down == {n - x : x \in R}
<1>1. Down \in SUBSET Nat /\ Down # {}
  <2>1. \A x \in R : x \in 0 .. n /\ n - x \in Nat
    OBVIOUS
  <2> QED
    BY <2>1
<1>2. PICK x \in R : \A e \in Down : n - x <= e
  BY <1>1, Least
<1>3. ASSUME NEW y \in R
      PROVE  y <= x
  <2>1. x \in 0 .. n /\ y \in 0 .. n /\ n - y \in Down
    OBVIOUS
  <2>2. n - x <= n - y
    BY <1>2, <2>1
  <2> QED
    BY <2>1, <2>2
<1> QED
  BY <1>3

\* Threads that take their locks in the order of Nesting, whichever they nest,
\* never wait for one another in a circle (locker.c:46).
THEOREM OrderPreventsDeadlock == LocksOrdered => NoDeadlock
<1> SUFFICES ASSUME LocksOrdered,
                    NEW S \in (SUBSET Threads) \ {{}},
                    \A t \in S : /\ ~Ready(t)
                                 /\ \E u \in S \ {t} :
                                      NextLock(t) \in HeldBy(u)
             PROVE  FALSE
  BY DEF NoDeadlock
<1> DEFINE R == {Rank(NextLock(t)) : t \in S}
<1>1. \A t \in S : Rank(NextLock(t)) \in 0 .. Len(Nesting)
  BY WantedLock, RankType, LockerAssumption DEF LocksOrdered
<1>2. PICK t \in S : \A u \in S :
        Rank(NextLock(u)) <= Rank(NextLock(t))
  <2>1. R \in SUBSET (0 .. Len(Nesting)) /\ R # {} /\ Len(Nesting) \in Nat
    BY <1>1, LockerAssumption
  <2>2. \E x \in R : \A y \in R : y <= x
    BY <2>1, Greatest
  <2> QED
    BY <2>2
<1>3. PICK u \in S \ {t} : NextLock(t) \in HeldBy(u)
  OBVIOUS
<1>4. Rank(NextLock(t)) < Rank(NextLock(u))
  <2>1. PICK v \in S \ {u} : NextLock(u) \in HeldBy(v)
    BY <1>3
  <2> QED
    BY <1>3, <2>1, WaitsForLater
<1> QED
  BY <1>1, <1>2, <1>3, <1>4

-----------------------------------------------------------------------------
(* What a thread holds *)

LockerType ==
  [stack: Seq(SUBSET Locks), got: SUBSET Locks, want: SUBSET Locks]

Held(L) == (UNION ToSet(L.stack)) \cup L.got

Complete(L) == L.got = {} /\ L.want = {}

\* The entry of the locks in A is in the making.
Making(L, A) ==
  /\ L.want # {} /\ L.got \cap L.want = {} /\ L.got \cup L.want = A
  /\ \A j \in L.got, k \in L.want : Id(j) < Id(k)

\* One entry, with the locks in A, and two, the last one perhaps in the making.
HasOne(L, A) ==
  \/ L.stack = <<A>> /\ Complete(L)
  \/ L.stack = <<>> /\ Making(L, A)

HasTwo(L, A, B) ==
  \/ L.stack = <<A, B>> /\ Complete(L)
  \/ L.stack = <<A>> /\ Making(L, B)

\* Entries are pushed and popped at the end of the stack.
LEMMA PushOne ==
  ASSUME NEW A
  PROVE  Append(<<>>, A) = <<A>>
OBVIOUS

\* A stack of two entries is made by two pushes.
LEMMA PushTwo ==
  ASSUME NEW A, NEW B
  PROVE  Append(<<A>>, B) = <<A, B>>
<1> DEFINE S == {A, B}
           s == Append(<<A>>, B)
           p == <<A, B>>
<1>1. /\ <<A>> \in Seq(S) /\ Len(<<A>>) = 1 /\ B \in S
      /\ p \in Seq(S) /\ Len(p) = 2 /\ p[1] = A /\ p[2] = B
  OBVIOUS
<1>2. s \in Seq(S) /\ Len(s) = 2 /\ s[1] = A /\ s[2] = B
  BY <1>1, AppendProperties
<1>3. \A i \in 1 .. Len(s) : s[i] = p[i]
  BY <1>1, <1>2
<1> HIDE DEF S, s, p
<1>4. s = p
  BY <1>1, <1>2, <1>3, SeqEqual
<1> QED
  BY <1>4 DEF s, p

\* The last pop leaves an empty stack.
LEMMA PopOne ==
  ASSUME NEW A
  PROVE  Front(<<A>>) = <<>>
BY DEF Front

\* The one before it leaves the first entry.
LEMMA PopTwo ==
  ASSUME NEW A, NEW B
  PROVE  Front(<<A, B>>) = <<A>>
<1> DEFINE S == {A, B}
           s == Front(<<A, B>>)
           p == <<A>>
<1>1. s \in Seq(S) /\ Len(s) = 1 /\ s[1] = A
  BY DEF Front
<1>2. p \in Seq(S) /\ Len(p) = 1 /\ p[1] = A
  OBVIOUS
<1>3. \A i \in 1 .. Len(s) : s[i] = p[i]
  BY <1>1, <1>2
<1> HIDE DEF S, s, p
<1>4. s = p
  BY <1>1, <1>2, <1>3, SeqEqual
<1> QED
  BY <1>4 DEF s, p

\* The locks in an empty stack.
LEMMA LocksOfNone == UNION ToSet(<<>>) = {}
BY DEF ToSet

\* Those in a stack of one entry.
LEMMA LocksOfOne ==
  ASSUME NEW A
  PROVE  UNION ToSet(<<A>>) = A
<1>1. ToSet(<<A>>) = {A}
  BY DEF ToSet
<1> QED
  BY <1>1

\* And of two.
LEMMA LocksOfTwo ==
  ASSUME NEW A, NEW B
  PROVE  UNION ToSet(<<A, B>>) = A \cup B
<1>1. ToSet(<<A, B>>) = {A, B}
  BY DEF ToSet
<1> QED
  BY <1>1

\* A record of the locker's type is what its fields are.
LEMMA NewStack ==
  ASSUME NEW L \in LockerType, NEW s
  PROVE  [L EXCEPT !.stack = s] = [stack |-> s, got |-> L.got, want |-> L.want]
BY DEF LockerType

\* A thread without locks.
LEMMA NoLocksType ==
  NoLocks \in LockerType /\ NoLocks.stack = <<>> /\ NoLocks.got = {} /\ NoLocks.want = {}
<1>1. <<>> \in Seq(SUBSET Locks)
  OBVIOUS
<1> QED
  BY <1>1 DEF NoLocks, LockerType

\* A thread has, and waits for, what its entries list.
LEMMA HeldOne ==
  ASSUME NEW L, NEW A, HasOne(L, A)
  PROVE  /\ Held(L) \cup L.want = A
         /\ L.want = {} => L.stack = <<A>> /\ Complete(L)
         /\ L.want # {} => Held(L) = L.got
<1>1. CASE L.stack = <<A>> /\ Complete(L)
  BY <1>1, PushOne, PushTwo, PopOne, PopTwo, LocksOfNone, LocksOfOne, LocksOfTwo
     DEF Held, Complete
<1>2. CASE L.stack = <<>> /\ Making(L, A)
  BY <1>2, PushOne, PushTwo, PopOne, PopTwo, LocksOfNone, LocksOfOne, LocksOfTwo
     DEF Held, Making
<1> QED
  BY <1>1, <1>2 DEF HasOne

\* What a thread has with a first entry A, and B taken or to take.
LEMMA HeldTwo ==
  ASSUME NEW L, NEW A, NEW B, HasTwo(L, A, B)
  PROVE  /\ Held(L) \cup L.want = A \cup B /\ A \subseteq Held(L)
         /\ L.want = {} => L.stack = <<A, B>> /\ Complete(L) /\ Held(L) = A \cup B
         /\ L.want # {} => Held(L) = A \cup L.got
<1>1. CASE L.stack = <<A, B>> /\ Complete(L)
  BY <1>1, PushOne, PushTwo, PopOne, PopTwo, LocksOfNone, LocksOfOne, LocksOfTwo
     DEF Held, Complete
<1>2. CASE L.stack = <<A>> /\ Making(L, B)
  BY <1>2, PushOne, PushTwo, PopOne, PopTwo, LocksOfNone, LocksOfOne, LocksOfTwo
     DEF Held, Making
<1> QED
  BY <1>1, <1>2 DEF HasTwo

\* locker_start (locker.c:66-87).
LEMMA StartedOne ==
  ASSUME NEW S \in SUBSET (Locks \cup {NULL}), lock_set(S) # {}
  PROVE  /\ started(S, NoLocks) \in LockerType
         /\ HasOne(started(S, NoLocks), lock_set(S))
         /\ Held(started(S, NoLocks)) = {}
<1>1. /\ started(S, NoLocks) = [stack |-> <<>>, got |-> {}, want |-> lock_set(S)]
      /\ lock_set(S) \in SUBSET Locks
  BY DEF started, NoLocks, lock_set
<1> QED
  BY <1>1, PushOne, PushTwo, PopOne, PopTwo, LocksOfNone, LocksOfOne, LocksOfTwo
     DEF LockerType, HasOne, Making, Held

\* A second locker_start keeps the first entry (locker.c:72-95).
LEMMA StartedTwo ==
  ASSUME NEW S \in SUBSET (Locks \cup {NULL}), NEW L \in LockerType, NEW A,
         L.stack = <<A>>, Complete(L)
  PROVE  /\ started(S, L) \in LockerType
         /\ HasTwo(started(S, L), A, lock_set(S))
         /\ Held(started(S, L)) = A
<1>1. lock_set(S) \in SUBSET Locks
  BY DEF lock_set
<1>2. CASE lock_set(S) = {}
  <2>1. started(S, L) = [stack |-> <<A, {}>>, got |-> {}, want |-> {}]
    <3>1. Append(L.stack, {}) = <<A, {}>>
      BY PushTwo
    <3>2. started(S, L) = [L EXCEPT !.stack = <<A, {}>>]
      BY <1>2, <3>1 DEF started
    <3>3. started(S, L) = [stack |-> <<A, {}>>, got |-> L.got, want |-> L.want]
      BY <3>2, NewStack
    <3> QED
      BY <3>3 DEF Complete
  <2>2. started(S, L) \in LockerType
    <3>1. <<A>> \in Seq(SUBSET Locks) /\ {} \in SUBSET Locks
      BY DEF LockerType
    <3>2. <<A, {}>> \in Seq(SUBSET Locks)
      BY <3>1, PushTwo, AppendProperties
    <3> QED
      BY <2>1, <3>2 DEF LockerType
  <2> QED
    BY <1>2, <2>1, <2>2, PushOne, PushTwo, PopOne, PopTwo, LocksOfNone,
       LocksOfOne, LocksOfTwo DEF HasTwo, Complete, Held
<1>3. CASE lock_set(S) # {}
  <2>1. started(S, L) = [stack |-> <<A>>, got |-> {}, want |-> lock_set(S)]
    BY <1>3 DEF started, Complete, LockerType
  <2>2. started(S, L) \in LockerType
    BY <1>1, <2>1 DEF LockerType
  <2> QED
    BY <1>3, <2>1, <2>2, PushOne, PushTwo, PopOne, PopTwo, LocksOfNone,
       LocksOfOne, LocksOfTwo DEF HasTwo, Making, Held
<1> QED
  BY <1>2, <1>3

\* locker_end (locker.c:113-126).
LEMMA EndedOne ==
  ASSUME NEW L \in LockerType, NEW A, HasOne(L, A), L.want = {}
  PROVE  ended(L) = NoLocks
<1>1. L.stack = <<A>> /\ L.got = {}
  BY HeldOne DEF Complete
<1>2. ended(L) = [L EXCEPT !.stack = <<>>]
  BY <1>1, PopOne DEF ended
<1> QED
  BY <1>1, <1>2, NewStack DEF NoLocks

\* A locker_end gives it back, and another one gives up all (locker.c:119-133).
LEMMA EndedTwo ==
  ASSUME NEW L \in LockerType, NEW A, NEW B, HasTwo(L, A, B), L.want = {}
  PROVE  /\ ended(L) \in LockerType /\ ended(L).stack = <<A>> /\ Complete(ended(L))
         /\ HasOne(ended(L), A) /\ ended(ended(L)) = NoLocks
         /\ Held(ended(L)) = A
<1>1. L.stack = <<A, B>> /\ L.got = {}
  BY HeldTwo DEF Complete
<1>2. ended(L) = [stack |-> <<A>>, got |-> {}, want |-> {}]
  <2>1. ended(L) = [L EXCEPT !.stack = <<A>>]
    BY <1>1, PopTwo DEF ended
  <2> QED
    BY <1>1, <2>1, NewStack
<1>3. A \in SUBSET Locks
  BY <1>1 DEF LockerType
<1>4. ended(L) \in LockerType
  BY <1>2, <1>3 DEF LockerType
<1>5. HasOne(ended(L), A) /\ ended(L).want = {}
  BY <1>2 DEF HasOne, Complete
<1> QED
  BY <1>2, <1>4, <1>5, EndedOne, PushOne, PushTwo, PopOne, PopTwo, LocksOfNone,
     LocksOfOne, LocksOfTwo DEF Complete, Held

\* A section that locks one object (locker.c:89-92).
LEMMA TakenOne ==
  ASSUME NEW k \in Locks
  PROVE  /\ taken(k, NoLocks) \in LockerType /\ taken(k, NoLocks).stack = <<{k}>>
         /\ HasOne(taken(k, NoLocks), {k}) /\ Complete(taken(k, NoLocks))
         /\ Held(taken(k, NoLocks)) = {k}
<1>1. taken(k, NoLocks) = [stack |-> <<{k}>>, got |-> {}, want |-> {}]
  <2>1. taken(k, NoLocks) = [NoLocks EXCEPT !.stack = <<{k}>>]
    BY PushOne, NoLocksType DEF taken
  <2> QED
    BY <2>1, NewStack, NoLocksType
<1> QED
  BY <1>1, PushOne, PushTwo, PopOne, PopTwo, LocksOfNone, LocksOfOne, LocksOfTwo
     DEF LockerType, HasOne, Complete, Held

\* The next lock is added to the entry in the making, the last one ends it
\* (locker.c:81-87).
LEMMA AddedMaking ==
  ASSUME NEW L \in LockerType, NEW A, Making(L, A), NEW k \in L.want,
         \A j \in L.want : Id(k) <= Id(j)
  PROVE  /\ locker_entry_add(k, L) \in LockerType
         /\ \/ /\ locker_entry_add(k, L).stack = Append(L.stack, A)
               /\ Complete(locker_entry_add(k, L))
            \/ /\ locker_entry_add(k, L).stack = L.stack
               /\ Making(locker_entry_add(k, L), A)
<1> DEFINE M == locker_entry_add(k, L)
<1>0. L.want \subseteq Locks /\ L.got \subseteq Locks /\ A \in SUBSET Locks /\ k \in Locks
  BY DEF LockerType, Making
<1>1. CASE L.want = {k}
  <2>1. M = [stack |-> Append(L.stack, A), got |-> {}, want |-> {}]
    BY <1>1 DEF locker_entry_add, Making
  <2>2. Append(L.stack, A) \in Seq(SUBSET Locks)
    BY <1>0, AppendProperties DEF LockerType
  <2> QED
    BY <2>1, <2>2 DEF LockerType, Complete
<1>2. CASE L.want # {k}
  <2>1. M = [L EXCEPT !.got = @ \cup {k}, !.want = @ \ {k}]
    BY <1>2 DEF locker_entry_add
  <2> DEFINE got == L.got \cup {k}
             want == L.want \ {k}
  <2>0. got \in SUBSET Locks /\ want \in SUBSET Locks
    BY <1>0
  <2>2. /\ M.stack = L.stack /\ M.got = L.got \cup {k} /\ M.want = L.want \ {k}
        /\ M \in LockerType
    <3>1. M = [L EXCEPT !.got = got, !.want = want]
      BY <2>1
    <3> HIDE DEF got, want
    <3>2. M = [stack |-> L.stack, got |-> got, want |-> want]
      BY <3>1 DEF LockerType
    <3>3. M \in LockerType
      BY <2>0, <3>2 DEF LockerType
    <3> QED
      BY <3>2, <3>3 DEF got, want
  <2>3. \A j \in M.got, i \in M.want : Id(j) < Id(i)
    <3> SUFFICES ASSUME NEW j \in M.got, NEW i \in M.want
                 PROVE  Id(j) < Id(i)
      OBVIOUS
    <3>1. CASE j \in L.got
      BY <2>2, <3>1 DEF Making
    <3>2. CASE j = k
      <4>1. i \in L.want /\ i # k
        BY <2>2
      <4>2. Id(k) <= Id(i) /\ Id(k) # Id(i) /\ Id(k) \in Nat /\ Id(i) \in Nat
        BY <1>0, <4>1, IdType
      <4> QED
        BY <3>2, <4>2
    <3> QED
      BY <2>2, <3>1, <3>2
  <2>4. M.want # {} /\ M.got \cap M.want = {} /\ M.got \cup M.want = A
    BY <1>2, <2>2 DEF Making
  <2> QED
    BY <2>2, <2>3, <2>4 DEF Making
<1> QED
  BY <1>1, <1>2

\* Taking the next lock of an entry leaves the locks of the thread as they were
\* said to be (locker.c:39-41),
LEMMA AddedOne ==
  ASSUME NEW L \in LockerType, NEW A, HasOne(L, A), NEW k \in L.want,
         \A j \in L.want : Id(k) <= Id(j)
  PROVE  /\ locker_entry_add(k, L) \in LockerType
         /\ HasOne(locker_entry_add(k, L), A)
<1>1. L.stack = <<>> /\ Making(L, A)
  BY DEF HasOne, Complete
<1> QED
  BY <1>1, AddedMaking, PushOne, PushTwo, PopOne, PopTwo, LocksOfNone,
     LocksOfOne, LocksOfTwo DEF HasOne

\* also when it is the second entry.
LEMMA AddedTwo ==
  ASSUME NEW L \in LockerType, NEW A, NEW B, HasTwo(L, A, B), NEW k \in L.want,
         \A j \in L.want : Id(k) <= Id(j)
  PROVE  /\ locker_entry_add(k, L) \in LockerType
         /\ HasTwo(locker_entry_add(k, L), A, B)
<1>1. L.stack = <<A>> /\ Making(L, B)
  BY DEF HasTwo, Complete
<1> QED
  BY <1>1, AddedMaking, PushOne, PushTwo, PopOne, PopTwo, LocksOfNone,
     LocksOfOne, LocksOfTwo DEF HasTwo

\* Either way the thread has one lock more.
LEMMA HeldAdded ==
  ASSUME NEW L \in LockerType, NEW k \in L.want
  PROVE  Held(locker_entry_add(k, L)) \subseteq Held(L) \cup {k}
<1>1. CASE L.want = {k}
  <2> DEFINE A == L.got \cup {k}
  <2>1. locker_entry_add(k, L) = [stack |-> Append(L.stack, A), got |-> {}, want |-> {}]
    BY <1>1 DEF locker_entry_add
  <2>2. ToSet(Append(L.stack, A)) \subseteq ToSet(L.stack) \cup {A}
    <3>1. L.stack \in Seq(SUBSET Locks) /\ A \in SUBSET Locks
      BY DEF LockerType
    <3> QED
      BY <3>1 DEF ToSet
  <2>3. UNION ToSet(Append(L.stack, A)) \subseteq (UNION ToSet(L.stack)) \cup A
    BY <2>2
  <2> HIDE DEF A
  <2>4. Held(locker_entry_add(k, L)) \subseteq (UNION ToSet(L.stack)) \cup A
    BY <2>1, <2>3 DEF Held
  <2> QED
    BY <2>4 DEF Held, A
<1>2. CASE L.want # {k}
  BY <1>2 DEF locker_entry_add, Held, LockerType
<1> QED
  BY <1>1, <1>2

\* A thread that takes only free locks keeps locks exclusive (idlock.c:28).
LEMMA ExclusiveStep ==
  ASSUME Exclusive, NEW u \in Threads, NEW L,
         locker \in [Threads -> LockerType],
         locker' = [locker EXCEPT ![u] = L],
         \A k \in Held(L) : k \in HeldBy(u) \/ FreeFor(u, k)
  PROVE  Exclusive'
<1>1. \A t \in Threads : HeldBy(t)' = IF t = u THEN Held(L) ELSE HeldBy(t)
  BY DEF HeldBy, Held
<1> SUFFICES ASSUME NEW t \in Threads, NEW k, k \in HeldBy(t)',
                    NEW v \in Threads \ {t}
             PROVE  k \notin HeldBy(v)'
  BY DEF Exclusive, FreeFor
<1>2. CASE t = u
  BY <1>1, <1>2 DEF Exclusive, FreeFor
<1>3. CASE v = u
  BY <1>1, <1>3 DEF Exclusive, FreeFor
<1>4. CASE t # u /\ v # u
  BY <1>1, <1>4 DEF Exclusive, FreeFor
<1> QED
  BY <1>2, <1>3, <1>4

-----------------------------------------------------------------------------
(* Types *)

PollLists == {"collect", "recovery_list", "rebuild_list", "clean_list"}

\* Where a thread has no lock.
Between == {"idle", "run", "merged", "poll", "phantomize", "recover", "links",
            "await", "rebuild", "clean", "unlinks", "dec", "del", "finish"}

\* Where it has an object in hand, and where that object's neighbour too.
HasObject == {"phantomize", "update", "updated", "links", "link", "equals",
              "recover", "await", "rebuild", "relink", "clean", "unlinks",
              "unlink", "dec", "del", "set", "merge", "merging", "forward"}

HasTarget == {"link", "relink", "unlink", "set", "merge", "merging", "forward",
              "equals", "add"}

PCs == Between \cup HasObject \cup HasTarget \cup {"put", "walk", "ending", "terminate"}

Thread ==
  [pc: PCs, c: Collectors \cup {NULL}, list: PollLists \cup {"delete", NULL},
   o: Objects \cup {NULL}, t: Objects \cup {NULL}, todo: SUBSET Objects,
   x: Collectors \cup {NULL}, y: Collectors \cup {NULL}, n: 0 .. 5,
   e: Objects \cup {NULL}, at: (Collectors \X ListNames) \cup {NULL}]

Collector ==
  [state: {"none", "live", "freed"}, forward: Collectors \cup {NULL},
   data: [ListNames -> Seq(Objects)], to: [ListNames -> Collectors \cup {NULL}]]

Object ==
  [collector: Collectors \cup {NULL}, phantom: Int, phantomized: BOOLEAN,
   root: BOOLEAN, links: SUBSET Objects, phantoms: SUBSET Objects]

TypeOK ==
  /\ coll \in [Collectors -> Collector]
  /\ obj \in [Objects -> Object]
  /\ th \in [Threads -> Thread]
  /\ work \in Seq(Objects \cup Collectors)
  /\ LockerTypeOK

\* What is set where r, the thread u, is.
FieldsOK(r, u) ==
  /\ r.pc \in HasObject => r.o # NULL
  /\ r.pc \in HasTarget => r.t # NULL
  /\ r.pc \in {"run", "merged", "poll", "finish", "ending", "terminate"} => r.c # NULL
  /\ r.list \in PollLists => r.c # NULL
  /\ r.pc \in {"poll", "put", "walk"} => r.list \in PollLists
  /\ r.pc \in {"clean", "dec"} => r.list = "clean_list"
  /\ r.pc \in {"phantomize", "links", "link", "equals"} => r.list = "collect"
  /\ r.pc \in {"update", "updated"} =>
       r.list \in {"collect", "recovery_list", "rebuild_list"}
  /\ r.pc \in {"recover", "await", "rebuild", "relink"} =>
       r.list \in {"recovery_list", "rebuild_list"}
  /\ r.pc \in {"unlinks", "unlink"} => r.list \in {"clean_list", "delete"}
  /\ r.pc = "add" => /\ r.list \in {NULL, "collect", "clean_list", "delete"}
                     /\ r.list # NULL => r.o # NULL
  /\ r.pc \in {"merge", "merging", "forward"} /\ u # Mutator => r.list = "collect"
  /\ r.pc \in {"put", "walk"} <=> r.at # NULL
  /\ r.pc \in {"put", "walk"} =>
       /\ r.e # NULL
       /\ r.at[2] = "rebuild_list" =>
            r.o # NULL /\ r.t # NULL /\ r.list \in {"recovery_list", "rebuild_list"}
  /\ r.x # NULL => r.pc \in {"add", "update", "merging", "forward", "equals"}
  /\ r.pc \in {"add", "update", "merging", "forward"} => r.x # NULL
  /\ r.y # NULL => r.pc \in {"merging", "forward", "equals"}
  /\ r.pc \in {"merging", "forward"} => r.y # NULL
  /\ r.pc # "forward" => r.n = 0

-----------------------------------------------------------------------------
(* Locks *)

\* The locks of collector_run's last section: the forward pointer was read
\* before the collector was locked.
EndSets(c, f) == {{c}, {c, f} \ {NULL}}

\* L fits thread r, whose collector forwards to f.
LocksFit(r, L, f) ==
  /\ r.pc \in Between => L = NoLocks
  /\ r.pc \in {"put", "walk"} =>
       IF r.at[2] = "rebuild_list" THEN HasOne(L, {r.o, r.t}) ELSE L = NoLocks
  /\ r.pc \in {"link", "relink", "unlink", "set", "merge"} => HasOne(L, {r.o, r.t})
  /\ r.pc = "updated" => HasOne(L, {r.o})
  /\ r.pc = "update" => HasTwo(L, {r.o}, {r.x})
  /\ r.pc = "add" =>
       HasTwo(L, IF r.list = NULL THEN {r.t} ELSE {r.o, r.t}, {r.x, r.t})
  /\ r.pc \in {"merging", "forward"} =>
       HasTwo(L, {r.o, r.t}, {r.x, r.y, r.o, r.t})
  /\ r.pc = "forward" => L.want = {}
  /\ r.pc = "equals" => HasTwo(L, {r.o, r.t}, {r.x} \ {NULL})
  /\ r.pc = "ending" => \E A \in EndSets(r.c, f) : HasOne(L, A)
  /\ r.pc = "terminate" =>
       \E A \in EndSets(r.c, f) : HasTwo(L, A, {r.c, f} \ {NULL})

-----------------------------------------------------------------------------
(* Chains of collectors *)

\* Where pointers lead from each collector: its own, or those of its lists.
Ahead(cs) == [d \in Collectors |-> {cs[d].forward} \ {NULL}]

Listed(cs) == [d \in Collectors |-> {cs[d].to[l] : l \in ListNames} \ {NULL}]

Closed(E, S) == \A d \in S : E[d] \subseteq S

\* What they lead to, in any number of steps.
Reach(E, c) ==
  {d \in Collectors : \A S \in SUBSET Collectors : c \in S /\ Closed(E, S) => d \in S}

\* d is met on the way from object o's collector.
Leads(cs, os, o, d) ==
  os[o].collector # NULL /\ d \in Reach(Ahead(cs), os[o].collector)

\* What r follows.
Follows(r, cs, os) ==
  /\ r.pc = "add" => Leads(cs, os, r.t, r.x)
  /\ r.pc = "update" => Leads(cs, os, r.o, r.x)
  /\ r.pc \in {"merging", "forward"} =>
       Leads(cs, os, r.o, r.x) /\ Leads(cs, os, r.t, r.y)
  /\ r.pc = "merging" /\ r.x = r.y => cs[r.x].forward # NULL
  /\ r.pc = "forward" =>
       /\ r.x # r.y /\ cs[r.x].forward = NULL /\ cs[r.y].forward = NULL
       /\ \A i \in 1 .. r.n : cs[r.x].to[ForwardOrder[i]] = r.y
  /\ r.pc = "equals" => r.x = r.y /\ (r.x # NULL => os[r.o].collector = r.x)
  /\ r.pc \in {"put", "walk"} => r.at[1] \in Reach(Listed(cs), r.c)

\* Nothing refers to the collector that a worker is about to free.
Ends == \A t \in Threads : th[t].pc = "terminate" => Refs(th[t].c) = {}

-----------------------------------------------------------------------------
(* The collectors *)

\* What is referred to is live.
RefsLive == \A c \in Collectors : Refs(c) # {} => coll[c].state = "live"

\* A list is forwarded with its collector, or while that is being merged.
ToOK ==
  \A c \in Collectors, l \in ListNames :
    coll[c].to[l] # NULL =>
      \/ coll[c].forward = coll[c].to[l]
      \/ \E u \in Threads :
           th[u].pc = "forward" /\ th[u].x = c /\ th[u].y = coll[c].to[l]

\* A collector is forwarded with all its lists.
AllForwarded ==
  \A c \in Collectors : coll[c].forward # NULL =>
    \A l \in ListNames : coll[c].to[l] # NULL

\* Each collector that is queued or run is so once, and live.
RunOnce ==
  /\ \A i, j \in DOMAIN work : work[i] \in Collectors /\ work[i] = work[j] => i = j
  /\ \A t \in Threads, i \in DOMAIN work : th[t].c # work[i]
  /\ \A t, u \in Threads : th[t].c # NULL /\ th[t].c = th[u].c => t = u

TasksLive ==
  /\ \A i \in DOMAIN work : work[i] \in Collectors => coll[work[i]].state = "live"
  /\ \A t \in Threads : th[t].c # NULL => coll[th[t].c].state = "live"

\* What the collector of a thread forwards to.
ForwardOf(r) == IF r.c = NULL THEN NULL ELSE coll[r.c].forward

ThreadOK(t) ==
  /\ FieldsOK(th[t], t)
  /\ LocksFit(th[t], locker[t], ForwardOf(th[t]))
  /\ Follows(th[t], coll, obj)

\* The inductive invariant.
IInv ==
  /\ TypeOK /\ Exclusive
  /\ \A t \in Threads : ThreadOK(t)
  /\ Ends /\ RefsLive /\ ToOK /\ AllForwarded /\ NothingStranded
  /\ RunOnce /\ TasksLive
-----------------------------------------------------------------------------
(* Chains *)

\* Null is neither an object nor a collector, and these are what is locked.
LEMMA NullNoLock ==
  /\ NULL \notin Collectors /\ NULL \notin Objects
  /\ Locks = Objects \cup Collectors
BY LockerAssumption, CollectorsAssumption DEF Locks

\* A chain starts with its first collector.
LEMMA ReachSelf ==
  ASSUME NEW E, NEW c \in Collectors
  PROVE  c \in Reach(E, c)
BY DEF Reach

\* A set that pointers do not leave has all that they lead to.
LEMMA ReachIn ==
  ASSUME NEW E, NEW c, NEW S \in SUBSET Collectors, c \in S, Closed(E, S)
  PROVE  Reach(E, c) \subseteq S
BY DEF Reach

\* And goes on with what its last one points to.
LEMMA ReachStep ==
  ASSUME NEW E, NEW c, NEW d \in Reach(E, c), NEW f \in Collectors, f \in E[d]
  PROVE  f \in Reach(E, c)
<1> SUFFICES ASSUME NEW S \in SUBSET Collectors, c \in S, Closed(E, S)
             PROVE  f \in S
  BY DEF Reach
<1>1. d \in S
  BY DEF Reach
<1> QED
  BY <1>1 DEF Closed

\* New pointers, and the loss of those of a collector z that none leads to,
\* take nothing away from what the others lead to.
LEMMA ReachKept ==
  ASSUME NEW E, NEW F, NEW z, NEW c, c # z, NEW d \in Reach(E, c),
         \A x \in Collectors : z \notin E[x],
         \A x \in Collectors \ {z} : E[x] \subseteq F[x]
  PROVE  d \in Reach(F, c)
<1> SUFFICES ASSUME NEW S \in SUBSET Collectors, c \in S, Closed(F, S)
             PROVE  d \in S
  BY DEF Reach
<1> DEFINE T == S \ {z}
<1>1. T \in SUBSET Collectors /\ c \in T
  OBVIOUS
<1>2. Closed(E, T)
  BY DEF Closed
<1>3. d \in T
  BY <1>1, <1>2, ReachIn
<1> QED
  BY <1>3

-----------------------------------------------------------------------------
(* What pointers lead to has references *)

\* What pointers lead to is a collector with a reference: counter_done is
\* false for it (counter.c:50-56).
LEMMA LedRefs ==
  ASSUME TypeOK, NEW o \in Objects, NEW d, Leads(coll, obj, o, d)
  PROVE  d \in Collectors /\ Refs(d) # {}
<1> DEFINE S == {c \in Collectors : Refs(c) # {}}
           c == obj[o].collector
<1>1. c \in Collectors /\ o \in Refs(c)
  BY DEF TypeOK, Object, Leads, Refs
<1>2. Closed(Ahead(coll), S)
  <2> SUFFICES ASSUME NEW x \in Collectors, NEW y \in Ahead(coll)[x]
               PROVE  y \in Collectors /\ x \in Refs(y)
    BY DEF Closed
  <2>1. y = coll[x].forward /\ y # NULL
    BY DEF Ahead
  <2> QED
    BY <2>1 DEF TypeOK, Collector, Refs
<1>3. d \in S
  BY <1>1, <1>2, ReachIn DEF Leads
<1> QED
  BY <1>3

\* One more forward pointer may be followed.
LEMMA LeadsStep ==
  ASSUME TypeOK, NEW o \in Objects, NEW d, Leads(coll, obj, o, d), coll[d].forward # NULL
  PROVE  Leads(coll, obj, o, coll[d].forward)
<1>1. d \in Collectors /\ coll[d].forward \in Collectors
  BY LedRefs DEF TypeOK, Collector
<1>2. coll[d].forward \in Ahead(coll)[d]
  BY <1>1 DEF Ahead
<1> QED
  BY <1>1, <1>2, ReachStep DEF Leads

\* The two collectors that a thread merges.
LEMMA MergedRefs ==
  ASSUME IInv, NEW t \in Threads, th[t].pc \in {"merging", "forward"}
  PROVE  /\ th[t].o \in Objects /\ th[t].t \in Objects
         /\ th[t].x \in Collectors /\ Refs(th[t].x) # {}
         /\ th[t].y \in Collectors /\ Refs(th[t].y) # {}
<1>1. TypeOK /\ FieldsOK(th[t], t) /\ Follows(th[t], coll, obj)
  BY DEF IInv, ThreadOK
<1>2. th[t].o \in Objects /\ th[t].t \in Objects
  BY <1>1 DEF TypeOK, Thread, FieldsOK, HasObject, HasTarget
<1>3. Leads(coll, obj, th[t].o, th[t].x) /\ Leads(coll, obj, th[t].t, th[t].y)
  BY <1>1 DEF Follows
<1> QED
  BY <1>1, <1>2, <1>3, LedRefs

\* So have the collectors that lists are forwarded to.
LEMMA ListedRefs ==
  ASSUME IInv, NEW c \in Collectors, NEW l \in ListNames, coll[c].to[l] # NULL
  PROVE  coll[c].to[l] \in Collectors /\ Refs(coll[c].to[l]) # {}
<1>1. coll[c].to[l] \in Collectors
  BY DEF IInv, TypeOK, Collector
<1>2. CASE coll[c].forward = coll[c].to[l]
  BY <1>1, <1>2 DEF Refs
<1>3. CASE \E u \in Threads :
             th[u].pc = "forward" /\ th[u].x = c /\ th[u].y = coll[c].to[l]
  BY <1>1, <1>3, MergedRefs
<1> QED
  BY <1>2, <1>3 DEF IInv, ToOK

-----------------------------------------------------------------------------
(* What a step of thread u leaves to the others *)

\* It changes the collectors of objects that no one else has locked.
ObjectsKept(u) ==
  \A p \in Objects : obj'[p].collector = obj[p].collector \/ FreeFor(u, p)

\* It sets forward pointers under the lock of their collector, and frees the
\* collector that the thread runs when there is no reference to it.
PointersKept(u) ==
  \A d \in Collectors :
    \/ coll'[d].forward = coll[d].forward /\ coll'[d].to = coll[d].to
    \/ /\ FreeFor(u, d) /\ coll[d].forward = NULL
       /\ \A l \in ListNames : coll[d].to[l] # NULL => coll'[d].to[l] = coll[d].to[l]
    \/ th[u].c = d /\ Refs(d) = {}

\* The collector that u may free.
Freed(u) == IF Refs(th[u].c) = {} THEN th[u].c ELSE NULL

\* Forward pointers that led somewhere still do, unless they started at the
\* collector that has been freed.
LEMMA AheadKept ==
  ASSUME IInv, NEW u \in Threads, PointersKept(u),
         NEW c, c # Freed(u), NEW d \in Reach(Ahead(coll), c)
  PROVE  d \in Reach(Ahead(coll'), c)
<1> DEFINE z == Freed(u)
<1>1. ASSUME NEW x \in Collectors
      PROVE  z \notin Ahead(coll)[x]
  BY <1>1 DEF Ahead, Freed, Refs
<1>2. ASSUME NEW x \in Collectors \ {z}
      PROVE  Ahead(coll)[x] \subseteq Ahead(coll')[x]
  BY <1>2 DEF PointersKept, Ahead, Freed
<1> QED
  BY <1>1, <1>2, ReachKept

\* So do those of its lists.
LEMMA ListedKept ==
  ASSUME IInv, NEW u \in Threads, PointersKept(u),
         NEW c, c # Freed(u), NEW d \in Reach(Listed(coll), c)
  PROVE  d \in Reach(Listed(coll'), c)
<1> DEFINE z == Freed(u)
<1>1. ASSUME NEW x \in Collectors
      PROVE  z \notin Listed(coll)[x]
  <2>1. CASE z = NULL
    BY <2>1 DEF Listed
  <2>2. CASE z # NULL
    <3>1. Refs(z) = {}
      BY <2>2 DEF Freed
    <3> QED
      BY <3>1, <2>2, ListedRefs DEF Listed
  <2> QED
    BY <2>1, <2>2
<1>2. ASSUME NEW x \in Collectors \ {z}
      PROVE  Listed(coll)[x] \subseteq Listed(coll')[x]
  <2> SUFFICES ASSUME NEW l \in ListNames, coll[x].to[l] # NULL
               PROVE  coll'[x].to[l] = coll[x].to[l]
    BY DEF Listed
  <2> QED
    BY <1>2 DEF PointersKept, Freed
<1> QED
  BY <1>1, <1>2, ReachKept

\* What an object's collector leads to, it still does after another thread's
\* step.
LEMMA LeadsKept ==
  ASSUME IInv, NEW u \in Threads, PointersKept(u),
         NEW o \in Objects, obj'[o].collector = obj[o].collector,
         NEW d, Leads(coll, obj, o, d)
  PROVE  Leads(coll', obj', o, d)
<1>1. obj[o].collector \in Collectors /\ o \in Refs(obj[o].collector)
  BY DEF IInv, TypeOK, Object, Leads, Refs
<1>2. obj[o].collector # Freed(u)
  BY <1>1, NullNoLock DEF Freed
<1> QED
  BY <1>2, AheadKept DEF Leads

\* What a thread has locked where it relies on it.
LEMMA Holds ==
  ASSUME IInv, NEW v \in Threads
  PROVE  /\ th[v].pc = "add" => th[v].t \in HeldBy(v)
         /\ th[v].pc \in {"update", "equals"} => th[v].o \in HeldBy(v)
         /\ th[v].pc \in {"merging", "forward"} =>
              th[v].o \in HeldBy(v) /\ th[v].t \in HeldBy(v)
         /\ th[v].pc = "forward" => th[v].x \in HeldBy(v) /\ th[v].y \in HeldBy(v)
         /\ th[v].pc = "terminate" => th[v].c \in HeldBy(v)
<1> DEFINE r == th[v]
           L == locker[v]
<1>1. LocksFit(r, L, ForwardOf(r)) /\ FieldsOK(r, v)
  BY DEF IInv, ThreadOK
<1>2. HeldBy(v) = Held(L)
  BY DEF HeldBy, Held
<1> HIDE DEF r, L
<1>3. r.pc = "add" => r.t \in Held(L)
  <2> SUFFICES ASSUME r.pc = "add"
               PROVE  r.t \in Held(L)
    OBVIOUS
  <2> DEFINE A == IF r.list = NULL THEN {r.t} ELSE {r.o, r.t}
  <2>1. HasTwo(L, A, {r.x, r.t})
    BY <1>1 DEF LocksFit
  <2>2. r.t \in A
    OBVIOUS
  <2> HIDE DEF A
  <2> QED
    BY <2>1, <2>2, HeldTwo
<1>4. r.pc = "update" => r.o \in Held(L)
  BY <1>1, HeldTwo DEF LocksFit
<1>5. r.pc = "equals" => r.o \in Held(L)
  BY <1>1, HeldTwo DEF LocksFit
<1>6. r.pc \in {"merging", "forward"} => r.o \in Held(L) /\ r.t \in Held(L)
  BY <1>1, HeldTwo DEF LocksFit
<1>7. r.pc = "forward" => r.x \in Held(L) /\ r.y \in Held(L)
  BY <1>1, HeldTwo DEF LocksFit
<1>8. r.pc = "terminate" => r.c \in Held(L)
  <2> SUFFICES ASSUME r.pc = "terminate"
               PROVE  r.c \in Held(L)
    OBVIOUS
  <2>1. PICK A \in EndSets(r.c, ForwardOf(r)) : HasTwo(L, A, {r.c, ForwardOf(r)} \ {NULL})
    BY <1>1 DEF LocksFit
  <2>2. r.c \in A
    BY <1>1, <2>1 DEF EndSets, FieldsOK
  <2> QED
    BY <2>1, <2>2, HeldTwo
<1> QED
  BY <1>2, <1>3, <1>4, <1>5, <1>6, <1>7, <1>8 DEF r, L

\* The other threads are where they were, with the locks they had, and what
\* they follow is there.
LEMMA Others ==
  ASSUME IInv, NEW u \in Threads, ObjectsKept(u), PointersKept(u),
         NEW v \in Threads \ {u}, th'[v] = th[v], locker'[v] = locker[v]
  PROVE  ThreadOK(v)'
<1> DEFINE r == th[v]
           L == locker[v]
<1>0. th[v] \in Thread /\ ThreadOK(v)
  BY DEF IInv, TypeOK
<1>1. FieldsOK(r, v) /\ LocksFit(r, L, ForwardOf(r)) /\ Follows(r, coll, obj)
  BY <1>0 DEF ThreadOK
<1>2. \A k \in HeldBy(v) : ~ FreeFor(u, k)
  BY DEF FreeFor
<1>3. r.c # NULL => r.c # Freed(u)
  BY NullNoLock DEF Freed, IInv, RunOnce
<1>4. r.pc = "terminate" => ForwardOf(r)' = ForwardOf(r)
  <2> SUFFICES ASSUME r.pc = "terminate"
               PROVE  coll'[r.c].forward = coll[r.c].forward
    BY DEF ForwardOf
  <2>1. r.c \in Collectors
    BY <1>0, <1>1 DEF FieldsOK, Thread
  <2>2. r.c \in HeldBy(v) /\ r.c # Freed(u)
    BY <1>3, <2>1, Holds, NullNoLock
  <2> HIDE DEF r
  <2> QED
    BY <1>2, <2>1, <2>2 DEF PointersKept, Freed
<1>5. r.pc = "ending" => ForwardOf(r)' = ForwardOf(r) \/ ForwardOf(r) = NULL
  <2> SUFFICES ASSUME r.pc = "ending"
               PROVE  coll'[r.c].forward = coll[r.c].forward \/ coll[r.c].forward = NULL
    BY DEF ForwardOf
  <2>1. r.c \in Collectors
    BY <1>0, <1>1 DEF FieldsOK, Thread
  <2>2. r.c # Freed(u)
    BY <1>3, <2>1, NullNoLock
  <2> HIDE DEF r
  <2> QED
    BY <2>1, <2>2 DEF PointersKept, Freed
<1>6. LocksFit(r, L, ForwardOf(r)')
  <2>1. r.pc = "ending" => \E A \in EndSets(r.c, ForwardOf(r)') : HasOne(L, A)
    <3> SUFFICES ASSUME r.pc = "ending"
                 PROVE  \E A \in EndSets(r.c, ForwardOf(r)') : HasOne(L, A)
      OBVIOUS
    <3>1. PICK A \in EndSets(r.c, ForwardOf(r)) : HasOne(L, A)
      BY <1>1 DEF LocksFit
    <3>2. A \in EndSets(r.c, ForwardOf(r)')
      <4>1. r.c # NULL
        BY <1>1 DEF FieldsOK
      <4> QED
        BY <1>5, <3>1, <4>1 DEF EndSets
    <3> QED
      BY <3>1, <3>2
  <2> HIDE DEF r, L
  <2> QED
    BY <1>1, <1>4, <2>1 DEF LocksFit
<1>7. Follows(r, coll', obj')
  <2>1. ASSUME NEW o \in Objects, o \in HeldBy(v), NEW d, Leads(coll, obj, o, d)
        PROVE  Leads(coll', obj', o, d)
    BY <1>2, <2>1, LeadsKept DEF ObjectsKept
  <2>2. r.pc = "add" => Leads(coll', obj', r.t, r.x)
    BY <1>0, <1>1, <2>1, Holds DEF Follows, FieldsOK, Thread, HasTarget
  <2>3. r.pc = "update" => Leads(coll', obj', r.o, r.x)
    BY <1>0, <1>1, <2>1, Holds DEF Follows, FieldsOK, Thread, HasObject
  <2>4. r.pc \in {"merging", "forward"} =>
          Leads(coll', obj', r.o, r.x) /\ Leads(coll', obj', r.t, r.y)
    BY <1>0, <1>1, <2>1, Holds, MergedRefs DEF Follows
  <2>5. r.pc = "merging" /\ r.x = r.y => coll'[r.x].forward # NULL
    <3> SUFFICES ASSUME r.pc = "merging", r.x = r.y
                 PROVE  coll'[r.x].forward # NULL
      OBVIOUS
    <3>1. coll[r.x].forward # NULL /\ r.x \in Collectors /\ Refs(r.x) # {}
      BY <1>1, MergedRefs DEF Follows
    <3> QED
      BY <3>1 DEF PointersKept
  <2>6. r.pc = "forward" =>
          /\ r.x # r.y /\ coll'[r.x].forward = NULL /\ coll'[r.y].forward = NULL
          /\ \A i \in 1 .. r.n : coll'[r.x].to[ForwardOrder[i]] = r.y
    <3> SUFFICES ASSUME r.pc = "forward"
                 PROVE  /\ r.x # r.y
                        /\ coll'[r.x].forward = NULL /\ coll'[r.y].forward = NULL
                        /\ \A i \in 1 .. r.n : coll'[r.x].to[ForwardOrder[i]] = r.y
      OBVIOUS
    <3>1. /\ r.x \in Collectors /\ Refs(r.x) # {} /\ ~ FreeFor(u, r.x)
          /\ r.y \in Collectors /\ Refs(r.y) # {} /\ ~ FreeFor(u, r.y)
      BY <1>2, MergedRefs, Holds
    <3>2. /\ coll'[r.x].forward = coll[r.x].forward /\ coll'[r.x].to = coll[r.x].to
          /\ coll'[r.y].forward = coll[r.y].forward
      BY <3>1 DEF PointersKept
    <3> QED
      BY <1>1, <3>2 DEF Follows
  <2>7. r.pc = "equals" => r.x = r.y /\ (r.x # NULL => obj'[r.o].collector = r.x)
    <3> SUFFICES ASSUME r.pc = "equals"
                 PROVE  obj'[r.o].collector = obj[r.o].collector
      BY <1>1 DEF Follows
    <3>1. r.o \in Objects /\ r.o \in HeldBy(v)
      BY <1>0, <1>1, Holds DEF FieldsOK, Thread, HasObject
    <3> QED
      BY <1>2, <3>1 DEF ObjectsKept
  <2>8. r.pc \in {"put", "walk"} => r.at[1] \in Reach(Listed(coll'), r.c)
    <3> SUFFICES ASSUME r.pc \in {"put", "walk"}
                 PROVE  r.at[1] \in Reach(Listed(coll'), r.c)
      OBVIOUS
    <3>1. r.c # NULL /\ r.at[1] \in Reach(Listed(coll), r.c)
      BY <1>1 DEF Follows, FieldsOK, PollLists
    <3> QED
      BY <1>3, <3>1, ListedKept
  <2> HIDE DEF r, L
  <2> QED
    BY <2>2, <2>3, <2>4, <2>5, <2>6, <2>7, <2>8 DEF Follows
<1> QED
  <2>1. th'[v] = r /\ locker'[v] = L
    OBVIOUS
  <2>2. FieldsOK(r, v)
    BY <1>1
  <2> QED
    BY <1>6, <1>7, <2>1, <2>2 DEF ThreadOK, ForwardOf

-----------------------------------------------------------------------------
(* What the invariant says of the properties *)

\* The collectors at hand, but for the one that is run, have references.
LEMMA FollowedRefs ==
  ASSUME IInv, NEW t \in Threads
  PROVE  /\ th[t].x # NULL => th[t].x \in Collectors /\ Refs(th[t].x) # {}
         /\ th[t].y # NULL => th[t].y \in Collectors /\ Refs(th[t].y) # {}
         /\ ForwardOf(th[t]) # NULL =>
              ForwardOf(th[t]) \in Collectors /\ Refs(ForwardOf(th[t])) # {}
<1> DEFINE r == th[t]
<1>1. TypeOK /\ r \in Thread /\ FieldsOK(r, t) /\ Follows(r, coll, obj)
  BY DEF IInv, TypeOK, ThreadOK
<1>2. ForwardOf(r) # NULL =>
        ForwardOf(r) \in Collectors /\ Refs(ForwardOf(r)) # {}
  BY <1>1 DEF ForwardOf, TypeOK, Thread, Collector, Refs
<1> SUFFICES /\ r.x # NULL => r.x \in Collectors /\ Refs(r.x) # {}
             /\ r.y # NULL => r.y \in Collectors /\ Refs(r.y) # {}
  BY <1>2
<1>3. CASE r.pc = "add"
  <2>1. r.t \in Objects /\ Leads(coll, obj, r.t, r.x) /\ r.y = NULL
    BY <1>1, <1>3 DEF Thread, FieldsOK, HasTarget, Follows
  <2> QED
    BY <1>1, <2>1, LedRefs
<1>4. CASE r.pc = "update"
  <2>1. r.o \in Objects /\ Leads(coll, obj, r.o, r.x) /\ r.y = NULL
    BY <1>1, <1>4 DEF Thread, FieldsOK, HasObject, Follows
  <2> QED
    BY <1>1, <2>1, LedRefs
<1>5. CASE r.pc = "equals"
  <2>1. r.o \in Objects /\ r.x = r.y /\ (r.x # NULL => obj[r.o].collector = r.x)
    BY <1>1, <1>5 DEF Thread, FieldsOK, HasObject, Follows
  <2>2. r.x # NULL => r.x \in Collectors /\ r.o \in Refs(r.x)
    BY <1>1, <2>1 DEF TypeOK, Thread, Refs
  <2> QED
    BY <2>1, <2>2
<1>6. r.pc \notin {"add", "update", "equals", "merging", "forward"} =>
        r.x = NULL /\ r.y = NULL
  BY <1>1 DEF FieldsOK
<1>7. CASE r.pc \in {"merging", "forward"}
  BY <1>7, MergedRefs
<1> QED
  BY <1>3, <1>4, <1>5, <1>6, <1>7

\* A thread takes the locks of what it has at hand, and of no other.
LEMMA LocksAtHand ==
  ASSUME IInv, NEW t \in Threads
  PROVE  HeldBy(t) \cup locker[t].want \subseteq
           {th[t].o, th[t].t, th[t].x, th[t].y, th[t].c, ForwardOf(th[t])}
<1> DEFINE r == th[t]
           L == locker[t]
           S == {r.o, r.t, r.x, r.y, r.c, ForwardOf(r)}
<1>1. r.pc \in PCs /\ LocksFit(r, L, ForwardOf(r))
  BY DEF IInv, TypeOK, Thread, ThreadOK
<1>2. HeldBy(t) = Held(L)
  BY DEF HeldBy, Held
<1> SUFFICES Held(L) \cup L.want \subseteq S
  BY <1>2
<1> HIDE DEF r, L
<1>3. ASSUME NEW A \in SUBSET S, HasOne(L, A)
      PROVE  Held(L) \cup L.want \subseteq S
  BY <1>3, HeldOne
<1>4. ASSUME NEW A \in SUBSET S, NEW B \in SUBSET S, HasTwo(L, A, B)
      PROVE  Held(L) \cup L.want \subseteq S
  BY <1>4, HeldTwo
<1>5. ASSUME L = NoLocks
      PROVE  Held(L) \cup L.want \subseteq S
  BY <1>5, NoLocksType, LocksOfNone DEF Held
<1>6. CASE r.pc \in Between
  BY <1>1, <1>5, <1>6 DEF LocksFit
<1>7. CASE r.pc \in {"put", "walk"}
  <2>1. {r.o, r.t} \in SUBSET S
    OBVIOUS
  <2> HIDE DEF S
  <2> QED
    BY <1>1, <1>3, <1>5, <1>7, <2>1 DEF LocksFit
<1>8. CASE r.pc \in {"link", "relink", "unlink", "set", "merge"}
  <2>1. {r.o, r.t} \in SUBSET S
    OBVIOUS
  <2> HIDE DEF S
  <2> QED
    BY <1>1, <1>3, <1>8, <2>1 DEF LocksFit
<1>9. CASE r.pc = "updated"
  <2>1. {r.o} \in SUBSET S
    OBVIOUS
  <2> HIDE DEF S
  <2> QED
    BY <1>1, <1>3, <1>9, <2>1 DEF LocksFit
<1>10. CASE r.pc = "update"
  <2>1. {r.o} \in SUBSET S /\ {r.x} \in SUBSET S
    OBVIOUS
  <2> HIDE DEF S
  <2> QED
    BY <1>1, <1>4, <1>10, <2>1 DEF LocksFit
<1>11. CASE r.pc = "add"
  <2>1. {r.x, r.t} \in SUBSET S /\ {r.t} \in SUBSET S /\ {r.o, r.t} \in SUBSET S
    OBVIOUS
  <2> HIDE DEF S
  <2> QED
    BY <1>1, <1>4, <1>11, <2>1 DEF LocksFit
<1>12. CASE r.pc \in {"merging", "forward"}
  <2>1. {r.o, r.t} \in SUBSET S /\ {r.x, r.y, r.o, r.t} \in SUBSET S
    OBVIOUS
  <2> HIDE DEF S
  <2> QED
    BY <1>1, <1>4, <1>12, <2>1 DEF LocksFit
<1>13. CASE r.pc = "equals"
  <2>1. {r.o, r.t} \in SUBSET S /\ {r.x} \ {NULL} \in SUBSET S
    OBVIOUS
  <2> HIDE DEF S
  <2> QED
    BY <1>1, <1>4, <1>13, <2>1 DEF LocksFit
<1>14. \A A \in EndSets(r.c, ForwardOf(r)) : A \in SUBSET S
  BY DEF EndSets
<1>15. CASE r.pc = "ending"
  <2> HIDE DEF S
  <2> QED
    BY <1>1, <1>3, <1>14, <1>15 DEF LocksFit
<1>16. CASE r.pc = "terminate"
  <2>1. {r.c, ForwardOf(r)} \ {NULL} \in SUBSET S
    OBVIOUS
  <2> HIDE DEF S
  <2> QED
    BY <1>1, <1>4, <1>14, <1>16, <2>1 DEF LocksFit
<1> HIDE DEF S
<1> QED
  BY <1>1, <1>6, <1>7, <1>8, <1>9, <1>10, <1>11, <1>12, <1>13, <1>15, <1>16
  DEF PCs, Between, HasObject, HasTarget

\* No thread follows a freed collector (object.c:380-383, safelist.c:31,
\* collector.c:126).
LEMMA AliveInvariant == IInv => CollectorsAlive
<1> SUFFICES ASSUME IInv
             PROVE  CollectorsAlive
  OBVIOUS
<1>1. \A c \in Collectors : coll[c].state = "freed" => Refs(c) = {}
  BY DEF IInv, RefsLive
<1>2. ASSUME NEW t \in Threads, NEW c \in Followed(t) \ {NULL}
      PROVE  coll[c].state = "live"
  <2> DEFINE r == th[t]
  <2>0. r \in Thread /\ FieldsOK(r, t) /\ Follows(r, coll, obj)
    BY DEF IInv, TypeOK, ThreadOK
  <2>1. CASE c = r.c
    BY <2>1 DEF IInv, TasksLive
  <2>2. CASE c \in {r.x, r.y, ForwardOf(r)}
    BY <2>2, FollowedRefs DEF IInv, RefsLive
  <2>3. CASE r.at # NULL /\ c = r.at[1]
    <3> DEFINE S == {d \in Collectors : coll[d].state = "live"}
    <3>1. r.pc \in {"put", "walk"}
      BY <2>0, <2>3 DEF FieldsOK
    <3>2. r.c \in Collectors /\ c \in Reach(Listed(coll), r.c)
      BY <2>0, <2>3, <3>1 DEF FieldsOK, Follows, Thread
    <3>3. r.c \in S
      BY <3>2, NullNoLock DEF IInv, TasksLive
    <3>4. Closed(Listed(coll), S)
      <4> SUFFICES ASSUME NEW d \in S, NEW l \in ListNames, coll[d].to[l] # NULL
                   PROVE  coll[d].to[l] \in S
        BY DEF Closed, Listed
      <4> QED
        BY ListedRefs DEF IInv, RefsLive
    <3> QED
      BY <3>2, <3>3, <3>4, ReachIn
  <2>4. c \in {r.c, r.x, r.y, ForwardOf(r)} \/ (r.at # NULL /\ c = r.at[1])
    <3>1. r.o \in Objects \cup {NULL} /\ r.t \in Objects \cup {NULL}
      BY <2>0 DEF Thread
    <3> QED
      BY <3>1, LocksAtHand DEF Followed
  <2> QED
    BY <2>1, <2>2, <2>3, <2>4
<1> QED
  BY <1>1, <1>2 DEF CollectorsAlive

\* A thread between two calls has no lock (collector.c:172-175).
LEMMA ReleasedInvariant == IInv => LocksReleased
<1> SUFFICES ASSUME IInv, NEW t \in Threads
             PROVE  /\ th[t].pc \in {"idle", "run", "merged", "poll", "links",
                                     "rebuild", "unlinks", "dec", "finish"} =>
                         locker[t] = NoLocks
                    /\ th[t].pc # "failed"
  BY DEF LocksReleased
<1>1. th[t].pc \in PCs /\ LocksFit(th[t], locker[t], ForwardOf(th[t]))
  BY DEF IInv, TypeOK, Thread, ThreadOK
<1> QED
  BY <1>1 DEF LocksFit, Between, PCs, HasObject, HasTarget

\* A lock that comes after those of entry A and goes into entry B, in the order
\* of the ids, comes after all that a thread holds.
LEMMA InOrder ==
  ASSUME NEW L \in LockerType, NEW A, NEW B, HasTwo(L, A, B), NEW k \in L.want,
         k \notin Held(L), A \subseteq Objects,
         B \subseteq Objects \cup Collectors, B \cap Objects \subseteq A
  PROVE  \A j \in Held(L) : Rank(j) < Rank(k)
<1>1. Held(L) = A \cup L.got /\ Making(L, B) /\ A \subseteq Held(L)
  BY HeldTwo DEF HasTwo, Complete
<1>2. k \in Collectors /\ k \in Locks
  BY <1>1, NullNoLock DEF Making
<1> SUFFICES ASSUME NEW j \in Held(L)
             PROVE  Rank(j) < Rank(k)
  OBVIOUS
<1>3. CASE j \in Objects
  BY <1>2, <1>3, NestingAssumption, NullNoLock
<1>4. CASE j \notin Objects
  <2>1. j \in L.got /\ j \in Locks
    BY <1>1, <1>4, NullNoLock DEF Making
  <2>2. Id(j) < Id(k) /\ k \notin Objects
    BY <1>1, <1>2, <2>1, CollectorsAssumption DEF Making
  <2> QED
    BY <1>2, <1>4, <2>1, <2>2, NestingAssumption
<1> QED
  BY <1>3, <1>4

\* The same for the first entry, with locks of one kind.
LEMMA InOrderOne ==
  ASSUME NEW L \in LockerType, NEW A, HasOne(L, A), NEW k \in L.want,
         A \subseteq Objects \/ A \subseteq Collectors
  PROVE  \A j \in Held(L) : Rank(j) < Rank(k)
<1>1. Held(L) = L.got /\ Making(L, A)
  BY HeldOne DEF HasOne, Complete
<1> SUFFICES ASSUME NEW j \in L.got
             PROVE  Rank(j) < Rank(k)
  BY <1>1
<1>2. /\ j \in Locks /\ k \in Locks /\ (j \in Objects <=> k \in Objects)
      /\ Id(j) < Id(k)
  BY <1>1, NullNoLock, CollectorsAssumption DEF Making
<1> QED
  BY <1>2, NestingAssumption

\* No other thread is to take a collector whose worker is about to free it.
LEMMA NotWanted ==
  ASSUME IInv, NEW t \in Threads, th[t].pc = "terminate", NEW u \in Threads \ {t}
  PROVE  th[t].c \notin locker[u].want
<1>1. th[t].c \in Collectors /\ Refs(th[t].c) = {}
  BY DEF IInv, TypeOK, Thread, ThreadOK, FieldsOK, Ends
<1>2. th[u].o \in Objects \cup {NULL} /\ th[u].t \in Objects \cup {NULL}
  BY DEF IInv, TypeOK, Thread
<1>3. th[t].c \notin {th[u].x, th[u].y, ForwardOf(th[u])}
  BY <1>1, NullNoLock, FollowedRefs
<1>4. th[t].c # th[u].c
  BY <1>1, NullNoLock DEF IInv, RunOnce
<1> QED
  BY <1>1, <1>2, <1>3, <1>4, LocksAtHand, NullNoLock, CollectorsAssumption

\* A thread's next lock comes after all those it has that another thread is to
\* take (locker.c:46, object.c:380, collector.c:63).
LEMMA OrderedInvariant == IInv => LocksOrdered
<1> SUFFICES ASSUME IInv, NEW t \in Threads, ~ Ready(t),
                    NextLock(t) \notin HeldBy(t), NEW j \in HeldBy(t)
             PROVE  \/ Rank(j) < Rank(NextLock(t))
                    \/ \A u \in Threads \ {t} : j \notin locker[u].want
  BY DEF LocksOrdered, IInv, TypeOK
<1> DEFINE r == th[t]
           L == locker[t]
           k == NextLock(t)
           f == ForwardOf(r)
<1>1. L \in LockerType /\ k \in L.want /\ j \in Held(L) /\ k \notin Held(L)
  BY WantedLock DEF IInv, TypeOK, LockerTypeOK, LockerType, HeldBy, Held
<1>2. r \in Thread /\ FieldsOK(r, t) /\ LocksFit(r, L, f)
  BY DEF IInv, TypeOK, ThreadOK
<1>3. /\ r.x # NULL => r.x \in Collectors
      /\ r.y # NULL => r.y \in Collectors
      /\ f # NULL => f \in Collectors
  BY FollowedRefs
<1>4. L # NoLocks
  BY <1>1, NoLocksType
<1>5. r.pc = "terminate" => \A u \in Threads \ {t} : r.c \notin locker[u].want
  BY NotWanted
<1> HIDE DEF r, L, k, f
<1> SUFFICES Rank(j) < Rank(k) \/ (r.pc = "terminate" /\ j = r.c)
  BY <1>5 DEF k
<1>6. CASE HasOne(L, {r.o, r.t}) /\ r.o \in Objects /\ r.t \in Objects
  BY <1>1, <1>6, InOrderOne
<1>7. CASE r.pc \in {"put", "walk", "link", "relink", "unlink", "set", "merge"}
  <2>1. r.pc \in HasObject /\ r.pc \in HasTarget => r.o \in Objects /\ r.t \in Objects
    BY <1>2 DEF FieldsOK, Thread
  <2>2. HasOne(L, {r.o, r.t}) /\ r.o \in Objects /\ r.t \in Objects
    BY <1>2, <1>4, <1>7, <2>1 DEF LocksFit, HasObject, HasTarget, FieldsOK, Thread
  <2> QED
    BY <1>6, <2>2
<1>8. CASE r.pc = "updated"
  <2>1. HasOne(L, {r.o}) /\ {r.o} \subseteq Objects
    BY <1>2, <1>8 DEF LocksFit, FieldsOK, HasObject, Thread
  <2> QED
    BY <1>1, <2>1, InOrderOne
<1>9. CASE r.pc = "update"
  <2>1. r.o \in Objects /\ r.x \in Collectors /\ HasTwo(L, {r.o}, {r.x})
    BY <1>2, <1>3, <1>9 DEF LocksFit, FieldsOK, HasObject, Thread
  <2>2. {r.x} \cap Objects = {}
    BY <2>1, CollectorsAssumption
  <2> QED
    BY <1>1, <2>1, <2>2, InOrder
<1>10. CASE r.pc = "add"
  <2> DEFINE A == IF r.list = NULL THEN {r.t} ELSE {r.o, r.t}
  <2>1. r.x \in Collectors /\ HasTwo(L, A, {r.x, r.t}) /\ r.t \in Objects
    BY <1>2, <1>3, <1>10 DEF LocksFit, FieldsOK, HasTarget, Thread
  <2>2. A \subseteq Objects /\ r.t \in A
    BY <1>2, <1>10, <2>1 DEF FieldsOK, HasTarget, Thread
  <2>3. {r.x, r.t} \cap Objects \subseteq A
    BY <2>1, <2>2, CollectorsAssumption
  <2> HIDE DEF A
  <2> QED
    BY <1>1, <2>1, <2>2, <2>3, InOrder
<1>11. CASE r.pc \in {"merging", "forward"}
  <2>1. /\ r.x \in Collectors /\ r.y \in Collectors /\ r.o \in Objects /\ r.t \in Objects
        /\ HasTwo(L, {r.o, r.t}, {r.x, r.y, r.o, r.t})
    BY <1>2, <1>3, <1>11 DEF LocksFit, FieldsOK, HasObject, HasTarget, Thread
  <2>2. {r.x, r.y, r.o, r.t} \cap Objects \subseteq {r.o, r.t}
    BY <2>1, CollectorsAssumption
  <2> QED
    BY <1>1, <2>1, <2>2, InOrder
<1>12. CASE r.pc = "equals"
  <2> DEFINE B == {r.x} \ {NULL}
  <2>1. r.o \in Objects /\ r.t \in Objects /\ HasTwo(L, {r.o, r.t}, B)
    BY <1>2, <1>12 DEF LocksFit, FieldsOK, HasObject, HasTarget, Thread
  <2>2. B \subseteq Collectors /\ B \cap Objects = {}
    BY <1>3, CollectorsAssumption
  <2> HIDE DEF B
  <2> QED
    BY <1>1, <2>1, <2>2, InOrder
<1>13. CASE r.pc \in {"ending", "terminate"}
  <2>1. /\ r.c \in Collectors /\ r.c # NULL
        /\ \A A \in EndSets(r.c, f) : A \subseteq Collectors /\ r.c \in A
    BY <1>2, <1>3, <1>13, NullNoLock DEF EndSets, FieldsOK, Thread
  <2>2. CASE r.pc = "ending"
    <3>1. PICK A \in EndSets(r.c, f) : HasOne(L, A)
      BY <1>2, <2>2 DEF LocksFit
    <3> QED
      BY <1>1, <2>1, <3>1, InOrderOne
  <2>3. CASE r.pc = "terminate"
    <3> DEFINE B == {r.c, f} \ {NULL}
    <3>1. PICK A \in EndSets(r.c, f) : HasTwo(L, A, B)
      BY <1>2, <2>3 DEF LocksFit
    <3> HIDE DEF B
    <3>2. Held(L) = A \cup L.got /\ Making(L, B)
      BY <1>1, <3>1, HeldTwo DEF HasTwo, Complete
    <3>3. r.c \in Held(L) /\ r.c # k
      BY <1>1, <2>1, <3>2
    <3>4. k = f /\ k # NULL
      BY <1>1, <3>2, <3>3 DEF Making, B
    <3>5. A = {r.c}
      <4>1. k \notin A
        BY <1>1, <3>2
      <4> QED
        BY <3>4, <4>1 DEF EndSets
    <3>6. j = r.c
      BY <1>1, <3>2, <3>4, <3>5 DEF Making, B
    <3> QED
      BY <2>3, <3>6
  <2> QED
    BY <1>13, <2>2, <2>3
<1> QED
  BY <1>2, <1>4, <1>7, <1>8, <1>9, <1>10, <1>11, <1>12, <1>13
  DEF Thread, PCs, Between, HasObject, HasTarget, LocksFit

=============================================================================
