-------------------------- MODULE HeapCountProofs --------------------------
(***************************************************************************)
(* What the functions of module Heap do to an object's three counts, apart *)
(* from the counts that the lists of collectors stand for, and then to who *)
(* owns an object: the collector that its pointer leads to, whose lists it *)
(* may be in.  As in HeapProofs there is one lemma per function, after     *)
(* lemmas about lists, chains and changes to one part.                     *)
(***************************************************************************)
EXTENDS AcidTaskProofs

-----------------------------------------------------------------------------
(* Counting the entries of lists *)

\* The lists of all collectors.
Store(h) == [c \in Collectors |-> h.coll[c].lists]

\* Their type.
StoreType == [Collectors -> [ListNames -> Seq(Objects)]]

\* Where o is in list p[2] of collector p[1].
EntriesOf(L, o, p) ==
  {<<p, i>> : i \in {j \in DOMAIN L[p[1]][p[2]] : L[p[1]][p[2]][j] = o}}

\* Where o is in the named lists.
EntrySet(L, o, names) == UNION {EntriesOf(L, o, p) : p \in Collectors \X names}

\* How often that is.
Listed(L, o, names) == Cardinality(EntrySet(L, o, names))

\* The lists are what their collectors say.
LEMMA StoreHas ==
  ASSUME NEW h, Good(h)
  PROVE  /\ Store(h) \in StoreType
         /\ \A c \in Collectors : Store(h)[c] = h.coll[c].lists
<1>1. h.coll \in [Collectors -> Collector]
  BY DEF Good, HeapType
<1>2. \A c \in Collectors : h.coll[c].lists \in [ListNames -> Seq(Objects)]
  BY <1>1 DEF Collector
<1> QED
  BY <1>2 DEF Store, StoreType

\* What an entry is.
LEMMA EntryIn ==
  ASSUME NEW L, NEW o, NEW names
  PROVE  /\ \A c, n, i : <<<<c, n>>, i>> \in EntrySet(L, o, names)
                <=> /\ c \in Collectors /\ n \in names
                    /\ i \in DOMAIN L[c][n] /\ L[c][n][i] = o
         /\ \A e \in EntrySet(L, o, names) :
              \E c \in Collectors, n \in names :
                \E i \in DOMAIN L[c][n] : e = <<<<c, n>>, i>>
<1>1. ASSUME NEW c, NEW n, NEW i
      PROVE  <<<<c, n>>, i>> \in EntrySet(L, o, names)
                <=> /\ c \in Collectors /\ n \in names
                    /\ i \in DOMAIN L[c][n] /\ L[c][n][i] = o
  <2>1. ASSUME NEW p PROVE <<<<c, n>>, i>> \in EntriesOf(L, o, p)
                <=> /\ p = <<c, n>>
                    /\ i \in DOMAIN L[p[1]][p[2]] /\ L[p[1]][p[2]][i] = o
    BY DEF EntriesOf
  <2>2. <<c, n>>[1] = c /\ <<c, n>>[2] = n
    OBVIOUS
  <2> QED
    BY <2>1, <2>2 DEF EntrySet
<1>2. ASSUME NEW e \in EntrySet(L, o, names)
      PROVE  \E c \in Collectors, n \in names :
                \E i \in DOMAIN L[c][n] : e = <<<<c, n>>, i>>
  <2>1. PICK p \in Collectors \X names : e \in EntriesOf(L, o, p)
    BY DEF EntrySet
  <2>2. PICK i \in DOMAIN L[p[1]][p[2]] : e = <<p, i>>
    BY <2>1 DEF EntriesOf
  <2>3. p = <<p[1], p[2]>> /\ p[1] \in Collectors /\ p[2] \in names
    OBVIOUS
  <2> QED
    BY <2>2, <2>3
<1> QED
  BY <1>1, <1>2

\* Element i of list n of c is o.
HoldsAt(L, o, c, n, i) == i \in DOMAIN L[c][n] /\ L[c][n][i] = o

\* The entries are the places that hold o.
LEMMA EntryIs ==
  ASSUME NEW L, NEW o, NEW names, NEW c \in Collectors, NEW n \in names, NEW i
  PROVE  <<<<c, n>>, i>> \in EntrySet(L, o, names) <=> HoldsAt(L, o, c, n, i)
BY EntryIn DEF HoldsAt

\* An object is in lists finitely often: there are finitely many, each of
\* them finite.
LEMMA ListedNat ==
  ASSUME NEW L \in StoreType, NEW o, NEW names \in SUBSET ListNames
  PROVE  /\ IsFiniteSet(EntrySet(L, o, names))
         /\ Listed(L, o, names) \in Nat
<1> DEFINE P == Collectors \X names
           F == {EntriesOf(L, o, p) : p \in P}
           f == [p \in P |-> EntriesOf(L, o, p)]
<1>1. IsFiniteSet(names)
  <2>1. \A S, x : IsFiniteSet(S) => IsFiniteSet(S \cup {x})
    BY FS_AddElement
  <2>2. IsFiniteSet({})
    BY FS_EmptySet
  <2>3. IsFiniteSet(((({} \cup {"collect"}) \cup {"merged_list"}) \cup {"recovery_list"})
                      \cup {"rebuild_list"})
    BY <2>1, <2>2, Zenon
  <2>4. IsFiniteSet((((({} \cup {"collect"}) \cup {"merged_list"}) \cup {"recovery_list"})
                      \cup {"rebuild_list"}) \cup {"clean_list"})
    BY <2>1, <2>3, Zenon
  <2>5. ListNames = (((({} \cup {"collect"}) \cup {"merged_list"}) \cup {"recovery_list"})
                      \cup {"rebuild_list"}) \cup {"clean_list"}
    BY DEF ListNames
  <2> QED
    BY <2>4, <2>5, FS_Subset
<1>2. IsFiniteSet(P)
  BY <1>1, HeapAssumption, FS_Product
<1>3. f \in Surjection(P, F)
  BY DEF Surjection
<1>4. IsFiniteSet(F)
  BY <1>2, <1>3, FS_Surjection
<1>5. ASSUME NEW p \in P
      PROVE  IsFiniteSet(EntriesOf(L, o, p))
  <2> DEFINE q == L[p[1]][p[2]]
             I == {j \in DOMAIN q : q[j] = o}
             e == [i \in I |-> <<p, i>>]
  <2>1. q \in Seq(Objects)
    BY DEF StoreType
  <2>2. IsFiniteSet(DOMAIN q)
    <3>1. DOMAIN q = 1 .. Len(q) /\ Len(q) \in Nat
      BY <2>1
    <3> QED
      BY <3>1, FS_Interval
  <2>3. IsFiniteSet(I)
    BY <2>2, FS_Subset
  <2>4. e \in Surjection(I, EntriesOf(L, o, p))
    BY DEF Surjection, EntriesOf
  <2> QED
    BY <2>3, <2>4, FS_Surjection
<1>6. \A T \in F : IsFiniteSet(T)
  BY <1>5
<1>7. IsFiniteSet(EntrySet(L, o, names))
  BY <1>4, <1>6, FS_UNION DEF EntrySet
<1> QED
  BY <1>7, FS_CardinalityType DEF Listed

\* Only the named lists matter.
LEMMA NamesSame ==
  ASSUME NEW L, NEW M, NEW o, NEW names,
         \A d \in Collectors, m \in names : M[d][m] = L[d][m]
  PROVE  EntrySet(M, o, names) = EntrySet(L, o, names)
<1>1. \A p \in Collectors \X names : EntriesOf(M, o, p) = EntriesOf(L, o, p)
  <2>1. ASSUME NEW p \in Collectors \X names
        PROVE  EntriesOf(M, o, p) = EntriesOf(L, o, p)
    <3>1. M[p[1]][p[2]] = L[p[1]][p[2]]
      OBVIOUS
    <3> QED
      BY <3>1 DEF EntriesOf
  <2> QED
    BY <2>1
<1> QED
  BY <1>1 DEF EntrySet

\* M is L but for list n of c.
Elsewhere(L, M, c, n) ==
  \A d \in Collectors, m \in ListNames : <<d, m>> # <<c, n>> => M[d][m] = L[d][m]

\* safelist_add adds an entry of its element (safelist.c:18-36).
LEMMA ListAppend ==
  ASSUME NEW L \in StoreType, NEW M, NEW c \in Collectors, NEW n \in ListNames,
         NEW x \in Objects, M[c][n] = Append(L[c][n], x), Elsewhere(L, M, c, n),
         NEW o, NEW names \in SUBSET ListNames
  PROVE  Listed(M, o, names) =
           Listed(L, o, names) + (IF n \in names /\ o = x THEN 1 ELSE 0)
<1> DEFINE q == L[c][n]
           k == Len(q) + 1
           new == <<<<c, n>>, k>>
           E == EntrySet(L, o, names)
           F == EntrySet(M, o, names)
<1>1. q \in Seq(Objects)
  BY DEF StoreType
<1>2. /\ DOMAIN q = 1 .. Len(q) /\ Len(q) \in Nat
      /\ DOMAIN Append(q, x) = 1 .. k
      /\ \A i \in 1 .. Len(q) : Append(q, x)[i] = q[i]
      /\ Append(q, x)[k] = x
  BY <1>1, AppendProperties
<1>3. \A i : i \in 1 .. k <=> i \in 1 .. Len(q) \/ i = k
  BY <1>2
<1>4. k \notin 1 .. Len(q)
  BY <1>2
<1> HIDE DEF q, k
<1>5. CASE n \notin names
  <2>1. \A d \in Collectors, m \in names : M[d][m] = L[d][m]
    BY <1>5 DEF Elsewhere
  <2> QED
    BY <1>5, <2>1, NamesSame, ListedNat DEF Listed
<1>6. ASSUME NEW d \in Collectors, NEW m \in names, NEW i, n \in names
      PROVE  <<<<d, m>>, i>> \in F
               <=> \/ <<<<d, m>>, i>> \in E
                   \/ o = x /\ <<<<d, m>>, i>> = new
  <2>1. <<<<d, m>>, i>> \in F <=> i \in DOMAIN M[d][m] /\ M[d][m][i] = o
    BY EntryIn
  <2>2. <<<<d, m>>, i>> \in E <=> i \in DOMAIN L[d][m] /\ L[d][m][i] = o
    BY EntryIn
  <2>3. CASE <<d, m>> = <<c, n>>
    <3>1. d = c /\ m = n
      BY <2>3
    <3>2. M[d][m] = Append(q, x) /\ L[d][m] = q
      BY <3>1 DEF q
    <3>3. <<<<d, m>>, i>> \in F <=> \/ i \in 1 .. Len(q) /\ q[i] = o
                                    \/ i = k /\ x = o
      BY <1>2, <1>3, <2>1, <3>2
    <3> QED
      BY <1>2, <2>2, <3>1, <3>2, <3>3
  <2>4. CASE <<d, m>> # <<c, n>>
    <3>1. M[d][m] = L[d][m]
      BY <2>4 DEF Elsewhere
    <3>2. <<<<d, m>>, i>> # new
      BY <2>4
    <3> QED
      BY <2>1, <2>2, <3>1, <3>2
  <2> QED
    BY <2>3, <2>4
<1>7. ASSUME n \in names
      PROVE  F = E \cup (IF o = x THEN {new} ELSE {})
  <2>1. ASSUME NEW e \in F
        PROVE  e \in E \/ (o = x /\ e = new)
    BY <1>6, <1>7, EntryIn
  <2>2. ASSUME NEW e \in E
        PROVE  e \in F
    BY <1>6, <1>7, EntryIn
  <2>3. o = x => new \in F
    BY <1>6, <1>7
  <2> QED
    BY <2>1, <2>2, <2>3
<1>8. new \notin E
  BY <1>2, <1>4, EntryIn DEF q
<1>9. IsFiniteSet(E) /\ Cardinality(E) \in Nat
  BY ListedNat DEF Listed
<1> HIDE DEF E, F, new
<1>10. CASE n \in names /\ o = x
  <2>1. F = E \cup {new}
    BY <1>7, <1>10
  <2> QED
    BY <1>8, <1>9, <1>10, <2>1, FS_AddElement DEF Listed, E, F
<1>11. CASE n \in names /\ o # x
  <2>1. F = E
    BY <1>7, <1>11
  <2> QED
    BY <1>9, <1>11, <2>1 DEF Listed, E, F
<1> QED
  BY <1>5, <1>10, <1>11

\* The first element has been taken off list n of c.
Polled(L, M, c, n) == L[c][n] # <<>> /\ M[c][n] = Tail(L[c][n])

\* safelist_poll takes an entry of the first element away
\* (safelist.c:47-58).
LEMMA ListTail ==
  ASSUME NEW L \in StoreType, NEW M, NEW c \in Collectors, NEW n \in ListNames,
         Polled(L, M, c, n), Elsewhere(L, M, c, n),
         NEW o, NEW names \in SUBSET ListNames
  PROVE  Listed(M, o, names) =
           Listed(L, o, names)
             - (IF n \in names /\ o = Head(L[c][n]) THEN 1 ELSE 0)
<1> DEFINE q == L[c][n]
           k == Len(q) - 1
           first == <<<<c, n>>, 1>>
           E == EntrySet(L, o, names)
           F == EntrySet(M, o, names)
<1>1. q \in Seq(Objects) /\ q # <<>>
  BY DEF StoreType, Polled
<1>2. /\ DOMAIN q = 1 .. k + 1 /\ k \in Nat
      /\ DOMAIN Tail(q) = 1 .. k
      /\ \A i \in 1 .. k : Tail(q)[i] = q[i + 1]
      /\ Head(q) = q[1]
  BY <1>1, HeadTailProperties
<1> HIDE DEF q, k
<1>3. CASE n \notin names
  <2>1. \A d \in Collectors, m \in names : M[d][m] = L[d][m]
    BY <1>3 DEF Elsewhere
  <2> QED
    BY <1>3, <2>1, NamesSame, ListedNat DEF Listed
<1>4. ASSUME NEW d \in Collectors, NEW m \in names, NEW i, n \in names,
             <<d, m>> # <<c, n>>
      PROVE  <<<<d, m>>, i>> \in F <=> <<<<d, m>>, i>> \in E
  <2>1. M[d][m] = L[d][m]
    BY <1>4 DEF Elsewhere
  <2> QED
    BY <2>1, EntryIn
<1>5. ASSUME NEW i, n \in names
      PROVE  /\ <<<<c, n>>, i>> \in F <=> i \in 1 .. k /\ q[i + 1] = o
             /\ <<<<c, n>>, i>> \in E <=> i \in 1 .. k + 1 /\ q[i] = o
  <2>1. /\ <<<<c, n>>, i>> \in F <=> HoldsAt(M, o, c, n, i)
        /\ <<<<c, n>>, i>> \in E <=> HoldsAt(L, o, c, n, i)
    BY <1>5, EntryIs
  <2>2. M[c][n] = Tail(q) /\ L[c][n] = q
    BY DEF q, Polled
  <2> QED
    BY <1>2, <2>1, <2>2 DEF HoldsAt
<1>6. ASSUME n \in names
      PROVE  Cardinality(F) = Cardinality(E \ {first})
  <2> DEFINE D == E \ {first}
             f == [e \in D |->
                     IF e[1] = <<c, n>> THEN <<<<c, n>>, e[2] - 1>> ELSE e]
  <2>1. ASSUME NEW e \in D
        PROVE  /\ f[e] \in F
               /\ e[1] = <<c, n>> => /\ e[2] \in 2 .. k + 1
                                     /\ e = <<<<c, n>>, e[2]>>
                                     /\ f[e] = <<<<c, n>>, e[2] - 1>>
               /\ e[1] # <<c, n>> => f[e] = e
    <3>1. PICK d \in Collectors, m \in names : \E i \in DOMAIN L[d][m] :
                 e = <<<<d, m>>, i>>
      BY EntryIn
    <3>2. PICK i \in DOMAIN L[d][m] : e = <<<<d, m>>, i>>
      BY <3>1
    <3>3. CASE <<d, m>> = <<c, n>>
      <4>1. i \in 1 .. k + 1 /\ q[i] = o /\ i # 1
        BY <1>5, <1>6, <3>2, <3>3
      <4>2. i - 1 \in 1 .. k /\ i \in 2 .. k + 1 /\ (i - 1) + 1 = i
        BY <1>2, <4>1
      <4>3. <<<<c, n>>, i - 1>> \in F
        BY <1>5, <1>6, <4>1, <4>2
      <4> QED
        BY <3>2, <3>3, <4>2, <4>3
    <3>4. CASE <<d, m>> # <<c, n>>
      <4>1. e[1] # <<c, n>> /\ f[e] = e
        BY <3>2, <3>4
      <4>2. e \in F
        BY <1>4, <1>6, <3>2, <3>4
      <4> QED
        BY <4>1, <4>2
    <3> QED
      BY <3>3, <3>4
  <2>2. ASSUME NEW x \in F
        PROVE  \E e \in D : f[e] = x
    <3>1. PICK d \in Collectors, m \in names : \E i \in DOMAIN M[d][m] :
                 x = <<<<d, m>>, i>>
      BY EntryIn
    <3>2. PICK i \in DOMAIN M[d][m] : x = <<<<d, m>>, i>>
      BY <3>1
    <3>3. CASE <<d, m>> = <<c, n>>
      <4>1. i \in 1 .. k /\ q[i + 1] = o
        BY <1>5, <1>6, <3>2, <3>3
      <4>2. i + 1 \in 1 .. k + 1 /\ i + 1 # 1 /\ (i + 1) - 1 = i
        BY <1>2, <4>1
      <4>3. <<<<c, n>>, i + 1>> \in E
        BY <1>5, <1>6, <4>1, <4>2
      <4>4. <<<<c, n>>, i + 1>> \in D
        BY <4>2, <4>3
      <4>5. f[<<<<c, n>>, i + 1>>] = <<<<c, n>>, i>>
        BY <4>2, <4>4
      <4> QED
        BY <3>2, <3>3, <4>4, <4>5
    <3>4. CASE <<d, m>> # <<c, n>>
      <4>1. x \in E /\ x[1] # <<c, n>> /\ x # first
        BY <1>4, <1>6, <3>2, <3>4
      <4> QED
        BY <4>1
    <3> QED
      BY <3>3, <3>4
  <2> HIDE DEF f, D
  <2>3. ASSUME NEW e \in D, NEW x \in D, f[e] = f[x]
        PROVE  e = x
    <3>1. CASE e[1] = <<c, n>> /\ x[1] = <<c, n>>
      <4>1. e[2] \in 2 .. k + 1 /\ x[2] \in 2 .. k + 1
        BY <2>1, <3>1
      <4>2. <<<<c, n>>, e[2] - 1>> = <<<<c, n>>, x[2] - 1>>
        BY <2>1, <2>3, <3>1
      <4>3. e[2] - 1 = x[2] - 1
        BY <4>2
      <4>4. e[2] = x[2]
        BY <1>2, <4>1, <4>3
      <4>5. e = <<<<c, n>>, e[2]>> /\ x = <<<<c, n>>, x[2]>>
        BY <2>1, <3>1
      <4> QED
        BY <4>4, <4>5
    <3>2. CASE e[1] = <<c, n>> /\ x[1] # <<c, n>>
      BY <2>1, <2>3, <3>2
    <3>3. CASE e[1] # <<c, n>> /\ x[1] = <<c, n>>
      BY <2>1, <2>3, <3>3
    <3>4. CASE e[1] # <<c, n>> /\ x[1] # <<c, n>>
      BY <2>1, <2>3, <3>4
    <3> QED
      BY <3>1, <3>2, <3>3, <3>4
  <2>4. f \in Bijection(D, F)
    <3>1. \A e \in D : f[e] \in F
      BY <2>1
    <3>2. f \in [D -> F]
      BY <3>1 DEF f
    <3> QED
      BY <2>2, <2>3, <3>2 DEF Bijection, Injection, Surjection, IsInjective
  <2>5. IsFiniteSet(D)
    BY ListedNat, FS_Subset DEF D
  <2>6. Cardinality(D) = Cardinality(F)
    BY <2>4, <2>5, FS_Bijection DEF ExistsBijection
  <2> QED
    BY <2>6 DEF D
<1>7. IsFiniteSet(E) /\ Cardinality(E) \in Nat
  BY ListedNat DEF Listed
<1>8. n \in names => (first \in E <=> o = Head(q))
  <2>1. 1 \in 1 .. k + 1
    BY <1>2
  <2> QED
    BY <1>2, <1>5, <2>1
<1> HIDE DEF E, F, first
<1>9. CASE n \in names /\ o = Head(q)
  <2>1. Cardinality(E \ {first}) = Cardinality(E) - 1
    BY <1>7, <1>8, <1>9, FS_RemoveElement
  <2> QED
    BY <1>6, <1>9, <2>1 DEF Listed, E, F, q
<1>10. CASE n \in names /\ o # Head(q)
  <2>1. E \ {first} = E
    BY <1>8, <1>10
  <2>2. Cardinality(F) = Cardinality(E)
    BY <1>6, <1>10, <2>1, Zenon
  <2> QED
    BY <1>7, <1>10, <2>2 DEF Listed, E, F, q
<1> QED
  BY <1>3, <1>9, <1>10 DEF q

\* List m of s has been appended to list n of t and emptied, and nothing else
\* has changed.
Drained(L, M, s, m, t, n) ==
  /\ <<s, m>> # <<t, n>>
  /\ M[s][m] = <<>>
  /\ M[t][n] = L[t][n] \o L[s][m]
  /\ \A d \in Collectors, k \in ListNames :
       <<d, k>> \notin {<<s, m>>, <<t, n>>} => M[d][k] = L[d][k]

\* What that does to the places that hold o.
DrainMoves(L, M, s, m, t, n, o) ==
  /\ Len(L[t][n]) \in Nat
  /\ \A i : ~HoldsAt(M, o, s, m, i)
  /\ \A i : HoldsAt(L, o, s, m, i) =>
       i \in Nat \ {0} /\ HoldsAt(M, o, t, n, Len(L[t][n]) + i)
  /\ \A i : HoldsAt(L, o, t, n, i) =>
       i \in 1 .. Len(L[t][n]) /\ HoldsAt(M, o, t, n, i)
  /\ \A i : HoldsAt(M, o, t, n, i) =>
       \/ HoldsAt(L, o, t, n, i)
       \/ \E j : HoldsAt(L, o, s, m, j) /\ i = Len(L[t][n]) + j
  /\ \A d \in Collectors, k \in ListNames : \A i :
       <<d, k>> \notin {<<s, m>>, <<t, n>>} =>
         (HoldsAt(M, o, d, k, i) <=> HoldsAt(L, o, d, k, i))

\* The places of s come after those of t.
LEMMA DrainedAt ==
  ASSUME NEW L \in StoreType, NEW M, NEW s \in Collectors, NEW m \in ListNames,
         NEW t \in Collectors, NEW n \in ListNames, Drained(L, M, s, m, t, n),
         NEW o
  PROVE  DrainMoves(L, M, s, m, t, n, o)
<1> DEFINE p == L[t][n]
           q == L[s][m]
<1>1. p \in Seq(Objects) /\ q \in Seq(Objects)
  BY DEF StoreType
<1>2. M[s][m] = <<>> /\ M[t][n] = p \o q
  BY DEF Drained
<1>3. L[t][n] = p /\ L[s][m] = q
  OBVIOUS
<1> HIDE DEF p, q
<1>4. /\ Len(p) \in Nat /\ Len(q) \in Nat
      /\ DOMAIN p = 1 .. Len(p) /\ DOMAIN q = 1 .. Len(q)
      /\ DOMAIN (p \o q) = 1 .. Len(p) + Len(q)
      /\ \A i \in 1 .. Len(p) + Len(q) :
           (p \o q)[i] = IF i <= Len(p) THEN p[i] ELSE q[i - Len(p)]
  BY <1>1, ConcatProperties, LenProperties
<1>5. \A i : ~HoldsAt(M, o, s, m, i)
  BY <1>2 DEF HoldsAt
<1>6. \A i : /\ HoldsAt(L, o, s, m, i) <=> i \in 1 .. Len(q) /\ q[i] = o
             /\ HoldsAt(L, o, t, n, i) <=> i \in 1 .. Len(p) /\ p[i] = o
  BY <1>3, <1>4 DEF HoldsAt
<1>7. \A i : HoldsAt(M, o, t, n, i)
               <=> i \in 1 .. Len(p) + Len(q) /\ (p \o q)[i] = o
  BY <1>2, <1>4 DEF HoldsAt
<1>8. ASSUME NEW i, HoldsAt(L, o, s, m, i)
      PROVE  i \in Nat \ {0} /\ HoldsAt(M, o, t, n, Len(p) + i)
  <2>1. i \in 1 .. Len(q) /\ q[i] = o
    BY <1>6, <1>8
  <2>2. /\ Len(p) + i \in 1 .. Len(p) + Len(q)
        /\ ~(Len(p) + i <= Len(p)) /\ (Len(p) + i) - Len(p) = i
    BY <1>4, <2>1
  <2>3. (p \o q)[Len(p) + i] = o
    BY <1>4, <2>1, <2>2
  <2> QED
    BY <1>7, <2>1, <2>2, <2>3
<1>9. ASSUME NEW i, HoldsAt(L, o, t, n, i)
      PROVE  i \in 1 .. Len(p) /\ HoldsAt(M, o, t, n, i)
  <2>1. i \in 1 .. Len(p) /\ p[i] = o
    BY <1>6, <1>9
  <2>2. i \in 1 .. Len(p) + Len(q) /\ i <= Len(p)
    BY <1>4, <2>1
  <2>3. (p \o q)[i] = o
    BY <1>4, <2>1, <2>2
  <2> QED
    BY <1>7, <2>1, <2>2, <2>3
<1>10. ASSUME NEW i, HoldsAt(M, o, t, n, i)
       PROVE  \/ HoldsAt(L, o, t, n, i)
              \/ \E j : HoldsAt(L, o, s, m, j) /\ i = Len(p) + j
  <2>1. i \in 1 .. Len(p) + Len(q) /\ (p \o q)[i] = o
    BY <1>7, <1>10
  <2>2. CASE i <= Len(p)
    <3>1. i \in 1 .. Len(p) /\ p[i] = o
      BY <1>4, <2>1, <2>2
    <3> QED
      BY <1>6, <3>1
  <2>3. CASE ~(i <= Len(p))
    <3>1. q[i - Len(p)] = o
      BY <1>4, <2>1, <2>3
    <3>2. i - Len(p) \in 1 .. Len(q) /\ i = Len(p) + (i - Len(p))
      BY <1>4, <2>1, <2>3
    <3> QED
      BY <1>6, <3>1, <3>2
  <2> QED
    BY <2>2, <2>3
<1>11. \A d \in Collectors, k \in ListNames : \A i :
         <<d, k>> \notin {<<s, m>>, <<t, n>>} =>
           (HoldsAt(M, o, d, k, i) <=> HoldsAt(L, o, d, k, i))
  BY DEF Drained, HoldsAt
<1> QED
  BY <1>3, <1>4, <1>5, <1>8, <1>9, <1>10, <1>11 DEF DrainMoves

\* Draining a list into another one moves the entries (safelist.c:60-69,
\* collector.c:90-97 and 139-161).
LEMMA ListDrain ==
  ASSUME NEW L \in StoreType, NEW M, NEW s \in Collectors, NEW m \in ListNames,
         NEW t \in Collectors, NEW n \in ListNames, Drained(L, M, s, m, t, n),
         NEW o, NEW names \in SUBSET ListNames, m \in names <=> n \in names
  PROVE  Listed(M, o, names) = Listed(L, o, names)
<1> DEFINE k == Len(L[t][n])
           E == EntrySet(L, o, names)
           F == EntrySet(M, o, names)
           f == [e \in E |-> IF e[1] = <<s, m>> THEN <<<<t, n>>, k + e[2]>> ELSE e]
<1>1. /\ k \in Nat
      /\ \A i : ~HoldsAt(M, o, s, m, i)
      /\ \A i : HoldsAt(L, o, s, m, i) =>
           i \in Nat \ {0} /\ HoldsAt(M, o, t, n, k + i)
      /\ \A i : HoldsAt(L, o, t, n, i) => i \in 1 .. k /\ HoldsAt(M, o, t, n, i)
      /\ \A i : HoldsAt(M, o, t, n, i) =>
           \/ HoldsAt(L, o, t, n, i)
           \/ \E j : HoldsAt(L, o, s, m, j) /\ i = k + j
      /\ \A d \in Collectors, l \in ListNames : \A i :
           <<d, l>> \notin {<<s, m>>, <<t, n>>} =>
             (HoldsAt(M, o, d, l, i) <=> HoldsAt(L, o, d, l, i))
  <2>1. DrainMoves(L, M, s, m, t, n, o)
    BY DrainedAt
  <2> QED
    BY <2>1 DEF DrainMoves
<1>2. <<s, m>> # <<t, n>>
  BY DEF Drained
<1> HIDE DEF k
<1>3. CASE n \notin names
  <2>1. \A d \in Collectors, l \in names : M[d][l] = L[d][l]
    BY <1>3 DEF Drained
  <2> QED
    BY <2>1, NamesSame DEF Listed
<1>4. ASSUME n \in names
      PROVE  Cardinality(F) = Cardinality(E)
  <2>1. ASSUME NEW e \in E
        PROVE  \E d, l, i :
                 /\ d \in Collectors /\ l \in names
                 /\ e = <<<<d, l>>, i>> /\ HoldsAt(L, o, d, l, i)
    <3>1. PICK d \in Collectors, l \in names : \E i \in DOMAIN L[d][l] :
                 e = <<<<d, l>>, i>>
      BY EntryIn
    <3>2. PICK i : e = <<<<d, l>>, i>>
      BY <3>1
    <3> QED
      BY <3>2, EntryIs
  <2>2. ASSUME NEW e \in F
        PROVE  \E d, l, i :
                 /\ d \in Collectors /\ l \in names
                 /\ e = <<<<d, l>>, i>> /\ HoldsAt(M, o, d, l, i)
    <3>1. PICK d \in Collectors, l \in names : \E i \in DOMAIN M[d][l] :
                 e = <<<<d, l>>, i>>
      BY EntryIn
    <3>2. PICK i : e = <<<<d, l>>, i>>
      BY <3>1
    <3> QED
      BY <3>2, EntryIs
  <2>3. ASSUME NEW e \in E
        PROVE  /\ f[e] \in F
               /\ e[1] = <<s, m>> => /\ e[2] \in Nat \ {0}
                                     /\ e = <<<<s, m>>, e[2]>>
                                     /\ f[e] = <<<<t, n>>, k + e[2]>>
               /\ e[1] # <<s, m>> => f[e] = e
               /\ e[1] = <<t, n>> => e[2] \in 1 .. k /\ e = <<<<t, n>>, e[2]>>
    <3>1. PICK d, l, i :
                 /\ d \in Collectors /\ l \in names
                 /\ e = <<<<d, l>>, i>> /\ HoldsAt(L, o, d, l, i)
      BY <2>1
    <3>2. e[1] = <<d, l>> /\ e[2] = i
      BY <3>1
    <3>3. CASE <<d, l>> = <<s, m>>
      <4>1. d = s /\ l = m
        BY <3>3
      <4>2. i \in Nat \ {0} /\ HoldsAt(M, o, t, n, k + i)
        BY <1>1, <3>1, <4>1
      <4>3. <<<<t, n>>, k + i>> \in F
        BY <1>4, <4>2, EntryIs
      <4>4. f[e] = <<<<t, n>>, k + i>>
        BY <3>2, <3>3
      <4> QED
        BY <1>2, <3>1, <3>2, <3>3, <4>2, <4>3, <4>4
    <3>4. CASE <<d, l>> = <<t, n>>
      <4>1. d = t /\ l = n
        BY <3>4
      <4>2. i \in 1 .. k /\ HoldsAt(M, o, t, n, i)
        BY <1>1, <3>1, <4>1
      <4>3. <<<<t, n>>, i>> \in F
        BY <1>4, <4>2, EntryIs
      <4>4. f[e] = e
        BY <1>2, <3>2, <3>4
      <4> QED
        BY <1>2, <3>1, <3>2, <3>4, <4>2, <4>3, <4>4
    <3>5. CASE <<d, l>> \notin {<<s, m>>, <<t, n>>}
      <4>1. HoldsAt(M, o, d, l, i)
        BY <1>1, <3>1, <3>5
      <4>2. e \in F
        BY <3>1, <4>1, EntryIs
      <4>3. f[e] = e
        BY <3>2, <3>5
      <4> QED
        BY <3>2, <3>5, <4>2, <4>3
    <3> QED
      BY <3>3, <3>4, <3>5
  <2>4. ASSUME NEW x \in F
        PROVE  \E e \in E : f[e] = x
    <3>1. PICK d, l, i :
                 /\ d \in Collectors /\ l \in names
                 /\ x = <<<<d, l>>, i>> /\ HoldsAt(M, o, d, l, i)
      BY <2>2
    <3>2. <<d, l>> # <<s, m>>
      BY <1>1, <3>1
    <3>3. CASE HoldsAt(L, o, d, l, i)
      <4>1. x \in E
        BY <3>1, <3>3, EntryIs
      <4>2. x[1] # <<s, m>>
        BY <3>1, <3>2
      <4>3. f[x] = x
        BY <4>1, <4>2
      <4> QED
        BY <4>1, <4>3
    <3>4. CASE ~HoldsAt(L, o, d, l, i)
      <4>1. <<d, l>> = <<t, n>>
        BY <1>1, <3>1, <3>2, <3>4
      <4>2. PICK j : HoldsAt(L, o, s, m, j) /\ i = k + j
        BY <1>1, <3>1, <3>4, <4>1
      <4>3. <<<<s, m>>, j>> \in E
        BY <1>4, <4>2, EntryIs
      <4>4. f[<<<<s, m>>, j>>] = <<<<t, n>>, k + j>>
        BY <4>3
      <4> QED
        BY <3>1, <4>1, <4>2, <4>3, <4>4
    <3> QED
      BY <3>3, <3>4
  <2>5. f \in [E -> F]
    BY <2>3
  <2> HIDE DEF E, F, f
  <2>6. ASSUME NEW e \in E, NEW x \in E, f[e] = f[x]
        PROVE  e = x
    <3>1. CASE e[1] = <<s, m>> /\ x[1] = <<s, m>>
      <4>1. e[2] \in Nat /\ x[2] \in Nat
        BY <2>3, <3>1
      <4>2. <<<<t, n>>, k + e[2]>> = <<<<t, n>>, k + x[2]>>
        BY <2>3, <2>6, <3>1
      <4>3. k + e[2] = k + x[2]
        BY <4>2
      <4>4. e[2] = x[2]
        BY <1>1, <4>1, <4>3
      <4>5. e = <<<<s, m>>, e[2]>> /\ x = <<<<s, m>>, x[2]>>
        BY <2>3, <3>1
      <4> QED
        BY <4>4, <4>5
    <3>2. ASSUME NEW a \in E, NEW b \in E, f[a] = f[b],
                 a[1] = <<s, m>>, b[1] # <<s, m>>
          PROVE  FALSE
      <4>1. b = <<<<t, n>>, k + a[2]>> /\ a[2] \in Nat \ {0}
        BY <2>3, <3>2
      <4>2. b[1] = <<t, n>> /\ b[2] = k + a[2]
        BY <4>1
      <4>3. b[2] \in 1 .. k
        BY <2>3, <4>2
      <4> QED
        BY <1>1, <4>1, <4>2, <4>3
    <3>3. CASE e[1] # <<s, m>> /\ x[1] # <<s, m>>
      BY <2>3, <2>6, <3>3
    <3> QED
      BY <2>6, <3>1, <3>2, <3>3
  <2>7. f \in Bijection(E, F)
    BY <2>4, <2>5, <2>6 DEF Bijection, Injection, Surjection, IsInjective
  <2>8. IsFiniteSet(E)
    BY ListedNat DEF E
  <2> QED
    BY <2>7, <2>8, FS_Bijection DEF ExistsBijection
<1> QED
  BY <1>3, <1>4 DEF Listed

-----------------------------------------------------------------------------
(* What a call does to counts *)

\* The lists whose entries an object's phantom count stands for.
Counting == ListNames \ {"rebuild_list"}

\* An object's count i, without what it owes to lists: an entry of a collect
\* list has a strong count too (collector.c:60-81).
Unlisted(h, o, i) ==
  h.obj[o].count[i]
    - (IF i = Phantom THEN Listed(Store(h), o, Counting)
       ELSE IF i = h.obj[o].which THEN Listed(Store(h), o, {"collect"})
       ELSE 0)

\* The objects whose deletion is in the queue.
Requested(h) ==
  {h.work[i].arg : i \in {j \in DOMAIN h.work : h.work[j].run = "request_delete"}}

\* Nothing counts on o.
Zero(h, o) == \A i \in 0..2 : h.obj[o].count[i] = 0

\* An object with phantom counts has a collector.
HasColl(h, o) == h.obj[o].count[Phantom] > 0 => h.obj[o].collector # NULL

\* A collector that is not allocated has empty lists.
Emptied(h) == \A c \in Collectors : ~h.coll[c].live => store_count_zero(h, c)

\* The graph of objects and links is the same in g.
SameShape(h, g) ==
  /\ \A p \in Objects : /\ g.obj[p].links = h.obj[p].links
                        /\ g.obj[p].which = h.obj[p].which
                        /\ g.obj[p].state = h.obj[p].state
  /\ g.link = h.link

\* Each object is listed as often in g.
SameListed(h, g) ==
  \A p \in Objects :
    /\ Listed(Store(g), p, Counting) = Listed(Store(h), p, Counting)
    /\ Listed(Store(g), p, {"collect"}) = Listed(Store(h), p, {"collect"})

\* A call that leaves every count, and what it stands for, alone.
Level(h, g) ==
  /\ SameShape(h, g)
  /\ \A p \in Objects : g.obj[p].count = h.obj[p].count
  /\ SameListed(h, g)
  /\ \A p \in Objects : HasColl(h, p) => HasColl(g, p)
  /\ Requested(g) \subseteq Requested(h)
  /\ Emptied(g)

\* A call that changes what count w of x stands for by d, and no counts of
\* another object.
Step(h, g, x, w, d) ==
  /\ SameShape(h, g)
  /\ \A p \in Objects, i \in 0..2 :
       Unlisted(g, p, i) = Unlisted(h, p, i) + (IF p = x /\ i = w THEN d ELSE 0)
  /\ \A p \in Objects \ {x} : /\ g.obj[p].count = h.obj[p].count
                              /\ HasColl(h, p) => HasColl(g, p)
  /\ Emptied(g)

\* Both kinds of numbers are integers.
LEMMA UnlistedInt ==
  ASSUME NEW h, Good(h), NEW o \in Objects
  PROVE  /\ h.obj[o].which \in 0..2 /\ h.obj[o].which # Phantom
         /\ Listed(Store(h), o, Counting) \in Nat
         /\ Listed(Store(h), o, {"collect"}) \in Nat
         /\ \A i \in 0..2 : h.obj[o].count[i] \in Int /\ Unlisted(h, o, i) \in Int
<1>1. Store(h) \in StoreType
  BY StoreHas
<1>2. Counting \in SUBSET ListNames /\ {"collect"} \in SUBSET ListNames
  BY DEF Counting, ListNames
<1>3. /\ Listed(Store(h), o, Counting) \in Nat
      /\ Listed(Store(h), o, {"collect"}) \in Nat
  BY <1>1, <1>2, ListedNat
<1>4. h.obj[o] \in Object
  BY DEF Good, HeapType
<1>5. h.obj[o].which \in Bits /\ \A i \in 0..2 : h.obj[o].count[i] \in Int
  BY <1>4 DEF Object
<1> QED
  BY <1>3, <1>5 DEF Unlisted, Bits, Phantom

\* The parts of a level call may be looked at one after the other.
LEMMA LevelTrans ==
  ASSUME NEW h, NEW g, NEW k, Level(h, g), Level(g, k)
  PROVE  Level(h, k)
BY DEF Level, SameShape, SameListed

\* Counts without entries depend on counts, bits and entries.
LEMMA LevelUnlisted ==
  ASSUME NEW h, NEW g, Level(h, g), NEW p \in Objects, NEW i
  PROVE  Unlisted(g, p, i) = Unlisted(h, p, i)
BY DEF Level, SameShape, SameListed, Unlisted

\* A level call is a step by nothing.
LEMMA LevelStep ==
  ASSUME NEW h, NEW g, Good(h), Level(h, g), NEW x, NEW w
  PROVE  Step(h, g, x, w, 0)
<1>1. \A p \in Objects, i \in 0..2 :
        Unlisted(g, p, i) = Unlisted(h, p, i) /\ Unlisted(h, p, i) \in Int
  BY LevelUnlisted, UnlistedInt
<1> QED
  BY <1>1 DEF Level, Step

\* A step may come before or after a level call.
LEMMA StepLevel ==
  ASSUME NEW h, NEW g, NEW k, NEW x, NEW w, NEW d
  PROVE  /\ Step(h, g, x, w, d) /\ Level(g, k) => Step(h, k, x, w, d)
         /\ Level(h, g) /\ Step(g, k, x, w, d) => Step(h, k, x, w, d)
<1>1. ASSUME Step(h, g, x, w, d), Level(g, k)
      PROVE  Step(h, k, x, w, d)
  <2>1. \A p \in Objects, i \in 0..2 : Unlisted(k, p, i) = Unlisted(g, p, i)
    BY <1>1, LevelUnlisted
  <2>2. SameShape(h, k)
    BY <1>1 DEF Step, Level, SameShape
  <2> QED
    BY <1>1, <2>1, <2>2 DEF Step, Level
<1>2. ASSUME Level(h, g), Step(g, k, x, w, d)
      PROVE  Step(h, k, x, w, d)
  <2>1. \A p \in Objects, i \in 0..2 : Unlisted(g, p, i) = Unlisted(h, p, i)
    BY <1>2, LevelUnlisted
  <2>2. SameShape(h, k)
    BY <1>2 DEF Step, Level, SameShape
  <2> QED
    BY <1>2, <2>1, <2>2 DEF Step, Level
<1> QED
  BY <1>1, <1>2

\* Two steps at one count add up.
LEMMA StepStep ==
  ASSUME NEW h, NEW g, NEW k, Good(h), NEW x, NEW w, NEW d \in Int, NEW e \in Int,
         Step(h, g, x, w, d), Step(g, k, x, w, e)
  PROVE  Step(h, k, x, w, d + e)
<1>1. ASSUME NEW p \in Objects, NEW i \in 0..2
      PROVE  Unlisted(k, p, i) =
               Unlisted(h, p, i) + (IF p = x /\ i = w THEN d + e ELSE 0)
  <2>1. Unlisted(h, p, i) \in Int
    BY UnlistedInt
  <2>2. Unlisted(g, p, i) = Unlisted(h, p, i) + (IF p = x /\ i = w THEN d ELSE 0)
    BY DEF Step
  <2>3. Unlisted(k, p, i) = Unlisted(g, p, i) + (IF p = x /\ i = w THEN e ELSE 0)
    BY DEF Step
  <2> QED
    BY <2>1, <2>2, <2>3
<1>2. SameShape(h, k)
  BY DEF Step, SameShape
<1> QED
  BY <1>1, <1>2 DEF Step

-----------------------------------------------------------------------------
(* Changing one part of the heap *)

\* Lists that are the same list each object as often.
LEMMA ListedFrame ==
  ASSUME NEW h, NEW g,
         \A c \in Collectors : g.coll[c].lists = h.coll[c].lists
  PROVE  SameListed(h, g)
<1>1. Store(g) = Store(h)
  BY DEF Store
<1> QED
  BY <1>1 DEF SameListed

\* A call is level if it leaves tables, links, counts, bits and lists alone
\* and takes a collector only from an object without phantom counts.
LEMMA LevelFrame ==
  ASSUME NEW h, NEW g, Emptied(h), SameShape(h, g),
         \A p \in Objects : g.obj[p].count = h.obj[p].count,
         \A p \in Objects : h.obj[p].count[Phantom] > 0 =>
           (h.obj[p].collector # NULL => g.obj[p].collector # NULL),
         \A c \in Collectors : /\ g.coll[c].lists = h.coll[c].lists
                               /\ h.coll[c].live => g.coll[c].live,
         Requested(g) \subseteq Requested(h)
  PROVE  Level(h, g)
<1>1. SameListed(h, g)
  BY ListedFrame
<1>2. \A p \in Objects : HasColl(h, p) => HasColl(g, p)
  BY DEF HasColl
<1>3. Emptied(g)
  BY DEF Emptied, store_count_zero
<1> QED
  BY <1>1, <1>2, <1>3 DEF Level

\* What is requested depends on the queue only.
LEMMA RequestedFrame ==
  ASSUME NEW h, NEW g, g.work = h.work
  PROVE  Requested(g) = Requested(h)
BY DEF Requested

\* So an assertion is level.
LEMMA AssertLevel ==
  ASSUME NEW h, Good(h), Emptied(h), NEW P, NEW what \in Failures
  PROVE  Level(h, assert(h, P, what))
<1> DEFINE g == assert(h, P, what)
<1>1. SameBut(h, g)
  BY AssertSame
<1> HIDE DEF g
<1>2. /\ g.obj = h.obj /\ g.coll = h.coll /\ g.link = h.link
      /\ g.work = h.work
  BY <1>1 DEF SameBut
<1>3. Level(h, g)
  BY <1>2, LevelFrame, RequestedFrame DEF SameShape
<1> QED
  BY <1>3 DEF g

\* Setting the collector of an object is level, clearing it only without
\* phantom counts (object.c:25-37).
LEMMA SetCollectorLevel ==
  ASSUME NEW h, Good(h), Emptied(h), NEW o \in Objects,
         NEW c \in Collectors \cup {NULL},
         c # NULL => h.coll[c].live /\ o \in Known(h),
         c = NULL => ~(h.obj[o].count[Phantom] > 0)
  PROVE  LET g == object_set_collector(h, o, c)
         IN  /\ Level(h, g) /\ Keeps(h, g)
             /\ g.failed = h.failed
             /\ g.obj[o].collector = c
             /\ \A p \in Objects \ {o} : g.obj[p].collector = h.obj[p].collector
<1> DEFINE g == object_set_collector(h, o, c)
<1>1. CollectorSet(h, o, c, g)
  BY SetCollector
<1>2. g.failed = h.failed
  BY DEF object_set_collector, counter_ref
<1>3. h.obj \in [Objects -> Object]
  BY DEF Good, HeapType
<1>4. Keeps(h, g)
  BY SetCollectorKeeps
<1> HIDE DEF g
<1>5. /\ g.obj = [h.obj EXCEPT ![o].collector = c]
      /\ g.work = h.work /\ g.link = h.link
      /\ \A d \in Collectors : /\ g.coll[d].live = h.coll[d].live
                               /\ g.coll[d].lists = h.coll[d].lists
  BY <1>1 DEF CollectorSet
<1>6. /\ g.obj[o] = [h.obj[o] EXCEPT !.collector = c]
      /\ \A p \in Objects \ {o} : g.obj[p] = h.obj[p]
  BY <1>3, <1>5
<1>7. \A p \in Objects : h.obj[p] \in Object
  BY <1>3
<1>8. /\ g.obj[o].collector = c /\ g.obj[o].count = h.obj[o].count
      /\ g.obj[o].links = h.obj[o].links /\ g.obj[o].which = h.obj[o].which
      /\ g.obj[o].state = h.obj[o].state
  BY <1>6, <1>7 DEF Object
<1>9. SameShape(h, g)
  BY <1>5, <1>6, <1>8 DEF SameShape
<1>10. \A p \in Objects : h.obj[p].count[Phantom] > 0 =>
         (h.obj[p].collector # NULL => g.obj[p].collector # NULL)
  BY <1>6, <1>8
<1>11. Level(h, g)
  <2>1. Requested(g) \subseteq Requested(h)
    BY <1>5, RequestedFrame
  <2>2. \A p \in Objects : g.obj[p].count = h.obj[p].count
    BY <1>6, <1>8
  <2> QED
    BY <1>5, <1>9, <1>10, <2>1, <2>2, LevelFrame
<1> QED
  BY <1>2, <1>4, <1>6, <1>8, <1>11 DEF g

\* Count w of x is moved by d.
CountSet(h, g, x, w, d) == g = [h EXCEPT !.obj[x].count[w] = @ + d]

\* What that does.
CountMoved(h, g, x, w, d) ==
  /\ Step(h, g, x, w, d)
  /\ Keeps(h, g)
  /\ Requested(g) = Requested(h)
  /\ g.obj[x].count[w] = h.obj[x].count[w] + d
  /\ \A i \in 0..2 : i # w => g.obj[x].count[i] = h.obj[x].count[i]
  /\ \A p \in Objects : g.obj[p].collector = h.obj[p].collector
  /\ g.coll = h.coll /\ g.work = h.work
  /\ w # Phantom => (HasColl(h, x) => HasColl(g, x))

\* Changing one of an object's counts (object.c:120-168).
LEMMA CountStep ==
  ASSUME NEW h, Good(h), Emptied(h), NEW x \in Objects, NEW w \in 0..2,
         NEW d \in Int
  PROVE  \A g : CountSet(h, g, x, w, d) =>
           CountMoved(h, g, x, w, d) /\ g.failed = h.failed
<1> DEFINE v == h.obj[x].count[w] + d
<1>0. v \in Int /\ v - h.obj[x].count[w] = d
  BY CountsInt
<1>v. [h EXCEPT !.obj[x].count[w] = @ + d] = [h EXCEPT !.obj[x].count[w] = v]
  OBVIOUS
<1>w. v = h.obj[x].count[w] + d
  OBVIOUS
<1> HIDE DEF v
<1> DEFINE g == [h EXCEPT !.obj[x].count[w] = v]
<1>1. /\ Keeps(h, g) /\ SameNodes(h, g)
      /\ g.coll = h.coll /\ g.link = h.link /\ g.work = h.work
  BY <1>0, CountUpdate
<1>2. h.obj \in [Objects -> Object]
  BY DEF Good, HeapType
<1>3. /\ g.obj = [h.obj EXCEPT ![x].count[w] = v]
      /\ g.failed = h.failed
  BY DEF Good, HeapType
<1> HIDE DEF g
<1>4. /\ g.obj[x] = [h.obj[x] EXCEPT !.count[w] = v]
      /\ \A p \in Objects \ {x} : g.obj[p] = h.obj[p]
      /\ h.obj[x] \in Object
  BY <1>2, <1>3
<1>5. /\ g.obj[x].count = [h.obj[x].count EXCEPT ![w] = v]
      /\ g.obj[x].links = h.obj[x].links /\ g.obj[x].which = h.obj[x].which
      /\ g.obj[x].state = h.obj[x].state
      /\ g.obj[x].collector = h.obj[x].collector
      /\ h.obj[x].count \in [0..2 -> Int]
  BY <1>4 DEF Object
<1>6. SameShape(h, g)
  BY <1>1, <1>4, <1>5 DEF SameShape
<1>7. SameListed(h, g)
  BY <1>1, ListedFrame
<1>8. ASSUME NEW p \in Objects, NEW i \in 0..2
      PROVE  Unlisted(g, p, i) = Unlisted(h, p, i)
               + (IF p = x /\ i = w THEN v - h.obj[x].count[w] ELSE 0)
  <2>1. /\ Listed(Store(g), p, Counting) = Listed(Store(h), p, Counting)
        /\ Listed(Store(g), p, {"collect"}) = Listed(Store(h), p, {"collect"})
        /\ g.obj[p].which = h.obj[p].which
    BY <1>6, <1>7 DEF SameShape, SameListed
  <2>2. /\ Listed(Store(h), p, Counting) \in Int
        /\ Listed(Store(h), p, {"collect"}) \in Int
        /\ h.obj[p].count[i] \in Int
    BY UnlistedInt
  <2>3. g.obj[p].count[i] = IF p = x /\ i = w THEN v ELSE h.obj[p].count[i]
    BY <1>4, <1>5
  <2> DEFINE L == IF i = Phantom THEN Listed(Store(h), p, Counting)
                  ELSE IF i = h.obj[p].which THEN Listed(Store(h), p, {"collect"})
                  ELSE 0
  <2>4. /\ L \in Int
        /\ Unlisted(h, p, i) = h.obj[p].count[i] - L
        /\ Unlisted(g, p, i) = g.obj[p].count[i] - L
    BY <2>1, <2>2 DEF Unlisted
  <2> HIDE DEF L
  <2> QED
    BY <1>0, <2>2, <2>3, <2>4
<1>9. \A p \in Objects \ {x} : /\ g.obj[p].count = h.obj[p].count
                               /\ HasColl(h, p) => HasColl(g, p)
  BY <1>4 DEF HasColl
<1>10. Emptied(g) /\ Requested(g) = Requested(h)
  BY <1>1, RequestedFrame DEF Emptied, store_count_zero
<1>11. w # Phantom => (HasColl(h, x) => HasColl(g, x))
  <2>1. w # Phantom => g.obj[x].count[Phantom] = h.obj[x].count[Phantom]
    BY <1>5
  <2> QED
    BY <1>5, <2>1 DEF HasColl
<1>12. Step(h, g, x, w, v - h.obj[x].count[w])
  BY <1>6, <1>8, <1>9, <1>10 DEF Step
<1>13. \A p \in Objects : g.obj[p].collector = h.obj[p].collector
  BY <1>4, <1>5
<1>14. /\ g.obj[x].count[w] = h.obj[x].count[w] + d
       /\ \A i \in 0..2 : i # w => g.obj[x].count[i] = h.obj[x].count[i]
  BY <1>5, <1>w
<1>15. Step(h, g, x, w, d)
  BY <1>0, <1>12
<1>16. CountMoved(h, g, x, w, d)
  BY <1>1, <1>3, <1>10, <1>11, <1>13, <1>14, <1>15 DEF CountMoved
<1>17. \A k : CountSet(h, k, x, w, d) => k = g
  BY <1>v DEF CountSet, g
<1> QED
  BY <1>3, <1>16, <1>17

\* Queueing a task is level but for the object it deletes (task.c:34-38).
LEMMA StartTaskLevel ==
  ASSUME NEW h, Good(h), Emptied(h), NEW run, NEW arg,
         [run |-> run, arg |-> arg] \in KnownTask(h)
  PROVE  LET g == task_start(h, run, arg)
         IN  /\ g.obj = h.obj /\ g.coll = h.coll /\ g.link = h.link
             /\ g.failed = h.failed
             /\ Requested(g) = Requested(h)
                  \cup (IF run = "request_delete" THEN {arg} ELSE {})
             /\ run = "collector_run" => Level(h, g)
             /\ Step(h, g, arg, 0, 0)
<1> DEFINE t == [run |-> run, arg |-> arg]
           g == task_start(h, run, arg)
<1>1. g.obj = h.obj /\ g.coll = h.coll /\ g.link = h.link
  BY StartTask
<1>2. /\ h.work \in Seq(KnownTask(h)) /\ h \in HeapType
      /\ t \in KnownTask(h)
  BY DEF Good, UsedOK, WorkOK
<1>3. g.work = Append(h.work, t) /\ g.failed = h.failed
  BY <1>2 DEF task_start, HeapType
<1> HIDE DEF g
<1>4. /\ DOMAIN h.work = 1 .. Len(h.work) /\ Len(h.work) \in Nat
      /\ DOMAIN g.work = 1 .. Len(h.work) + 1
      /\ \A i \in 1 .. Len(h.work) : g.work[i] = h.work[i]
      /\ g.work[Len(h.work) + 1] = t
  BY <1>2, <1>3, AppendProperties
<1>5. t.run = run /\ t.arg = arg
  OBVIOUS
<1> HIDE DEF t
<1>6. ASSUME NEW p
      PROVE  p \in Requested(g) <=> \/ p \in Requested(h)
                                    \/ run = "request_delete" /\ p = arg
  <2>1. p \in Requested(g) <=>
          \E i \in 1 .. Len(h.work) + 1 :
            g.work[i].run = "request_delete" /\ p = g.work[i].arg
    BY <1>4 DEF Requested
  <2>2. p \in Requested(h) <=>
          \E i \in 1 .. Len(h.work) :
            h.work[i].run = "request_delete" /\ p = h.work[i].arg
    BY <1>4 DEF Requested
  <2>3. \A i : i \in 1 .. Len(h.work) + 1
                 <=> i \in 1 .. Len(h.work) \/ i = Len(h.work) + 1
    BY <1>4
  <2> QED
    BY <1>4, <1>5, <2>1, <2>2, <2>3
<1>7. Requested(g) = Requested(h) \cup (IF run = "request_delete" THEN {arg} ELSE {})
  BY <1>6
<1>8. run = "collector_run" => Level(h, g)
  BY <1>1, <1>7, LevelFrame DEF SameShape
<1>9. Step(h, g, arg, 0, 0)
  <2>1. SameListed(h, g)
    BY <1>1, ListedFrame
  <2>2. \A p \in Objects, i \in 0..2 :
          Unlisted(g, p, i) = Unlisted(h, p, i) /\ Unlisted(h, p, i) \in Int
    BY <1>1, <2>1, UnlistedInt DEF SameListed, Unlisted
  <2>3. Emptied(g)
    BY <1>1 DEF Emptied, store_count_zero
  <2> QED
    BY <1>1, <2>2, <2>3 DEF Step, SameShape, HasColl
<1> QED
  BY <1>1, <1>3, <1>7, <1>8, <1>9 DEF g

\* An object without a collector gets one; a new collector has empty lists,
\* as had the memory it is made of (object.c:129-133).
LEMMA StartCollectorLevel ==
  ASSUME NEW h, Good(h), Emptied(h), NEW o \in Known(h), CanCreate(h)
  PROVE  LET g == StartCollector(h, o)
         IN  /\ Level(h, g) /\ Good(g) /\ SameUsed(h, g)
             /\ g.failed = h.failed
             /\ g.obj[o].collector \in Collectors
             /\ \A p \in Objects \ {o} : g.obj[p].collector = h.obj[p].collector
<1> DEFINE c == FreshCollector(h)
           h1 == collector_create(h, c)
           h2 == object_set_collector(h1, o, c)
           h3 == task_start(h2, "collector_run", c)
<1>1. c \in Collectors /\ ~h.coll[c].live /\ o \in Objects
  BY DEF CanCreate, FreshCollector, Known
<1>2. StartCollector(h, o) = h3
  BY DEF StartCollector
<1> HIDE DEF c
<1>3. h.coll[c].ref_count = 0 /\ h.coll[c].forward = NULL
  BY <1>1 DEF Good, CollectorsOK, DeadUnused
<1>4. /\ Good(h1) /\ SameUsed(h, h1) /\ h1.coll[c].live
      /\ h1.obj = h.obj /\ h1.work = h.work /\ h1.link = h.link
      /\ \A d \in Collectors \ {c} : h1.coll[d] = h.coll[d]
  BY <1>1, <1>3, CollectorReset DEF collector_create
<1>5. h1.failed = h.failed /\ h1.coll[c].lists = [l \in ListNames |-> <<>>]
  BY <1>1 DEF collector_create, NoCollector, Good, HeapType
<1>6. h1.coll[c].lists = h.coll[c].lists
  <2>1. h.coll[c].lists \in [ListNames -> Seq(Objects)]
    BY <1>1 DEF Good, HeapType, Collector
  <2>2. \A l \in ListNames : h.coll[c].lists[l] = <<>>
    BY <1>1 DEF Emptied, store_count_zero
  <2> QED
    BY <1>5, <2>1, <2>2
<1> HIDE DEF h1
<1>7. Level(h, h1)
  <2>1. \A d \in Collectors : /\ h1.coll[d].lists = h.coll[d].lists
                              /\ h.coll[d].live => h1.coll[d].live
    BY <1>4, <1>6
  <2>2. SameShape(h, h1) /\ Requested(h1) \subseteq Requested(h)
    BY <1>4, RequestedFrame DEF SameShape
  <2> QED
    BY <1>4, <2>1, <2>2, LevelFrame
<1>8. Emptied(h1) /\ o \in Known(h1)
  BY <1>4, <1>7 DEF Level, SameUsed
<1>9. /\ Level(h1, h2) /\ Keeps(h1, h2) /\ h2.failed = h1.failed
      /\ h2.obj[o].collector = c
      /\ \A p \in Objects \ {o} : h2.obj[p].collector = h1.obj[p].collector
  BY <1>1, <1>4, <1>8, SetCollectorLevel, HeapAssumption
<1> HIDE DEF h2
<1>10. Good(h2) /\ Emptied(h2)
  BY <1>9 DEF Keeps, Level
<1>11. [run |-> "collector_run", arg |-> c] \in KnownTask(h2)
  BY <1>1 DEF KnownTask
<1>12. Level(h2, h3) /\ h3.obj = h2.obj /\ h3.failed = h2.failed
  BY <1>10, <1>11, StartTaskLevel
<1>13. Good(h3) /\ SameUsed(h, h3)
  BY <1>1, <1>2, StartCollectorGood
<1> HIDE DEF h3
<1>14. Level(h, h3)
  BY <1>7, <1>9, <1>12, LevelTrans
<1> QED
  BY <1>1, <1>2, <1>4, <1>5, <1>9, <1>12, <1>13, <1>14

\* x is in a more lists that count and in b more collect lists.
Relisted(h, g, x, a, b) ==
  \A p \in Objects :
    /\ Listed(Store(g), p, Counting) =
         Listed(Store(h), p, Counting) + (IF p = x THEN a ELSE 0)
    /\ Listed(Store(g), p, {"collect"}) =
         Listed(Store(h), p, {"collect"}) + (IF p = x THEN b ELSE 0)

\* The lists of c become ls.
ListsSet(h, g, c, ls) == g = [h EXCEPT !.coll[c].lists = ls]

\* What that does.
ListsMoved(h, g, c, ls) ==
  /\ Keeps(h, g) /\ g.obj = h.obj /\ g.link = h.link
  /\ g.work = h.work /\ g.failed = h.failed
  /\ g.coll[c].lists = ls
  /\ \A d \in Collectors \ {c} : g.coll[d] = h.coll[d]
  /\ \A d \in Collectors : g.coll[d].forward = h.coll[d].forward

\* Writing the lists of c (safelist.c).
LEMMA ListsChange ==
  ASSUME NEW h, Good(h), NEW c \in Collectors,
         NEW ls \in [ListNames -> Seq(Known(h))]
  PROVE  \A g : ListsSet(h, g, c, ls) => ListsMoved(h, g, c, ls)
<1> DEFINE k == [h EXCEPT !.coll[c].lists = ls]
<1>1. /\ Keeps(h, k) /\ k.obj = h.obj /\ k.link = h.link /\ k.work = h.work
      /\ k.coll[c].lists = ls
      /\ \A d \in Collectors \ {c} : k.coll[d] = h.coll[d]
  BY ListsGood
<1>2. k.failed = h.failed
  OBVIOUS
<1>3. k.coll[c].forward = h.coll[c].forward
  BY DEF Good, HeapType, Collector
<1> HIDE DEF k
<1> QED
  BY <1>1, <1>2, <1>3 DEF ListsSet, ListsMoved, k

\* Nothing but lists changes.
ListsOnly(h, g) ==
  /\ g.obj = h.obj /\ g.link = h.link /\ g.work = h.work
  /\ g.failed = h.failed

\* List n of c gets x as a last element.
Added(h, g, c, n, x) == g = [h EXCEPT !.coll[c].lists[n] = Append(@, x)]

\* A list of a live collector with one more element.
LEMMA AppendListed ==
  ASSUME NEW h, Good(h), Emptied(h), NEW c \in Collectors, h.coll[c].live,
         NEW n \in ListNames, NEW x \in Known(h),
         NEW g, Added(h, g, c, n, x)
  PROVE  /\ Keeps(h, g) /\ ListsOnly(h, g) /\ Emptied(g)
         /\ Relisted(h, g, x, IF n \in Counting THEN 1 ELSE 0,
                              IF n = "collect" THEN 1 ELSE 0)
<1> DEFINE ls == [h.coll[c].lists EXCEPT ![n] = Append(@, x)]
           k == [h EXCEPT !.coll[c].lists = ls]
<1>1. g = k
  BY DEF Added
<1>2. h.coll[c].lists \in [ListNames -> Seq(Known(h))] /\ x \in Objects
  BY DEF Good, UsedOK, ListsOK, Known
<1>3. ls \in [ListNames -> Seq(Known(h))]
  BY <1>2, AppendToList
<1>4. /\ ls[n] = Append(h.coll[c].lists[n], x)
      /\ \A m \in ListNames \ {n} : ls[m] = h.coll[c].lists[m]
  BY <1>2
<1> HIDE DEF ls
<1>5. /\ Keeps(h, k) /\ k.obj = h.obj /\ k.link = h.link /\ k.work = h.work
      /\ k.failed = h.failed /\ k.coll[c].lists = ls
      /\ \A d \in Collectors \ {c} : k.coll[d] = h.coll[d]
  <2>1. ListsSet(h, k, c, ls)
    BY DEF ListsSet
  <2> HIDE DEF k
  <2>2. ListsMoved(h, k, c, ls)
    BY <1>3, <2>1, ListsChange
  <2> QED
    BY <2>2 DEF ListsMoved
<1> HIDE DEF k
<1>7. \A d \in Collectors \ {c} : ~k.coll[d].live => store_count_zero(k, d)
  BY <1>5 DEF Emptied, store_count_zero
<1>8. k.coll[c].live
  BY <1>5 DEF Keeps
<1>9. Emptied(k)
  BY <1>7, <1>8 DEF Emptied
<1>10. ASSUME NEW p \in Objects, NEW names \in SUBSET ListNames
       PROVE  Listed(Store(k), p, names) = Listed(Store(h), p, names)
                + (IF n \in names /\ p = x THEN 1 ELSE 0)
  <2>1. Good(k)
    BY <1>5 DEF Keeps
  <2>2. /\ Store(h) \in StoreType /\ Store(k) \in StoreType
        /\ \A d \in Collectors : /\ Store(h)[d] = h.coll[d].lists
                                 /\ Store(k)[d] = k.coll[d].lists
    BY <2>1, StoreHas
  <2>3. Store(k)[c][n] = Append(Store(h)[c][n], x)
    BY <1>4, <1>5, <2>2
  <2>4. Elsewhere(Store(h), Store(k), c, n)
    BY <1>4, <1>5, <2>2 DEF Elsewhere
  <2> QED
    BY <1>2, <2>2, <2>3, <2>4, ListAppend
<1>11. Relisted(h, k, x, IF n \in Counting THEN 1 ELSE 0,
                         IF n = "collect" THEN 1 ELSE 0)
  <2>1. ASSUME NEW p \in Objects
        PROVE  /\ Listed(Store(k), p, Counting) = Listed(Store(h), p, Counting)
                    + (IF p = x THEN IF n \in Counting THEN 1 ELSE 0 ELSE 0)
               /\ Listed(Store(k), p, {"collect"}) =
                    Listed(Store(h), p, {"collect"})
                    + (IF p = x THEN IF n = "collect" THEN 1 ELSE 0 ELSE 0)
    <3>1. Counting \in SUBSET ListNames /\ {"collect"} \in SUBSET ListNames
      BY DEF Counting, ListNames
    <3>2. Listed(Store(k), p, Counting) = Listed(Store(h), p, Counting)
                + (IF n \in Counting /\ p = x THEN 1 ELSE 0)
      BY <1>10, <3>1
    <3>3. Listed(Store(k), p, {"collect"}) = Listed(Store(h), p, {"collect"})
                + (IF n \in {"collect"} /\ p = x THEN 1 ELSE 0)
      BY <1>10, <3>1
    <3> QED
      BY <3>2, <3>3
  <2> QED
    BY <2>1 DEF Relisted
<1> QED
  BY <1>1, <1>5, <1>9, <1>11 DEF ListsOnly

\* An object's counts without its entries when its entries change.
LEMMA ListedStep ==
  ASSUME NEW h, Good(h), NEW g, SameShape(h, g), NEW x \in Objects,
         \A p \in Objects : g.obj[p].count = h.obj[p].count,
         NEW a \in Int, NEW b \in Int, Relisted(h, g, x, a, b),
         NEW p \in Objects, NEW i \in 0..2
  PROVE  Unlisted(g, p, i) = Unlisted(h, p, i)
           - (IF p = x THEN IF i = Phantom THEN a
                            ELSE IF i = h.obj[p].which THEN b ELSE 0
              ELSE 0)
<1>1. /\ Listed(Store(h), p, Counting) \in Int
      /\ Listed(Store(h), p, {"collect"}) \in Int
      /\ h.obj[p].count[i] \in Int
  BY UnlistedInt
<1>2. g.obj[p].which = h.obj[p].which /\ g.obj[p].count = h.obj[p].count
  BY DEF SameShape
<1>3. /\ Listed(Store(g), p, Counting) =
           Listed(Store(h), p, Counting) + (IF p = x THEN a ELSE 0)
      /\ Listed(Store(g), p, {"collect"}) =
           Listed(Store(h), p, {"collect"}) + (IF p = x THEN b ELSE 0)
  BY DEF Relisted
<1>4. CASE i = Phantom
  BY <1>1, <1>2, <1>3, <1>4 DEF Unlisted
<1>5. CASE i # Phantom /\ i = h.obj[p].which
  BY <1>1, <1>2, <1>3, <1>5 DEF Unlisted
<1>6. CASE i # Phantom /\ i # h.obj[p].which
  BY <1>1, <1>2, <1>3, <1>6 DEF Unlisted
<1> QED
  BY <1>4, <1>5, <1>6

\* safelist_add gives an entry for a phantom count, or adds to a rebuild
\* list, that of a node whose own count keeps it (safelist.c:18-36).
LEMMA SafelistAddStep ==
  ASSUME NEW h, Good(h), Emptied(h), NEW c \in Collectors, h.coll[c].live,
         NEW l \in {"recovery_list", "rebuild_list", "clean_list"},
         NEW o \in Known(h)
  PROVE  LET g == safelist_add(h, c, l, o)
         IN  /\ IF l = "rebuild_list" THEN Level(h, g)
                                      ELSE Step(h, g, o, Phantom, -1)
             /\ ListsOnly(h, g) /\ Emptied(g)
<1> DEFINE g == safelist_add(h, c, l, o)
<1>1. \E d \in Collectors, n \in ListNames :
        /\ h.coll[d].live
        /\ n # "collect"
        /\ n = "rebuild_list" <=> l = "rebuild_list"
        /\ Added(h, g, d, n, o)
  <2>1. CASE h.coll[c].forward = NULL
    <3>1. g = [h EXCEPT !.coll[c].lists[l] = Append(@, o)]
      BY <2>1 DEF safelist_add
    <3>2. Added(h, g, c, l, o)
      BY <3>1 DEF Added
    <3> HIDE DEF g
    <3> QED
      BY <3>2 DEF ListNames
  <2>2. CASE h.coll[c].forward # NULL
    <3>1. collector_update(h, c) \in Collectors /\ h.coll[collector_update(h, c)].live
      BY UpdateCollector
    <3> DEFINE n == ForwardedList(l)
               d == collector_update(h, c)
    <3>2. /\ n \in ListNames /\ n # "collect"
          /\ n = "rebuild_list" <=> l = "rebuild_list"
      BY DEF ForwardedList, ListNames
    <3>3. g = [h EXCEPT !.coll[d].lists[n] = Append(@, o)]
      BY <2>2 DEF safelist_add
    <3>4. Added(h, g, d, n, o)
      BY <3>3 DEF Added
    <3> HIDE DEF n, d, g
    <3> QED
      BY <3>1, <3>2, <3>4 DEF d
  <2> QED
    BY <2>1, <2>2
<1> HIDE DEF g
<1>2. PICK d \in Collectors, n \in ListNames :
        /\ h.coll[d].live
        /\ n # "collect"
        /\ n = "rebuild_list" <=> l = "rebuild_list"
        /\ Added(h, g, d, n, o)
  BY <1>1
<1> DEFINE a == IF n \in Counting THEN 1 ELSE 0
           b == IF n = "collect" THEN 1 ELSE 0
<1>3. /\ Keeps(h, g) /\ ListsOnly(h, g) /\ Emptied(g) /\ Relisted(h, g, o, a, b)
  BY <1>2, AppendListed
<1>4. /\ a \in Int /\ b = 0 /\ b \in Int
      /\ l = "rebuild_list" => a = 0
      /\ l # "rebuild_list" => a = 1
  BY <1>2 DEF Counting
<1> HIDE DEF a, b
<1>5. /\ o \in Objects /\ SameShape(h, g) /\ Requested(g) = Requested(h)
      /\ g.obj = h.obj /\ \A p \in Objects : g.obj[p].count = h.obj[p].count
  BY <1>3, RequestedFrame DEF Known, SameShape, ListsOnly
<1>6. CASE l = "rebuild_list"
  <2>1. ASSUME NEW p \in Objects
        PROVE  /\ Listed(Store(g), p, Counting) = Listed(Store(h), p, Counting)
               /\ Listed(Store(g), p, {"collect"}) = Listed(Store(h), p, {"collect"})
    <3>1. /\ Listed(Store(h), p, Counting) \in Nat
          /\ Listed(Store(h), p, {"collect"}) \in Nat
      BY UnlistedInt
    <3>2. a = 0 /\ b = 0
      BY <1>4, <1>6
    <3> QED
      BY <1>3, <3>1, <3>2 DEF Relisted
  <2>2. SameListed(h, g)
    BY <2>1 DEF SameListed
  <2> QED
    BY <1>3, <1>5, <1>6, <2>2 DEF Level, HasColl, g
<1>7. CASE l # "rebuild_list"
  <2>1. ASSUME NEW p \in Objects, NEW i \in 0..2
        PROVE  Unlisted(g, p, i) = Unlisted(h, p, i)
                 + (IF p = o /\ i = Phantom THEN -1 ELSE 0)
    <3>1. Unlisted(g, p, i) = Unlisted(h, p, i)
           - (IF p = o THEN IF i = Phantom THEN a
                            ELSE IF i = h.obj[p].which THEN b ELSE 0
              ELSE 0)
      BY <1>3, <1>4, <1>5, ListedStep
    <3>2. Unlisted(h, p, i) \in Int /\ a = 1 /\ b = 0
      BY <1>4, <1>7, UnlistedInt
    <3> QED
      BY <3>1, <3>2
  <2>2. Step(h, g, o, Phantom, -1)
    BY <1>3, <1>5, <2>1 DEF Step, HasColl
  <2> QED
    BY <1>3, <1>7, <2>2 DEF g
<1> QED
  BY <1>6, <1>7

\* safelist_poll turns an entry for a count into a thread that has it in hand
\* (safelist.c:47-58).
LEMMA SafelistPollStep ==
  ASSUME NEW h, Good(h), Emptied(h), NEW c \in Collectors,
         NEW l \in ListNames, h.coll[c].lists[l] # <<>>
  PROVE  LET g == safelist_poll(h, c, l)
             x == Head(h.coll[c].lists[l])
         IN  /\ ListsOnly(h, g) /\ Emptied(g)
             /\ x \in Objects
             /\ \A p \in Objects, i \in 0..2 :
                  Unlisted(g, p, i) = Unlisted(h, p, i)
                    + (IF p = x /\ i = Phantom /\ l \in Counting THEN 1 ELSE 0)
                    + (IF p = x /\ i = h.obj[p].which /\ l = "collect"
                         THEN 1 ELSE 0)
<1> DEFINE q == h.coll[c].lists[l]
           ls == [h.coll[c].lists EXCEPT ![l] = Tail(q)]
           g == [h EXCEPT !.coll[c].lists = ls]
           x == Head(q)
<1>1. safelist_poll(h, c, l) = g
  BY DEF safelist_poll
<1>2. /\ h.coll[c].lists \in [ListNames -> Seq(Known(h))]
      /\ q \in Seq(Known(h)) /\ q # <<>>
  BY DEF Good, UsedOK, ListsOK
<1>3. Tail(q) \in Seq(Known(h)) /\ x \in Objects
  BY <1>2, HeadTailProperties DEF Known
<1>4. /\ ls \in [ListNames -> Seq(Known(h))] /\ ls[l] = Tail(q)
      /\ \A m \in ListNames \ {l} : ls[m] = h.coll[c].lists[m]
  BY <1>2, <1>3
<1> HIDE DEF ls, q
<1>5. /\ Keeps(h, g) /\ g.obj = h.obj /\ g.link = h.link /\ g.work = h.work
      /\ g.failed = h.failed /\ g.coll[c].lists = ls
      /\ \A d \in Collectors \ {c} : g.coll[d] = h.coll[d]
  <2>1. ListsSet(h, g, c, ls)
    BY DEF ListsSet
  <2> HIDE DEF g
  <2>2. ListsMoved(h, g, c, ls)
    BY <1>4, <2>1, ListsChange
  <2> QED
    BY <2>2 DEF ListsMoved
<1> HIDE DEF g
<1>7. Emptied(g)
  <2>1. \A d \in Collectors \ {c} : ~g.coll[d].live => store_count_zero(g, d)
    BY <1>5 DEF Emptied, store_count_zero
  <2>2. h.coll[c].live
    BY <1>2 DEF Emptied, store_count_zero, q
  <2>3. g.coll[c].live
    BY <1>5, <2>2 DEF Keeps
  <2> QED
    BY <2>1, <2>3 DEF Emptied
<1> DEFINE a == IF l \in Counting THEN -1 ELSE 0
           b == IF l = "collect" THEN -1 ELSE 0
<1>8. Relisted(h, g, x, a, b)
  <2>1. Good(g)
    BY <1>5 DEF Keeps
  <2>2. /\ Store(h) \in StoreType /\ Store(g) \in StoreType
        /\ \A d \in Collectors : /\ Store(h)[d] = h.coll[d].lists
                                 /\ Store(g)[d] = g.coll[d].lists
    BY <2>1, StoreHas
  <2>3. Store(h)[c][l] = q
    BY <2>2 DEF q
  <2>4. Polled(Store(h), Store(g), c, l)
    BY <1>2, <1>4, <1>5, <2>2, <2>3 DEF Polled
  <2>5. Elsewhere(Store(h), Store(g), c, l)
    BY <1>4, <1>5, <2>2 DEF Elsewhere
  <2>6. ASSUME NEW p \in Objects, NEW names \in SUBSET ListNames
        PROVE  Listed(Store(g), p, names) = Listed(Store(h), p, names)
                 - (IF l \in names /\ p = Head(Store(h)[c][l]) THEN 1 ELSE 0)
    BY <2>2, <2>4, <2>5, ListTail
  <2>7. ASSUME NEW p \in Objects
        PROVE  /\ Listed(Store(g), p, Counting) = Listed(Store(h), p, Counting)
                    + (IF p = x THEN a ELSE 0)
               /\ Listed(Store(g), p, {"collect"}) =
                    Listed(Store(h), p, {"collect"}) + (IF p = x THEN b ELSE 0)
    <3>1. Counting \in SUBSET ListNames /\ {"collect"} \in SUBSET ListNames
      BY DEF Counting, ListNames
    <3>2. Listed(Store(g), p, Counting) = Listed(Store(h), p, Counting)
                - (IF l \in Counting /\ p = x THEN 1 ELSE 0)
      BY <2>3, <2>6, <3>1
    <3>3. Listed(Store(g), p, {"collect"}) = Listed(Store(h), p, {"collect"})
                - (IF l \in {"collect"} /\ p = x THEN 1 ELSE 0)
      BY <2>3, <2>6, <3>1
    <3>4. /\ Listed(Store(h), p, Counting) \in Int
          /\ Listed(Store(h), p, {"collect"}) \in Int
      BY UnlistedInt
    <3> QED
      BY <3>2, <3>3, <3>4
  <2> QED
    BY <2>7 DEF Relisted
<1>9. ListsOnly(h, g) /\ SameShape(h, g)
      /\ \A p \in Objects : g.obj[p].count = h.obj[p].count
  BY <1>5 DEF ListsOnly, SameShape
<1>10. ASSUME NEW p \in Objects, NEW i \in 0..2
       PROVE  Unlisted(g, p, i) = Unlisted(h, p, i)
                + (IF p = x /\ i = Phantom /\ l \in Counting THEN 1 ELSE 0)
                + (IF p = x /\ i = h.obj[p].which /\ l = "collect"
                     THEN 1 ELSE 0)
  <2>1. a \in Int /\ b \in Int
    OBVIOUS
  <2>2. Unlisted(g, p, i) = Unlisted(h, p, i)
           - (IF p = x THEN IF i = Phantom THEN a
                            ELSE IF i = h.obj[p].which THEN b ELSE 0
              ELSE 0)
    <3> HIDE DEF a, b, x
    <3> QED
      BY <1>3, <1>8, <1>9, <2>1, ListedStep
  <2>3. Unlisted(h, p, i) \in Int /\ h.obj[p].which # Phantom
    BY UnlistedInt
  <2> HIDE DEF x
  <2> QED
    BY <2>2, <2>3
<1> QED
  BY <1>1, <1>3, <1>7, <1>9, <1>10 DEF q

\* A call requests at most the deletion of x, when nothing counts on it.
Requests(h, g, x) ==
  \A p \in Requested(g) : p \in Requested(h) \/ (p = x /\ Zero(g, x))

\* A call that takes a count w from x, if there is one.
Lost(h, g, x, w) ==
  /\ Step(h, g, x, w, -1)
  /\ HasColl(h, x) => HasColl(g, x)
  /\ Requests(h, g, x)
  /\ h.obj[x].count[w] > 0 => g.failed = h.failed

\* collector_add_object adds a collect entry and the two counts it stands for
\* (collector.c:60-81).
LEMMA AddObjectStep ==
  ASSUME NEW h, Good(h), Emptied(h), NEW o \in Known(h),
         NEW c \in Collectors, h.coll[c].live
  PROVE  LET g == collector_add_object(h, c, o)
         IN  /\ Step(h, g, o, 0, 0)
             /\ g.obj[o].collector \in Collectors
             /\ Requested(g) = Requested(h)
             /\ g.failed = h.failed
<1> DEFINE add_to == collector_update(h, c)
           w  == h.obj[o].which
           h1 == [h EXCEPT !.obj[o].count[w] = @ + 1]
           h2 == [h1 EXCEPT !.obj[o].count[Phantom] = @ + 1]
           h3 == [h2 EXCEPT !.coll[add_to].lists["collect"] = Append(@, o)]
           h4 == object_set_collector(h3, o, add_to)
<1>1. add_to \in Collectors /\ h.coll[add_to].live /\ o \in Objects
  BY UpdateCollector DEF Known
<1>2. collector_add_object(h, c, o) = h4
  BY DEF collector_add_object
<1> HIDE DEF add_to
<1>3. w \in 0..2 /\ w # Phantom /\ Phantom \in 0..2
  BY <1>1, CountsInt, UnlistedInt
<1>4. CountMoved(h, h1, o, w, 1) /\ h1.failed = h.failed
  <2>1. CountSet(h, h1, o, w, 1)
    BY DEF CountSet
  <2> HIDE DEF h1, w
  <2> QED
    BY <1>1, <1>3, <2>1, CountStep
<1> HIDE DEF h1
<1>5. /\ Good(h1) /\ Emptied(h1) /\ SameShape(h, h1) /\ SameUsed(h, h1)
      /\ Step(h, h1, o, w, 1) /\ Requested(h1) = Requested(h)
      /\ h1.failed = h.failed /\ h1.coll = h.coll
  BY <1>4 DEF CountMoved, Keeps, Step
<1>6. CountMoved(h1, h2, o, Phantom, 1) /\ h2.failed = h1.failed
  <2>1. CountSet(h1, h2, o, Phantom, 1)
    BY DEF CountSet
  <2> HIDE DEF h2
  <2> QED
    BY <1>1, <1>3, <1>5, <2>1, CountStep
<1> HIDE DEF h2
<1>7. /\ Good(h2) /\ Emptied(h2) /\ SameShape(h1, h2) /\ SameUsed(h1, h2)
      /\ Step(h1, h2, o, Phantom, 1) /\ Requested(h2) = Requested(h1)
      /\ h2.failed = h1.failed /\ h2.coll = h1.coll
  BY <1>6 DEF CountMoved, Keeps, Step
<1>8. Good(h2) /\ Emptied(h2) /\ SameShape(h1, h2) /\ o \in Known(h2)
      /\ h2.coll[add_to].live
  BY <1>1, <1>5, <1>7 DEF SameUsed
<1>9. /\ Keeps(h2, h3) /\ ListsOnly(h2, h3) /\ Emptied(h3)
      /\ Relisted(h2, h3, o, 1, 1)
  <2>1. Added(h2, h3, add_to, "collect", o)
    BY DEF Added
  <2>2. "collect" \in ListNames /\ "collect" \in Counting
    BY DEF ListNames, Counting
  <2> HIDE DEF h3
  <2>3. /\ Keeps(h2, h3) /\ ListsOnly(h2, h3) /\ Emptied(h3)
        /\ Relisted(h2, h3, o, IF "collect" \in Counting THEN 1 ELSE 0,
                               IF "collect" = "collect" THEN 1 ELSE 0)
    BY <1>1, <1>8, <2>1, <2>2, AppendListed
  <2> QED
    BY <2>2, <2>3
<1> HIDE DEF h3
<1>10. /\ Good(h3) /\ h3.coll[add_to].live /\ o \in Known(h3)
  BY <1>1, <1>8, <1>9 DEF Keeps, SameUsed
<1>11. /\ Level(h3, h4) /\ h4.failed = h3.failed
       /\ h4.obj[o].collector = add_to
       /\ \A p \in Objects \ {o} : h4.obj[p].collector = h3.obj[p].collector
       /\ h4.work = h3.work
  <2>1. add_to # NULL /\ add_to \in Collectors \cup {NULL}
    BY <1>1, HeapAssumption
  <2>2. h4.work = h3.work
    BY DEF object_set_collector, counter_ref
  <2> HIDE DEF h4
  <2> QED
    BY <1>1, <1>9, <1>10, <2>1, <2>2, SetCollectorLevel DEF h4
<1> HIDE DEF h4
<1>12. SameShape(h2, h3) /\ Requested(h3) = Requested(h2) /\ h3.failed = h2.failed
       /\ h3.obj = h2.obj
  BY <1>9, RequestedFrame DEF ListsOnly, SameShape
<1>13. Step(h, h3, o, 0, 0)
  <2>1. ASSUME NEW p \in Objects, NEW i \in 0..2
        PROVE  Unlisted(h3, p, i) = Unlisted(h, p, i)
                 + (IF p = o /\ i = 0 THEN 0 ELSE 0)
    <3>1. Unlisted(h1, p, i) = Unlisted(h, p, i) + (IF p = o /\ i = w THEN 1 ELSE 0)
      BY <1>5 DEF Step
    <3>2. Unlisted(h2, p, i) = Unlisted(h1, p, i)
            + (IF p = o /\ i = Phantom THEN 1 ELSE 0)
      BY <1>7 DEF Step
    <3>3. Unlisted(h3, p, i) = Unlisted(h2, p, i)
           - (IF p = o THEN IF i = Phantom THEN 1
                            ELSE IF i = h2.obj[p].which THEN 1 ELSE 0
              ELSE 0)
      BY <1>1, <1>8, <1>9, <1>12, ListedStep
    <3>4. p = o => h2.obj[p].which = w
      BY <1>5, <1>7 DEF SameShape, w
    <3>5. Unlisted(h, p, i) \in Int
      BY UnlistedInt
    <3> QED
      BY <1>3, <3>1, <3>2, <3>3, <3>4, <3>5
  <2>2. SameShape(h, h3)
    BY <1>5, <1>7, <1>12 DEF SameShape
  <2>3. \A p \in Objects \ {o} : /\ h3.obj[p].count = h.obj[p].count
                                 /\ HasColl(h, p) => HasColl(h3, p)
    BY <1>5, <1>7, <1>12 DEF Step, HasColl
  <2> QED
    BY <1>9, <2>1, <2>2, <2>3 DEF Step
<1>14. Step(h, h4, o, 0, 0)
  BY <1>11, <1>13, StepLevel
<1>15. Requested(h4) = Requested(h)
  BY <1>5, <1>7, <1>11, <1>12, RequestedFrame
<1> QED
  BY <1>1, <1>2, <1>5, <1>7, <1>11, <1>12, <1>14, <1>15

\* An assertion that holds changes nothing (a step of every proof below).
LEMMA AssertHolds ==
  ASSUME NEW h, NEW P, NEW what, P
  PROVE  assert(h, P, what) = h
BY DEF assert

\* A step and then an assertion about counts are a step; the assertion is
\* false only of the counts left.
LEMMA StepAssert ==
  ASSUME NEW h, NEW g, NEW x \in Objects, NEW w \in 0..2, NEW d \in Int,
         CountMoved(h, g, x, w, d), NEW P, NEW what \in Failures
  PROVE  LET k == assert(g, P, what)
         IN  CountMoved(h, k, x, w, d) /\ (P => k.failed = g.failed)
<1> DEFINE k == assert(g, P, what)
<1>1. /\ Good(g) /\ Emptied(g) /\ SameUsed(h, g) /\ Step(h, g, x, w, d)
      /\ Keeps(h, g)
      /\ Requested(g) = Requested(h)
  BY DEF CountMoved, Keeps, Step
<1>2. SameBut(g, k)
  BY <1>1, AssertSame
<1>3. Level(g, k)
  BY <1>1, AssertLevel
<1>4. P => k.failed = g.failed
  BY AssertHolds
<1> HIDE DEF k
<1>5. /\ k.obj = g.obj /\ k.coll = g.coll /\ k.link = g.link
      /\ k.work = g.work /\ Keeps(g, k)
  BY <1>2 DEF SameBut
<1>6. Step(h, k, x, w, d)
  BY <1>1, <1>3, StepLevel
<1>7. Keeps(h, k)
  BY <1>1, <1>5, KeepsTrans
<1>8. HasColl(g, x) => HasColl(k, x)
  BY <1>5 DEF HasColl
<1>9. Requested(k) = Requested(g)
  BY <1>5, RequestedFrame
<1>10. CountMoved(h, k, x, w, d)
  BY <1>5, <1>6, <1>7, <1>8, <1>9 DEF CountMoved
<1> QED
  BY <1>4, <1>10 DEF k

\* object_dec takes one count; with the last one the node is deleted, or
\* given to its collector, and the entry and its counts come together
\* (object.c:120-138).
LEMMA ObjectDecLost ==
  ASSUME NEW h, Good(h), Emptied(h), NEW o \in Known(h), NEW w \in Bits,
         CanCreate(h)
  PROVE  Lost(h, object_dec(h, o, w), o, w)
<1> DEFINE h1 == [h EXCEPT !.obj[o].count[w] = @ + (-1)]
           P  == h1.obj[o].count[w] >= 0
           h2 == assert(h1, P, "object_dec:123")
           h3 == IF h2.obj[o].collector = NULL THEN StartCollector(h2, o) ELSE h2
           node == h2.obj[o]
           g2 == object_request_delete(h2, o)
           g3 == collector_add_object(h3, h3.obj[o].collector, o)
<1>0. o \in Objects /\ w \in 0..2 /\ w # Phantom /\ -1 \in Int
      /\ h.obj[o].count[w] \in Int
  BY CountsInt DEF Known, Bits, Phantom
<1>1. object_dec(h, o, w) =
        IF node.count[w] # 0 \/ w # node.which THEN h2
        ELSE IF node.count[Flip(w)] = 0 /\ node.count[Phantom] = 0 THEN g2 ELSE g3
  <2>1. h.obj[o].count[w] - 1 = h.obj[o].count[w] + (-1)
    BY <1>0
  <2>2. [h EXCEPT !.obj[o].count[w] = @ - 1] = h1
    BY <2>1
  <2> QED
    BY <2>2 DEF object_dec
<1>2. CountMoved(h, h1, o, w, -1) /\ h1.failed = h.failed
  <2>1. CountSet(h, h1, o, w, -1)
    BY DEF CountSet
  <2> HIDE DEF h1
  <2> QED
    BY <1>0, <2>1, CountStep
<1>3. h1.obj[o].count[w] = h.obj[o].count[w] + (-1)
  BY <1>2 DEF CountMoved
<1>4. h.obj[o].count[w] > 0 => P
  BY <1>0, <1>3
<1> HIDE DEF h1
<1> HIDE DEF P
<1>5. /\ Good(h2) /\ Emptied(h2) /\ SameUsed(h, h2) /\ Step(h, h2, o, w, -1)
      /\ h2.coll = h1.coll
      /\ Requested(h2) = Requested(h)
      /\ HasColl(h, o) => HasColl(h2, o)
      /\ P => h2.failed = h.failed
  <2>1. "object_dec:123" \in Failures
    BY DEF Failures
  <2>2. CountMoved(h, h2, o, w, -1) /\ (P => h2.failed = h1.failed)
    BY <1>0, <1>2, <2>1, StepAssert
  <2>3. CountMoved(h, h1, o, w, -1)
    BY <1>2
  <2> HIDE DEF h2
  <2> QED
    BY <1>0, <1>2, <2>2, <2>3 DEF CountMoved, Keeps, Step
<1> HIDE DEF h2
<1>6. CanCreate(h2) /\ o \in Known(h2)
  BY <1>2, <1>5 DEF CanCreate, SameUsed, CountMoved
<1>7. Lost(h, h2, o, w)
  BY <1>4, <1>5 DEF Lost, Requests
<1>8. ASSUME node.count[w] = 0, w = node.which,
             node.count[Flip(w)] = 0, node.count[Phantom] = 0
      PROVE  Lost(h, g2, o, w)
  <2>1. [run |-> "request_delete", arg |-> o] \in KnownTask(h2)
    BY <1>6 DEF KnownTask
  <2>2. /\ g2.obj = h2.obj /\ g2.failed = h2.failed
        /\ Requested(g2) = Requested(h2) \cup {o}
        /\ Step(h2, g2, o, 0, 0)
    BY <1>5, <2>1, StartTaskLevel DEF object_request_delete
  <2> HIDE DEF g2
  <2>3. Zero(g2, o)
    <3>1. \A i \in 0..2 : i = w \/ i = Flip(w) \/ i = Phantom
      BY DEF Bits, Flip, Phantom
    <3> QED
      BY <1>8, <2>2, <3>1 DEF Zero
  <2>4. Step(h2, g2, o, w, 0)
    BY <2>2 DEF Step
  <2>5. Step(h, g2, o, w, -1 + 0)
    BY <1>0, <1>5, <2>4, StepStep
  <2>6. Step(h, g2, o, w, -1)
    BY <2>5
  <2>7. HasColl(h, o) => HasColl(g2, o)
    BY <1>5, <2>2 DEF HasColl
  <2> QED
    BY <1>4, <1>5, <2>2, <2>3, <2>6, <2>7 DEF Lost, Requests
<1>9. Lost(h, g3, o, w)
  <2>1. /\ Good(h3) /\ Level(h2, h3) /\ SameUsed(h2, h3)
        /\ h3.failed = h2.failed
        /\ h3.obj[o].collector \in Collectors
    <3>1. CASE h2.obj[o].collector = NULL
      BY <1>5, <1>6, <3>1, StartCollectorLevel
    <3>2. CASE h2.obj[o].collector # NULL
      <4>1. Level(h2, h2)
        BY <1>5 DEF Level, SameShape, SameListed
      <4> QED
        BY <1>0, <1>5, <3>2, <4>1, PointedLive DEF SameUsed
    <3> QED
      BY <3>1, <3>2
  <2> HIDE DEF h3
  <2>2. Emptied(h3) /\ o \in Known(h3) /\ h3.coll[h3.obj[o].collector].live
        /\ Requested(h3) \subseteq Requested(h2)
    BY <1>0, <1>6, <2>1, PointedLive, HeapAssumption DEF SameUsed, Level
  <2>3. /\ Step(h3, g3, o, 0, 0)
        /\ g3.obj[o].collector \in Collectors
        /\ Requested(g3) = Requested(h3)
        /\ g3.failed = h3.failed
    BY <2>1, <2>2, AddObjectStep
  <2> HIDE DEF g3
  <2>4. Step(h, h3, o, w, -1)
    BY <1>5, <2>1, StepLevel
  <2>5. Step(h3, g3, o, w, 0)
    BY <2>3 DEF Step
  <2>6. Step(h, g3, o, w, -1 + 0)
    BY <1>0, <2>4, <2>5, StepStep
  <2>7. Step(h, g3, o, w, -1)
    BY <2>6
  <2>8. HasColl(g3, o)
    BY <2>3, HeapAssumption DEF HasColl
  <2> QED
    BY <1>4, <1>5, <2>1, <2>2, <2>3, <2>7, <2>8 DEF Lost, Requests
<1> HIDE DEF g2, g3, node
<1> QED
  BY <1>1, <1>7, <1>8, <1>9

\* object_dec_phantom takes one phantom count; with the last one the node is
\* deleted or leaves its collector (object.c:140-160).
LEMMA DecPhantomLost ==
  ASSUME NEW h, Good(h), Emptied(h), NEW o \in Known(h)
  PROVE  Lost(h, object_dec_phantom(h, o), o, Phantom)
<1> DEFINE h1 == [h EXCEPT !.obj[o].count[Phantom] = @ + (-1)]
           P  == h1.obj[o].count[Phantom] >= 0
           h2 == assert(h1, P, "object_dec_phantom:150")
           node == h2.obj[o]
           g2 == object_request_delete(h2, o)
           g3 == object_set_collector(h2, o, NULL)
<1>0. o \in Objects /\ Phantom \in 0..2 /\ -1 \in Int
      /\ h.obj[o].count[Phantom] \in Int
  BY CountsInt DEF Known
<1>1. object_dec_phantom(h, o) =
        IF node.count[Phantom] # 0 THEN h2
        ELSE IF node.count[0] = 0 /\ node.count[1] = 0 THEN g2 ELSE g3
  <2>1. h.obj[o].count[Phantom] - 1 = h.obj[o].count[Phantom] + (-1)
    BY <1>0
  <2>2. [h EXCEPT !.obj[o].count[Phantom] = @ - 1] = h1
    BY <2>1
  <2> QED
    BY <2>2 DEF object_dec_phantom
<1>2. CountMoved(h, h1, o, Phantom, -1) /\ h1.failed = h.failed
  <2>1. CountSet(h, h1, o, Phantom, -1)
    BY DEF CountSet
  <2> HIDE DEF h1
  <2> QED
    BY <1>0, <2>1, CountStep
<1>3. h1.obj[o].count[Phantom] = h.obj[o].count[Phantom] + (-1)
  BY <1>2 DEF CountMoved
<1>4. h.obj[o].count[Phantom] > 0 => P
  BY <1>0, <1>3
<1> HIDE DEF h1
<1> HIDE DEF P
<1>5. /\ Good(h2) /\ Emptied(h2) /\ SameUsed(h, h2)
      /\ Step(h, h2, o, Phantom, -1)
      /\ Requested(h2) = Requested(h)
      /\ \A p \in Objects : h2.obj[p].collector = h.obj[p].collector
      /\ h2.obj[o].count[Phantom] = h.obj[o].count[Phantom] + (-1)
      /\ P => h2.failed = h.failed
  <2>1. "object_dec_phantom:150" \in Failures
    BY DEF Failures
  <2>2. CountMoved(h, h2, o, Phantom, -1) /\ (P => h2.failed = h1.failed)
    BY <1>0, <1>2, <2>1, StepAssert
  <2> HIDE DEF h2
  <2> QED
    BY <1>2, <2>2 DEF CountMoved, Keeps, Step
<1> HIDE DEF h2
<1>6. o \in Known(h2)
  BY <1>5 DEF SameUsed
<1>7. Lost(h, h2, o, Phantom)
  <2>1. HasColl(h, o) => HasColl(h2, o)
    BY <1>0, <1>5 DEF HasColl
  <2> QED
    BY <1>4, <1>5, <2>1 DEF Lost, Requests
<1>8. ASSUME node.count[Phantom] = 0, node.count[0] = 0, node.count[1] = 0
      PROVE  Lost(h, g2, o, Phantom)
  <2>1. [run |-> "request_delete", arg |-> o] \in KnownTask(h2)
    BY <1>6 DEF KnownTask
  <2>2. /\ g2.obj = h2.obj /\ g2.failed = h2.failed
        /\ Requested(g2) = Requested(h2) \cup {o}
        /\ Step(h2, g2, o, 0, 0)
    BY <1>5, <2>1, StartTaskLevel DEF object_request_delete
  <2> HIDE DEF g2
  <2>3. Zero(g2, o)
    <3>1. \A i \in 0..2 : i = 0 \/ i = 1 \/ i = Phantom
      BY DEF Phantom
    <3> QED
      BY <1>8, <2>2, <3>1 DEF Zero
  <2>4. Step(h2, g2, o, Phantom, 0)
    BY <2>2 DEF Step
  <2>5. Step(h, g2, o, Phantom, -1 + 0)
    BY <1>0, <1>5, <2>4, StepStep
  <2>6. Step(h, g2, o, Phantom, -1)
    BY <2>5
  <2>7. HasColl(g2, o)
    BY <1>8, <2>2 DEF HasColl
  <2> QED
    BY <1>4, <1>5, <2>2, <2>3, <2>6, <2>7 DEF Lost, Requests
<1>9. ASSUME node.count[Phantom] = 0
      PROVE  Lost(h, g3, o, Phantom)
  <2>1. Level(h2, g3) /\ g3.failed = h2.failed
    BY <1>0, <1>5, <1>9, SetCollectorLevel
  <2> HIDE DEF g3
  <2>2. Step(h, g3, o, Phantom, -1)
    BY <1>5, <2>1, StepLevel
  <2>3. HasColl(g3, o) /\ Requested(g3) \subseteq Requested(h2)
    BY <1>0, <1>9, <2>1 DEF Level, HasColl
  <2> QED
    BY <1>4, <1>5, <2>1, <2>2, <2>3 DEF Lost, Requests
<1> HIDE DEF g2, g3, node
<1> QED
  BY <1>1, <1>7, <1>8, <1>9

\* The count that a link stands for.
Kind(h, l) == IF h.link[l].phantomized THEN Phantom ELSE h.link[l].which

\* link_dec takes the count that the link stands for (link.c:55-66).
LEMMA LinkDecLost ==
  ASSUME NEW h, Good(h), Emptied(h), NEW l \in Allocated(h), CanCreate(h)
  PROVE  /\ Lost(h, link_dec(h, l), h.link[l].target, Kind(h, l))
         /\ Kind(h, l) \in 0..2 /\ h.link[l].target \in Known(h)
         /\ h.link[l].target \in Objects /\ h.link[l].which \in Bits
<1>1. /\ h.link[l].target \in Known(h)
      /\ h.link[l].which \in Bits
  <2>1. h.link[l] \in Link
    BY DEF Good, HeapType, Allocated
  <2> QED
    BY <2>1 DEF Good, UsedOK, LinksOK, Link
<1>2. CASE h.link[l].phantomized
  BY <1>1, <1>2, DecPhantomLost DEF link_dec, Kind, Phantom, Known
<1>3. CASE ~h.link[l].phantomized
  BY <1>1, <1>3, ObjectDecLost DEF link_dec, Kind, Bits, Known
<1> QED
  BY <1>2, <1>3

\* L after list m of s has been drained into list n of t.
Moved(L, s, m, t, n) ==
  [c \in Collectors |->
     [k \in ListNames |->
        IF <<c, k>> = <<s, m>> THEN <<>>
        ELSE IF <<c, k>> = <<t, n>> THEN L[t][n] \o L[s][m]
        ELSE L[c][k]]]

\* That is a drain.
LEMMA MovedDrains ==
  ASSUME NEW L \in StoreType, NEW s \in Collectors, NEW m \in ListNames,
         NEW t \in Collectors, NEW n \in ListNames, <<s, m>> # <<t, n>>
  PROVE  /\ Moved(L, s, m, t, n) \in StoreType
         /\ Drained(L, Moved(L, s, m, t, n), s, m, t, n)
<1> DEFINE M == Moved(L, s, m, t, n)
<1>1. /\ \A c \in Collectors, k \in ListNames : L[c][k] \in Seq(Objects)
      /\ <<>> \in Seq(Objects)
  BY EmptySeq DEF StoreType
<1>2. L[t][n] \o L[s][m] \in Seq(Objects)
  BY <1>1, ConcatProperties
<1>3. M \in StoreType
  BY <1>1, <1>2 DEF Moved, StoreType
<1>4. \A c \in Collectors, k \in ListNames :
        M[c][k] = IF <<c, k>> = <<s, m>> THEN <<>>
                  ELSE IF <<c, k>> = <<t, n>> THEN L[t][n] \o L[s][m]
                  ELSE L[c][k]
  BY DEF Moved
<1> HIDE DEF M
<1>5. M[s][m] = <<>>
  BY <1>4
<1>6. M[t][n] = L[t][n] \o L[s][m]
  BY <1>4
<1>7. \A d \in Collectors, k \in ListNames :
        <<d, k>> \notin {<<s, m>>, <<t, n>>} => M[d][k] = L[d][k]
  BY <1>4
<1>8. Drained(L, M, s, m, t, n)
  BY <1>5, <1>6, <1>7 DEF Drained
<1> QED
  BY <1>3, <1>8 DEF M

\* M is L after the five drains of collector_forward_safelists_to.
Poured(L, M, s, t) ==
  /\ \A k \in ListNames : M[s][k] = <<>>
  /\ M[t]["collect"] = L[t]["collect"] \o L[s]["collect"]
  /\ M[t]["rebuild_list"] = L[t]["rebuild_list"] \o L[s]["rebuild_list"]
  /\ M[t]["merged_list"] = L[t]["merged_list"] \o L[s]["merged_list"]
                             \o L[s]["clean_list"] \o L[s]["recovery_list"]
  /\ M[t]["clean_list"] = L[t]["clean_list"]
  /\ M[t]["recovery_list"] = L[t]["recovery_list"]
  /\ \A d \in Collectors \ {s, t} : \A k \in ListNames : M[d][k] = L[d][k]

\* They move all entries (collector.c:139-161).
LEMMA PouredListed ==
  ASSUME NEW L \in StoreType, NEW M, NEW s \in Collectors, NEW t \in Collectors,
         s # t, Poured(L, M, s, t), NEW o
  PROVE  /\ Listed(M, o, Counting) = Listed(L, o, Counting)
         /\ Listed(M, o, {"collect"}) = Listed(L, o, {"collect"})
<1> DEFINE M1 == Moved(L, s, "collect", t, "collect")
           M2 == Moved(M1, s, "rebuild_list", t, "rebuild_list")
           M3 == Moved(M2, s, "merged_list", t, "merged_list")
           M4 == Moved(M3, s, "clean_list", t, "merged_list")
           M5 == Moved(M4, s, "recovery_list", t, "merged_list")
<1>0. /\ "collect" \in ListNames /\ "rebuild_list" \in ListNames
      /\ "merged_list" \in ListNames /\ "clean_list" \in ListNames
      /\ "recovery_list" \in ListNames
  BY DEF ListNames
<1>1. M1 \in StoreType /\ Drained(L, M1, s, "collect", t, "collect")
  BY <1>0, MovedDrains
<1> HIDE DEF M1
<1>2. M2 \in StoreType /\ Drained(M1, M2, s, "rebuild_list", t, "rebuild_list")
  BY <1>0, <1>1, MovedDrains
<1> HIDE DEF M2
<1>3. M3 \in StoreType /\ Drained(M2, M3, s, "merged_list", t, "merged_list")
  BY <1>0, <1>2, MovedDrains
<1> HIDE DEF M3
<1>4. M4 \in StoreType /\ Drained(M3, M4, s, "clean_list", t, "merged_list")
  BY <1>0, <1>3, MovedDrains
<1> HIDE DEF M4
<1>5. M5 \in StoreType /\ Drained(M4, M5, s, "recovery_list", t, "merged_list")
  BY <1>0, <1>4, MovedDrains
<1> HIDE DEF M5
<1>6. ASSUME NEW d \in Collectors, NEW k \in ListNames
      PROVE  M5[d][k] = M[d][k]
  <2>1. CASE d \notin {s, t}
    BY <1>1, <1>2, <1>3, <1>4, <1>5, <2>1 DEF Drained, Poured
  <2>2. CASE d = s
    <3>1. k \in {"collect", "rebuild_list", "merged_list", "clean_list",
                 "recovery_list"}
      BY DEF ListNames
    <3>2. M1[s]["collect"] = <<>> /\ M2[s]["rebuild_list"] = <<>>
          /\ M3[s]["merged_list"] = <<>> /\ M4[s]["clean_list"] = <<>>
          /\ M5[s]["recovery_list"] = <<>>
      BY <1>1, <1>2, <1>3, <1>4, <1>5 DEF Drained
    <3>3. M2[s]["collect"] = M1[s]["collect"]
      BY <1>0, <1>2 DEF Drained
    <3>4. \A j \in {"collect", "rebuild_list"} : M3[s][j] = M2[s][j]
      BY <1>0, <1>3 DEF Drained
    <3>5. \A j \in {"collect", "rebuild_list", "merged_list"} : M4[s][j] = M3[s][j]
      BY <1>0, <1>4 DEF Drained
    <3>6. \A j \in {"collect", "rebuild_list", "merged_list", "clean_list"} :
            M5[s][j] = M4[s][j]
      BY <1>0, <1>5 DEF Drained
    <3>7. M5[s][k] = <<>>
      BY <3>1, <3>2, <3>3, <3>4, <3>5, <3>6
    <3> QED
      BY <2>2, <3>7 DEF Poured
  <2>3. CASE d = t
    <3>1. k \in {"collect", "rebuild_list", "merged_list", "clean_list",
                 "recovery_list"}
      BY DEF ListNames
    <3>2. /\ M1[t]["collect"] = L[t]["collect"] \o L[s]["collect"]
          /\ \A j \in ListNames \ {"collect"} : M1[t][j] = L[t][j] /\ M1[s][j] = L[s][j]
      BY <1>0, <1>1 DEF Drained
    <3>3. /\ M2[t]["rebuild_list"] = M1[t]["rebuild_list"] \o M1[s]["rebuild_list"]
          /\ \A j \in ListNames \ {"rebuild_list"} :
               M2[t][j] = M1[t][j] /\ M2[s][j] = M1[s][j]
      BY <1>0, <1>2 DEF Drained
    <3>4. /\ M3[t]["merged_list"] = M2[t]["merged_list"] \o M2[s]["merged_list"]
          /\ \A j \in ListNames \ {"merged_list"} :
               M3[t][j] = M2[t][j] /\ M3[s][j] = M2[s][j]
      BY <1>0, <1>3 DEF Drained
    <3>5. /\ M4[t]["merged_list"] = M3[t]["merged_list"] \o M3[s]["clean_list"]
          /\ \A j \in ListNames \ {"merged_list"} : M4[t][j] = M3[t][j]
          /\ \A j \in ListNames \ {"clean_list"} : M4[s][j] = M3[s][j]
      BY <1>0, <1>4 DEF Drained
    <3>6. /\ M5[t]["merged_list"] = M4[t]["merged_list"] \o M4[s]["recovery_list"]
          /\ \A j \in ListNames \ {"merged_list"} : M5[t][j] = M4[t][j]
      BY <1>0, <1>5 DEF Drained
    <3>7. CASE k = "collect"
      <4>1. M3[t]["collect"] = L[t]["collect"] \o L[s]["collect"]
        BY <1>0, <3>2, <3>3, <3>4
      <4>2. M5[t]["collect"] = M3[t]["collect"]
        BY <1>0, <3>5, <3>6
      <4> QED
        BY <2>3, <3>7, <4>1, <4>2 DEF Poured
    <3>8. CASE k = "rebuild_list"
      BY <1>0, <2>3, <3>2, <3>3, <3>4, <3>5, <3>6, <3>8 DEF Poured
    <3>9. CASE k \in {"clean_list", "recovery_list"}
      <4>1. M3[t][k] = L[t][k]
        BY <1>0, <3>2, <3>3, <3>4, <3>9
      <4>2. M5[t][k] = M3[t][k]
        BY <1>0, <3>5, <3>6, <3>9
      <4> QED
        BY <2>3, <3>9, <4>1, <4>2 DEF Poured
    <3>10. CASE k = "merged_list"
      <4>1. M2[t]["merged_list"] = L[t]["merged_list"]
            /\ M2[s]["merged_list"] = L[s]["merged_list"]
        BY <1>0, <3>2, <3>3
      <4>2. M3[s]["clean_list"] = L[s]["clean_list"]
        BY <1>0, <3>2, <3>3, <3>4
      <4>3. M4[s]["recovery_list"] = L[s]["recovery_list"]
        BY <1>0, <3>2, <3>3, <3>4, <3>5
      <4>4. M3[t]["merged_list"] = L[t]["merged_list"] \o L[s]["merged_list"]
        BY <3>4, <4>1
      <4>5. M4[t]["merged_list"]
              = (L[t]["merged_list"] \o L[s]["merged_list"]) \o L[s]["clean_list"]
        BY <3>5, <4>2, <4>4
      <4>6. M5[t]["merged_list"]
              = ((L[t]["merged_list"] \o L[s]["merged_list"]) \o L[s]["clean_list"])
                  \o L[s]["recovery_list"]
        BY <3>6, <4>3, <4>5
      <4> HIDE DEF M1, M2, M3, M4, M5
      <4> QED
        BY <2>3, <3>10, <4>6 DEF Poured
    <3> QED
      BY <3>1, <3>7, <3>8, <3>9, <3>10
  <2> QED
    BY <2>1, <2>2, <2>3
<1>7. ASSUME NEW names \in {Counting, {"collect"}}
      PROVE  Listed(M, o, names) = Listed(L, o, names)
  <2>1. /\ names \in SUBSET ListNames /\ "rebuild_list" \notin names
        /\ "merged_list" \in names <=> "clean_list" \in names
        /\ "merged_list" \in names <=> "recovery_list" \in names
    BY DEF Counting, ListNames
  <2>2. Listed(M1, o, names) = Listed(L, o, names)
    BY <1>0, <1>1, <2>1, ListDrain
  <2>3. Listed(M2, o, names) = Listed(M1, o, names)
    BY <1>0, <1>1, <1>2, <2>1, ListDrain
  <2>4. Listed(M3, o, names) = Listed(M2, o, names)
    BY <1>0, <1>2, <1>3, <2>1, ListDrain
  <2>5. Listed(M4, o, names) = Listed(M3, o, names)
    BY <1>0, <1>3, <1>4, <2>1, ListDrain
  <2>6. Listed(M5, o, names) = Listed(M4, o, names)
    BY <1>0, <1>4, <1>5, <2>1, ListDrain
  <2>7. EntrySet(M5, o, names) = EntrySet(M, o, names)
    BY <1>6, <2>1, NamesSame
  <2> QED
    BY <2>2, <2>3, <2>4, <2>5, <2>6, <2>7 DEF Listed
<1> QED
  BY <1>7

\* Moving entries within lists of live collectors is level.
LEMMA MovesLevel ==
  ASSUME NEW h, NEW g, Emptied(h), g.obj = h.obj, g.link = h.link,
         g.work = h.work, SameListed(h, g),
         \A d \in Collectors : ~g.coll[d].live =>
           ~h.coll[d].live /\ g.coll[d].lists = h.coll[d].lists
  PROVE  Level(h, g)
<1>1. Emptied(g)
  BY DEF Emptied, store_count_zero
<1> QED
  BY <1>1, RequestedFrame DEF Level, SameShape, HasColl

\* collector_merge leaves each object listed as often as before, by the
\* collector that stays (collector.c:139-161).
LEMMA MergeLevel ==
  ASSUME NEW h, Good(h), Emptied(h), NEW t \in Collectors, NEW s \in Collectors,
         t # s, h.coll[t].live, h.coll[s].live,
         h.coll[t].forward = NULL, h.coll[s].forward = NULL
  PROVE  LET g == collector_merge(h, t, s)
         IN  Level(h, g) /\ g.failed = h.failed /\ g.obj = h.obj
<1> DEFINE from == h.coll[s].lists
           into == h.coll[t].lists
           e  == [l \in ListNames |-> <<>>]
           ls == [into EXCEPT
                    !["collect"]      = @ \o from["collect"],
                    !["merged_list"]  = @ \o from["merged_list"]
                                          \o from["clean_list"]
                                          \o from["recovery_list"],
                    !["rebuild_list"] = @ \o from["rebuild_list"]]
           h1 == [h EXCEPT !.coll[s].lists = e]
           h2 == [h1 EXCEPT !.coll[t].lists = ls]
           h3 == collector_set_forward(h2, s, t)
<1>1. collector_merge(h, t, s) = h3
  BY DEF collector_merge
<1>2. e \in [ListNames -> Seq(Known(h))] /\ \A l \in ListNames : e[l] = <<>>
  BY EmptySeq
<1> HIDE DEF e
<1>3. /\ Keeps(h, h1) /\ h1.obj = h.obj /\ h1.link = h.link
      /\ h1.work = h.work /\ h1.failed = h.failed
      /\ h1.coll[s].lists = e
      /\ \A d \in Collectors \ {s} : h1.coll[d] = h.coll[d]
      /\ \A d \in Collectors : h1.coll[d].forward = h.coll[d].forward
  <2>1. ListsSet(h, h1, s, e)
    BY DEF ListsSet
  <2> HIDE DEF h1
  <2>2. ListsMoved(h, h1, s, e)
    BY <1>2, <2>1, ListsChange
  <2> QED
    BY <2>2 DEF ListsMoved
<1> HIDE DEF h1
<1>4. /\ from \in [ListNames -> Seq(Known(h1))]
      /\ into \in [ListNames -> Seq(Known(h1))]
  BY <1>3 DEF Good, UsedOK, ListsOK, Keeps, SameUsed
<1> HIDE DEF from, into
<1>5. /\ ls \in [ListNames -> Seq(Known(h1))]
      /\ ls["collect"] = into["collect"] \o from["collect"]
      /\ ls["rebuild_list"] = into["rebuild_list"] \o from["rebuild_list"]
      /\ ls["merged_list"] = into["merged_list"] \o from["merged_list"]
                               \o from["clean_list"] \o from["recovery_list"]
      /\ ls["clean_list"] = into["clean_list"]
      /\ ls["recovery_list"] = into["recovery_list"]
  <2>1. \A l \in ListNames : from[l] \in Seq(Known(h1)) /\ into[l] \in Seq(Known(h1))
    BY <1>4
  <2> DEFINE K == Known(h1)
  <2> HIDE DEF K
  <2>2. \A l \in ListNames : from[l] \in Seq(K) /\ into[l] \in Seq(K)
    BY <2>1 DEF K
  <2>3. /\ into["collect"] \o from["collect"] \in Seq(K)
        /\ into["rebuild_list"] \o from["rebuild_list"] \in Seq(K)
        /\ into["merged_list"] \o from["merged_list"] \o from["clean_list"]
             \o from["recovery_list"] \in Seq(K)
    BY <2>2, ConcatProperties DEF ListNames
  <2>4. ls \in [ListNames -> Seq(K)]
    BY <1>4, <2>3 DEF K
  <2>5. ls \in [ListNames -> Seq(Known(h1))]
    BY <2>4 DEF K
  <2> QED
    BY <1>4, <2>5 DEF ListNames
<1> HIDE DEF ls
<1>6. /\ Keeps(h1, h2) /\ h2.obj = h1.obj /\ h2.link = h1.link
      /\ h2.work = h1.work /\ h2.failed = h1.failed
      /\ h2.coll[t].lists = ls
      /\ \A d \in Collectors \ {t} : h2.coll[d] = h1.coll[d]
      /\ \A d \in Collectors : h2.coll[d].forward = h1.coll[d].forward
  <2>1. ListsSet(h1, h2, t, ls) /\ Good(h1)
    BY <1>3 DEF ListsSet, Keeps
  <2> HIDE DEF h2
  <2>2. ListsMoved(h1, h2, t, ls)
    BY <1>5, <2>1, ListsChange
  <2> QED
    BY <2>2 DEF ListsMoved
<1> HIDE DEF h2
<1>7. Poured(Store(h), Store(h2), s, t)
  <2>1. /\ Good(h2)
        /\ \A c \in Collectors : Store(h)[c] = h.coll[c].lists
        /\ \A c \in Collectors : Store(h2)[c] = h2.coll[c].lists
    BY <1>6, StoreHas DEF Keeps
  <2>2. /\ Store(h)[s] = from /\ Store(h)[t] = into
        /\ Store(h2)[s] = e /\ Store(h2)[t] = ls
        /\ \A d \in Collectors \ {s, t} : Store(h2)[d] = Store(h)[d]
    BY <1>3, <1>6, <2>1 DEF from, into
  <2> QED
    BY <1>2, <1>5, <2>2 DEF Poured
<1>8. Level(h, h2)
  <2>1. Store(h) \in StoreType
    BY StoreHas
  <2>2. SameListed(h, h2)
    BY <1>7, <2>1, PouredListed DEF SameListed
  <2>3. \A d \in Collectors : ~h2.coll[d].live =>
           ~h.coll[d].live /\ h2.coll[d].lists = h.coll[d].lists
    <3>1. h2.coll[s].live /\ h2.coll[t].live
      BY <1>3, <1>6 DEF Keeps
    <3> QED
      BY <1>3, <1>6, <3>1
  <2> QED
    BY <1>3, <1>6, <2>2, <2>3, MovesLevel
<1>9. Level(h2, h3) /\ h3.obj = h2.obj /\ h3.failed = h2.failed
  <2>1. Good(h2) /\ store_count_zero(h2, s)
    BY <1>2, <1>3, <1>6 DEF Keeps, store_count_zero
  <2>2. /\ h3.obj = h2.obj /\ h3.work = h2.work
        /\ \A d \in Collectors : /\ h3.coll[d].live = h2.coll[d].live
                                 /\ h3.coll[d].lists = h2.coll[d].lists
    BY <2>1, MildSetForward
  <2>3. h3.link = h2.link /\ h3.failed = h2.failed
    BY DEF collector_set_forward, counter_ref
  <2> HIDE DEF h3
  <2>4. SameListed(h2, h3)
    BY <2>2, ListedFrame
  <2> QED
    BY <1>8, <2>2, <2>3, <2>4, MovesLevel DEF Level
<1> HIDE DEF h3
<1>10. Level(h, h3)
  BY <1>8, <1>9, LevelTrans
<1> QED
  BY <1>1, <1>3, <1>6, <1>9, <1>10

-----------------------------------------------------------------------------
(* The functions of collector.c, object.c and link.c *)

\* After g, o and t have the same collector, if one of them had any, and no
\* count has moved.
Joined(h, g, o, t) ==
  /\ Level(h, g) /\ Keeps(h, g) /\ g.failed = h.failed
  /\ g.obj[o].collector = g.obj[t].collector
  /\ h.obj[o].collector # NULL \/ h.obj[t].collector # NULL =>
       g.obj[o].collector # NULL

\* object_merge_collectors (object.c:343-406).
LEMMA MergeCollectorsJoined ==
  ASSUME NEW h, Good(h), Emptied(h), NEW o \in Known(h), NEW target \in Known(h)
  PROVE  Joined(h, object_merge_collectors(h, o, target), o, target)
<1> DEFINE s == h.obj[o].collector
           t == h.obj[target].collector
           S == collector_update(h, s)
           T == collector_update(h, t)
           h1 == IF S = T THEN h ELSE collector_merge(h, T, S)
           g1 == object_set_collector(h, target, s)
           g2 == object_set_collector(h, o, t)
           g3 == object_set_collector(h1, target, T)
           g4 == object_set_collector(g3, o, T)
<1>1. /\ s # NULL => s \in Collectors /\ h.coll[s].live
      /\ t # NULL => t \in Collectors /\ h.coll[t].live
      /\ o \in Objects /\ target \in Objects /\ NULL \notin Collectors
  BY PointedLive, HeapAssumption DEF Known
<1>0. Level(h, h) /\ Keeps(h, h)
  BY KeepsSelf DEF Level, SameShape, SameListed, SameBut
<1>2. CASE s = t
  <2>1. object_merge_collectors(h, o, target) = h
    BY <1>2 DEF object_merge_collectors
  <2> QED
    BY <1>0, <1>2, <2>1 DEF Joined
<1>3. CASE s # t /\ t = NULL
  <2>1. object_merge_collectors(h, o, target) = g1
    BY <1>3 DEF object_merge_collectors
  <2>2. /\ Level(h, g1) /\ Keeps(h, g1) /\ g1.failed = h.failed
        /\ g1.obj[target].collector = s
        /\ \A p \in Objects \ {target} : g1.obj[p].collector = h.obj[p].collector
    BY <1>1, <1>3, SetCollectorLevel
  <2>3. o # target
    BY <1>3
  <2> HIDE DEF g1
  <2> QED
    BY <1>1, <1>3, <2>1, <2>2, <2>3 DEF Joined
<1>4. CASE s # t /\ t # NULL /\ s = NULL
  <2>1. object_merge_collectors(h, o, target) = g2
    BY <1>4 DEF object_merge_collectors
  <2>2. /\ Level(h, g2) /\ Keeps(h, g2) /\ g2.failed = h.failed
        /\ g2.obj[o].collector = t
        /\ \A p \in Objects \ {o} : g2.obj[p].collector = h.obj[p].collector
    BY <1>1, <1>4, SetCollectorLevel
  <2>3. o # target
    BY <1>4
  <2> HIDE DEF g2
  <2> QED
    BY <1>1, <1>4, <2>1, <2>2, <2>3 DEF Joined
<1>5. CASE s # t /\ t # NULL /\ s # NULL
  <2>1. object_merge_collectors(h, o, target) = g4
    BY <1>5 DEF object_merge_collectors
  <2>2. /\ S \in Collectors /\ h.coll[S].live /\ h.coll[S].forward = NULL
        /\ T \in Collectors /\ h.coll[T].live /\ h.coll[T].forward = NULL
    BY <1>1, <1>5, UpdateCollector
  <2>3. o # target
    BY <1>5
  <2> HIDE DEF S, T
  <2>4. Keeps(h, h1) /\ Level(h, h1) /\ h1.failed = h.failed
    <3>1. CASE S = T
      BY <1>0, <3>1
    <3>2. CASE S # T
      <4>1. Keeps(h, collector_merge(h, T, S))
        BY <2>2, <3>2, MergeGood
      <4>2. /\ Level(h, collector_merge(h, T, S))
            /\ collector_merge(h, T, S).failed = h.failed
        BY <2>2, <3>2, MergeLevel
      <4> QED
        BY <3>2, <4>1, <4>2
    <3> QED
      BY <3>1, <3>2
  <2> HIDE DEF h1
  <2>5. Good(h1) /\ Emptied(h1) /\ h1.coll[T].live /\ target \in Known(h1)
    BY <2>2, <2>4 DEF Keeps, SameUsed, Level
  <2>6. /\ Level(h1, g3) /\ Keeps(h1, g3) /\ g3.failed = h1.failed
        /\ g3.obj[target].collector = T
    BY <1>1, <2>2, <2>5, SetCollectorLevel
  <2> HIDE DEF g3
  <2>7. Good(g3) /\ Emptied(g3) /\ g3.coll[T].live /\ o \in Known(g3)
    BY <2>2, <2>4, <2>6 DEF Keeps, SameUsed, Level
  <2>8. /\ Level(g3, g4) /\ Keeps(g3, g4) /\ g4.failed = g3.failed
        /\ g4.obj[o].collector = T
        /\ \A p \in Objects \ {o} : g4.obj[p].collector = g3.obj[p].collector
    BY <1>1, <2>2, <2>7, SetCollectorLevel
  <2> HIDE DEF g4
  <2>9. Level(h, g4) /\ Keeps(h, g4)
    BY <2>4, <2>6, <2>8, LevelTrans, KeepsTrans
  <2>10. g4.obj[o].collector # NULL /\ g4.obj[target].collector = T
    BY <1>1, <2>2, <2>3, <2>6, <2>8
  <2>11. g4.failed = h.failed
    BY <2>4, <2>6, <2>8
  <2> QED
    BY <2>1, <2>8, <2>9, <2>10, <2>11 DEF Joined
<1> QED
  BY <1>2, <1>3, <1>4, <1>5

\* A node that follows its collector keeps its counts (object.c:275-277).
LEMMA FollowLevel ==
  ASSUME NEW h, Good(h), Emptied(h), NEW o \in Objects
  PROVE  LET g == FollowCollector(h, o)
         IN  /\ Level(h, g) /\ Keeps(h, g) /\ g.failed = h.failed
             /\ h.obj[o].collector # NULL => g.obj[o].collector # NULL
<1> DEFINE c == h.obj[o].collector
           d == collector_update(h, c)
           g == object_set_collector(h, o, d)
<1>1. CASE c = NULL
  <2>1. FollowCollector(h, o) = h
    BY <1>1 DEF FollowCollector
  <2>2. Level(h, h) /\ Keeps(h, h)
    BY KeepsSelf DEF Level, SameShape, SameListed, SameBut
  <2> QED
    BY <2>1, <2>2
<1>2. CASE c # NULL
  <2>1. FollowCollector(h, o) = g
    BY <1>2 DEF FollowCollector
  <2>2. c \in Collectors /\ h.coll[c].live /\ o \in Known(h)
    BY <1>2, PointedLive
  <2> HIDE DEF c
  <2>3. d \in Collectors /\ h.coll[d].live /\ d # NULL
    BY <2>2, UpdateCollector, HeapAssumption
  <2> HIDE DEF d
  <2>4. /\ Level(h, g) /\ Keeps(h, g) /\ g.failed = h.failed
        /\ g.obj[o].collector = d
    BY <2>2, <2>3, SetCollectorLevel
  <2> QED
    BY <2>1, <2>3, <2>4
<1> QED
  BY <1>1, <1>2

\* A collector is freed when its lists are empty (collector.c:26-40,
\* 126-132).
LEMMA DestroyLevel ==
  ASSUME NEW h, Good(h), Emptied(h), NEW c \in Collectors, counter_done(h, c)
  PROVE  LET g == collector_destroy(h, c)
         IN  Level(h, g) /\ g.failed = h.failed
<1> DEFINE h1 == collector_set_forward(h, c, NULL)
           h2 == [h1 EXCEPT !.coll[c] = NoCollector]
<1>1. collector_destroy(h, c) = h2
  BY DEF collector_destroy
<1>2. /\ h1.obj = h.obj /\ h1.work = h.work
      /\ \A d \in Collectors : /\ h1.coll[d].live = h.coll[d].live
                               /\ h1.coll[d].lists = h.coll[d].lists
  BY MildSetForward
<1>3. h1.link = h.link /\ h1.failed = h.failed /\ Good(h1)
  <2>1. h1.link = h.link /\ h1.failed = h.failed
    BY DEF collector_set_forward, counter_ref
  <2> HIDE DEF h1
  <2>2. Good(collector_set_forward(h, c, NULL))
    BY SetForward
  <2> QED
    BY <2>1, <2>2 DEF h1
<1> HIDE DEF h1
<1>4. /\ h2.obj = h1.obj /\ h2.work = h1.work /\ h2.link = h1.link
      /\ h2.failed = h1.failed /\ h2.coll[c] = NoCollector
      /\ \A d \in Collectors \ {c} : h2.coll[d] = h1.coll[d]
  BY <1>3 DEF Good, HeapType
<1> HIDE DEF h2
<1>5. \A l \in ListNames : h.coll[c].lists[l] = <<>>
  BY DEF counter_done, store_count_zero
<1>6. h2.coll[c].lists = h.coll[c].lists
  <2>1. h.coll[c].lists \in [ListNames -> Seq(Objects)]
    BY DEF Good, HeapType, Collector
  <2>2. h2.coll[c].lists = [l \in ListNames |-> <<>>]
    BY <1>4 DEF NoCollector
  <2> QED
    BY <1>5, <2>1, <2>2
<1>7. \A d \in Collectors : h2.coll[d].lists = h.coll[d].lists
  BY <1>2, <1>4, <1>6
<1>8. Emptied(h2)
  <2> SUFFICES ASSUME NEW d \in Collectors, ~h2.coll[d].live
               PROVE  store_count_zero(h2, d)
    BY DEF Emptied
  <2>1. CASE d = c
    BY <1>5, <1>7, <2>1 DEF store_count_zero
  <2>2. CASE d # c
    <3>1. ~h.coll[d].live
      BY <1>2, <1>4, <2>2
    <3> QED
      BY <1>7, <3>1 DEF Emptied, store_count_zero
  <2> QED
    BY <2>1, <2>2
<1>9. SameListed(h, h2)
  BY <1>7, ListedFrame
<1>10. h2.obj = h.obj /\ h2.link = h.link /\ h2.work = h.work /\ h2.failed = h.failed
  BY <1>2, <1>3, <1>4
<1> QED
  BY <1>1, <1>8, <1>9, <1>10, RequestedFrame DEF Level, SameShape, HasColl

\* The first loop of collector_run moves entries (collector.c:90-97).
LEMMA DrainMergedLevel ==
  ASSUME NEW h, Good(h), Emptied(h), NEW c \in Collectors, h.coll[c].live,
         NEW g, ListsSet(h, g, c,
           [h.coll[c].lists EXCEPT
              !["recovery_list"] = @ \o h.coll[c].lists["merged_list"],
              !["merged_list"] = <<>>])
  PROVE  Level(h, g) /\ Keeps(h, g) /\ g.failed = h.failed /\ g.obj = h.obj
<1> DEFINE a  == h.coll[c].lists
           ls == [a EXCEPT !["recovery_list"] = @ \o a["merged_list"],
                           !["merged_list"] = <<>>]
           K  == Known(h)
<1>1. a \in [ListNames -> Seq(K)]
  BY DEF Good, UsedOK, ListsOK
<1>2. ListsSet(h, g, c, ls)
  OBVIOUS
<1> HIDE DEF a, K
<1>3. /\ ls \in [ListNames -> Seq(K)]
      /\ ls["recovery_list"] = a["recovery_list"] \o a["merged_list"]
      /\ ls["merged_list"] = <<>>
      /\ \A k \in ListNames \ {"recovery_list", "merged_list"} : ls[k] = a[k]
  <2>1. a["recovery_list"] \o a["merged_list"] \in Seq(K) /\ <<>> \in Seq(K)
    BY <1>1, ConcatProperties, EmptySeq DEF ListNames
  <2>2. "recovery_list" \in ListNames /\ "merged_list" \in ListNames
    BY DEF ListNames
  <2> QED
    BY <1>1, <2>1, <2>2
<1> HIDE DEF ls
<1>4. ListsMoved(h, g, c, ls)
  BY <1>2, <1>3, ListsChange DEF K
<1>5. /\ Store(h) \in StoreType /\ Store(h)[c] = a
      /\ Store(g)[c] = ls
      /\ \A d \in Collectors \ {c} : Store(g)[d] = Store(h)[d]
  BY <1>4, StoreHas DEF ListsMoved, Keeps, a
<1>6. Drained(Store(h), Store(g), c, "merged_list", c, "recovery_list")
  BY <1>3, <1>5 DEF Drained
<1>7. SameListed(h, g)
  <2> SUFFICES ASSUME NEW p \in Objects, NEW names \in {Counting, {"collect"}}
               PROVE  Listed(Store(g), p, names) = Listed(Store(h), p, names)
    BY DEF SameListed
  <2>1. /\ names \in SUBSET ListNames
        /\ "merged_list" \in names <=> "recovery_list" \in names
        /\ "merged_list" \in ListNames /\ "recovery_list" \in ListNames
    BY DEF Counting, ListNames
  <2> QED
    BY <1>5, <1>6, <2>1, ListDrain
<1>8. \A d \in Collectors : ~g.coll[d].live =>
           ~h.coll[d].live /\ g.coll[d].lists = h.coll[d].lists
  BY <1>4 DEF ListsMoved, Keeps
<1>9. Level(h, g)
  BY <1>4, <1>7, <1>8, MovesLevel DEF ListsMoved
<1> QED
  BY <1>4, <1>9 DEF ListsMoved

\* d counts of x go from count w to the phantom one, and nothing else
\* happens to counts.
Shift(h, g, x, w, d) ==
  \A p \in Objects, i \in 0..2 :
    Unlisted(g, p, i) = Unlisted(h, p, i)
      + (IF p = x /\ i = Phantom THEN d ELSE 0)
      - (IF p = x /\ i = w THEN d ELSE 0)

\* No table changes, and no counts but those of x.
Touches(h, g, x) ==
  /\ \A p \in Objects : /\ g.obj[p].links = h.obj[p].links
                        /\ g.obj[p].which = h.obj[p].which
                        /\ g.obj[p].state = h.obj[p].state
  /\ \A p \in Objects \ {x} : g.obj[p].count = h.obj[p].count
  /\ Requests(h, g, x)
  /\ Emptied(g)

\* Every object with phantom counts has a collector.
AllHaveColl(h) == \A p \in Objects : HasColl(h, p)

\* r replaces link l, and the rest of the heap stays.
LinkSet(h, g, l, r) == g = [h EXCEPT !.link[l] = r]

\* That moves no counts.
LEMMA LinkSetSame ==
  ASSUME NEW h, Good(h), NEW l \in Links, NEW r, NEW g, LinkSet(h, g, l, r)
  PROVE  /\ g.obj = h.obj /\ g.coll = h.coll /\ g.work = h.work
         /\ g.failed = h.failed
         /\ g.link = [h.link EXCEPT ![l] = r]
         /\ \A p, i : Unlisted(g, p, i) = Unlisted(h, p, i)
         /\ \A p : HasColl(g, p) <=> HasColl(h, p)
         /\ Requested(g) = Requested(h)
         /\ Emptied(g) <=> Emptied(h)
<1>1. /\ g.obj = h.obj /\ g.coll = h.coll /\ g.work = h.work
      /\ g.failed = h.failed
      /\ g.link = [h.link EXCEPT ![l] = r]
  BY DEF LinkSet, Good, HeapType
<1>2. Store(g) = Store(h)
  BY <1>1 DEF Store
<1> QED
  BY <1>1, <1>2 DEF Unlisted, HasColl, Requested, Emptied, store_count_zero

\* When the call starts, l has a count to give and its source is phantomized
\* in the hands of a collector.
CanPhantomize(h, l) ==
  /\ h.obj[h.link[l].target].count[h.link[l].which] > 0
  /\ Unlisted(h, h.link[l].target, Phantom) >= 0
  /\ h.obj[h.link[l].src].count[Phantom] > 0
  /\ AllHaveColl(h)

\* The link becomes a phantom one and the target's count with it.
Phantomed(h, g, l) ==
  /\ g.link = [h.link EXCEPT ![l] = [@ EXCEPT !.phantomized = TRUE]]
  /\ Shift(h, g, h.link[l].target, h.link[l].which, 1)
  /\ Touches(h, g, h.link[l].target)
  /\ CanPhantomize(h, l) => AllHaveColl(g) /\ g.failed = h.failed

\* Where link_phantomize merges collectors, one of the two nodes has one,
\* and both have the same one afterwards (link.c:36-53).
LEMMA LinkPhantomizeMoves ==
  ASSUME NEW h, Good(h), Emptied(h), NEW l \in Allocated(h), CanCreate(h),
         ~h.link[l].phantomized
  PROVE  Phantomed(h, link_phantomize(h, l), l)
<1> DEFINE o  == h.link[l].src
           t  == h.link[l].target
           b  == h.link[l].which
           h0 == [h EXCEPT !.obj[t].count[Phantom] = @ + 1]
           h1 == link_dec(h0, l)
           P  == h1.obj[t].collector # NULL \/ h1.obj[o].collector # NULL
           h2 == assert(h1, P, "link_phantomize:45")
           h3 == object_merge_collectors(h2, o, t)
           h4 == [h3 EXCEPT !.link[l].phantomized = TRUE]
           Q  == h4.obj[t].collector = h4.obj[o].collector
           h5 == assert(h4, Q, "link_phantomize:48")
<1>1. /\ o \in Known(h) /\ t \in Known(h)
      /\ o \in Objects /\ t \in Objects
      /\ l \in Links /\ Phantom \in 0..2
  BY DEF Good, UsedOK, LinksOK, Known, Allocated, Phantom
<1>2. link_phantomize(h, l) = h5
  BY DEF link_phantomize
<1>3. Kind(h, l) = b
  BY DEF Kind
<1> HIDE DEF o, t, b
<1>4. CountMoved(h, h0, t, Phantom, 1) /\ h0.failed = h.failed
  <2>1. CountSet(h, h0, t, Phantom, 1)
    BY DEF CountSet
  <2> HIDE DEF h0
  <2> QED
    BY <1>1, <2>1, CountStep
<1> HIDE DEF h0
<1>5. /\ Good(h0) /\ Emptied(h0) /\ l \in Allocated(h0) /\ CanCreate(h0)
      /\ h0.link = h.link /\ o \in Known(h0) /\ t \in Known(h0)
  BY <1>1, <1>4 DEF CountMoved, Keeps, CanCreate, SameUsed, Step, SameShape
<1>6. /\ Lost(h0, h1, t, b) /\ b \in 0..2 /\ b # Phantom
  <2>1. Kind(h0, l) = b /\ h0.link[l].target = t
    BY <1>3, <1>5 DEF Kind, t
  <2>2. Lost(h0, h1, t, b) /\ b \in 0..2 /\ h0.link[l].which \in Bits
    BY <1>5, <2>1, LinkDecLost
  <2> QED
    BY <1>5, <2>2 DEF b, Bits, Phantom
<1>7. /\ Good(h1) /\ Emptied(h1) /\ o \in Known(h1) /\ t \in Known(h1)
      /\ h1.link = h.link
  <2>1. Good(h1) /\ SameUsed(h0, h1)
    BY <1>5, LinkDecGood
  <2> QED
    BY <1>5, <1>6, <2>1 DEF Lost, Step, SameUsed, SameShape
<1> HIDE DEF h1, P
<1>8. /\ Level(h1, h2) /\ Good(h2) /\ Emptied(h2)
      /\ o \in Known(h2) /\ t \in Known(h2)
      /\ P => h2 = h1
  <2>1. Level(h1, h2) /\ SameBut(h1, h2)
    BY <1>7, AssertLevel, AssertSame DEF Failures
  <2>2. P => h2 = h1
    BY AssertHolds
  <2> QED
    BY <1>7, <2>1, <2>2 DEF SameBut, Keeps, SameUsed, Level
<1> HIDE DEF h2
<1>9. Joined(h2, h3, o, t)
  BY <1>8, MergeCollectorsJoined
<1> HIDE DEF h3
<1>10. Good(h3) /\ Emptied(h3) /\ h3.link = h.link
  BY <1>7, <1>8, <1>9 DEF Joined, Keeps, Level, SameShape
<1>11. /\ h4.obj = h3.obj /\ h4.coll = h3.coll /\ h4.failed = h3.failed
       /\ h4.link = [h.link EXCEPT ![l] = [@ EXCEPT !.phantomized = TRUE]]
       /\ \A p, i : Unlisted(h4, p, i) = Unlisted(h3, p, i)
       /\ \A p : HasColl(h4, p) <=> HasColl(h3, p)
       /\ Requested(h4) = Requested(h3)
       /\ Emptied(h4) /\ Good(h4)
  <2> DEFINE r == [h3.link[l] EXCEPT !.phantomized = TRUE]
  <2>1. LinkSet(h3, h4, l, r)
    BY DEF LinkSet
  <2>2. h3.link[l] \in Link /\ h3.link[l].state # "none"
    BY <1>1, <1>7, <1>10 DEF Good, HeapType, Allocated
  <2>3. /\ r \in Link /\ r.state # "none"
        /\ r.src = h3.link[l].src /\ r.target = h3.link[l].target
    BY <2>2 DEF Link
  <2>4. l \in Allocated(h3)
    BY <1>1, <2>2 DEF Allocated
  <2>5. r = [h.link[l] EXCEPT !.phantomized = TRUE]
    BY <1>10
  <2>6. Good(h4)
    <3>1. Good([h3 EXCEPT !.link[l] = r])
      <4> HIDE DEF r
      <4> QED
        BY <1>10, <2>3, <2>4, LinkFields DEF Keeps
    <3> QED
      BY <2>1, <3>1 DEF LinkSet
  <2> HIDE DEF r, h4
  <2>7. /\ h4.obj = h3.obj /\ h4.coll = h3.coll /\ h4.failed = h3.failed
        /\ h4.link = [h3.link EXCEPT ![l] = r]
        /\ \A p, i : Unlisted(h4, p, i) = Unlisted(h3, p, i)
        /\ \A p : HasColl(h4, p) <=> HasColl(h3, p)
        /\ Requested(h4) = Requested(h3)
        /\ Emptied(h4) <=> Emptied(h3)
    BY <1>1, <1>10, <2>1, LinkSetSame
  <2> QED
    BY <1>10, <2>5, <2>6, <2>7
<1> HIDE DEF h4, Q
<1>12. /\ Level(h4, h5) /\ (Q => h5 = h4)
  BY <1>11, AssertLevel, AssertHolds DEF Failures
<1> HIDE DEF h5
<1>13. h5.link = [h.link EXCEPT ![l] = [@ EXCEPT !.phantomized = TRUE]]
  BY <1>11, <1>12 DEF Level, SameShape
<1>14. Shift(h, h5, t, b, 1)
  <2> SUFFICES ASSUME NEW p \in Objects, NEW i \in 0..2
               PROVE  Unlisted(h5, p, i) = Unlisted(h, p, i)
                        + (IF p = t /\ i = Phantom THEN 1 ELSE 0)
                        - (IF p = t /\ i = b THEN 1 ELSE 0)
    BY DEF Shift
  <2>1. Unlisted(h5, p, i) = Unlisted(h1, p, i)
    BY <1>8, <1>9, <1>11, <1>12, LevelUnlisted DEF Joined
  <2>2. Unlisted(h1, p, i) = Unlisted(h0, p, i) + (IF p = t /\ i = b THEN -1 ELSE 0)
    BY <1>6 DEF Lost, Step
  <2>3. Unlisted(h0, p, i) = Unlisted(h, p, i)
                              + (IF p = t /\ i = Phantom THEN 1 ELSE 0)
    BY <1>4 DEF CountMoved, Step
  <2>4. Unlisted(h, p, i) \in Int
    BY UnlistedInt
  <2> QED
    BY <2>1, <2>2, <2>3, <2>4
<1>15. Touches(h, h5, t)
  <2>1. \A p \in Objects : /\ h5.obj[p].links = h.obj[p].links
                           /\ h5.obj[p].which = h.obj[p].which
                           /\ h5.obj[p].state = h.obj[p].state
    BY <1>4, <1>6, <1>8, <1>9, <1>11, <1>12
       DEF CountMoved, Step, Lost, Level, SameShape, Joined
  <2>2. \A p \in Objects : h5.obj[p].count = h1.obj[p].count
    BY <1>8, <1>9, <1>11, <1>12 DEF Level, Joined
  <2>3. \A p \in Objects \ {t} : h1.obj[p].count = h.obj[p].count
    BY <1>4, <1>6 DEF CountMoved, Step, Lost
  <2>4. Requests(h, h5, t)
    <3>1. Requested(h5) \subseteq Requested(h1)
      BY <1>8, <1>9, <1>11, <1>12 DEF Level, Joined
    <3>2. \A p \in Requested(h1) : p \in Requested(h0) \/ (p = t /\ Zero(h1, t))
      BY <1>6 DEF Lost, Requests
    <3>3. Zero(h1, t) => Zero(h5, t)
      BY <1>1, <2>2 DEF Zero
    <3> QED
      BY <1>4, <3>1, <3>2, <3>3 DEF Requests, CountMoved
  <2> QED
    BY <1>12, <2>1, <2>2, <2>3, <2>4 DEF Touches, Level
<1>16. ASSUME CanPhantomize(h, l)
       PROVE  AllHaveColl(h5) /\ h5.failed = h.failed
  <2>1. /\ h.obj[t].count[b] > 0 /\ Unlisted(h, t, Phantom) >= 0
        /\ h.obj[o].count[Phantom] > 0 /\ AllHaveColl(h)
    BY <1>16 DEF CanPhantomize, o, t, b
  <2>2. h1.failed = h.failed
    <3>1. h0.obj[t].count[b] = h.obj[t].count[b]
      BY <1>4, <1>6 DEF CountMoved
    <3> QED
      BY <1>4, <1>6, <2>1, <3>1 DEF Lost
  <2>3. \A p \in Objects \ {t} : HasColl(h1, p)
    BY <1>4, <1>6, <2>1 DEF CountMoved, Step, Lost, AllHaveColl
  <2>4. h1.obj[o].collector # NULL
    <3>1. CASE o # t
      <4>1. h1.obj[o].count = h.obj[o].count
        BY <1>1, <1>4, <1>6, <3>1 DEF CountMoved, Step, Lost
      <4> QED
        BY <1>1, <2>1, <2>3, <3>1, <4>1 DEF HasColl
    <3>2. CASE o = t
      <4>1. HasColl(h0, t)
        BY <1>1, <1>4, <2>1, <3>2 DEF CountMoved, HasColl, AllHaveColl
      <4>2. HasColl(h1, t)
        BY <1>6, <4>1 DEF Lost
      <4>3. Unlisted(h1, t, Phantom) >= 1
        <5>1. Unlisted(h1, t, Phantom) = Unlisted(h0, t, Phantom)
          <6>1. /\ Unlisted(h1, t, Phantom) = Unlisted(h0, t, Phantom) + 0
                /\ Unlisted(h0, t, Phantom) \in Int
            BY <1>1, <1>5, <1>6, UnlistedInt DEF Lost, Step
          <6> QED
            BY <6>1
        <5>2. Unlisted(h0, t, Phantom) = Unlisted(h, t, Phantom) + 1
          BY <1>1, <1>4 DEF CountMoved, Step
        <5>3. Unlisted(h, t, Phantom) \in Int
          BY <1>1, UnlistedInt
        <5> QED
          BY <2>1, <5>1, <5>2, <5>3
      <4>4. /\ Listed(Store(h1), t, Counting) \in Nat
            /\ h1.obj[t].count[Phantom] \in Int
            /\ Unlisted(h1, t, Phantom)
                 = h1.obj[t].count[Phantom] - Listed(Store(h1), t, Counting)
        BY <1>1, <1>7, UnlistedInt DEF Unlisted
      <4>5. h1.obj[t].count[Phantom] > 0
        BY <4>3, <4>4
      <4> QED
        BY <3>2, <4>2, <4>5 DEF HasColl
    <3> QED
      BY <3>1, <3>2
  <2>5. h2 = h1
    BY <1>8, <2>4 DEF P
  <2>6. /\ h3.obj[o].collector = h3.obj[t].collector
        /\ h3.obj[o].collector # NULL /\ h3.failed = h2.failed
    BY <1>9, <2>4, <2>5 DEF Joined
  <2>7. h5 = h4
    BY <1>11, <1>12, <2>6 DEF Q
  <2>8. \A p \in Objects : HasColl(h3, p)
    <3> SUFFICES ASSUME NEW p \in Objects PROVE HasColl(h3, p)
      OBVIOUS
    <3>1. CASE p = t
      BY <2>6, <3>1 DEF HasColl
    <3>2. CASE p # t
      BY <1>9, <2>3, <2>5, <3>2 DEF Joined, Level
    <3> QED
      BY <3>1, <3>2
  <2> QED
    BY <1>11, <2>2, <2>5, <2>6, <2>7, <2>8 DEF AllHaveColl
<1>17. Phantomed(h, h5, l)
  BY <1>13, <1>14, <1>15, <1>16 DEF Phantomed, t, b
<1> QED
  BY <1>2, <1>17

\* A count of t that is rebuilt goes from the phantom one to w.
Rebuilt(h, g, t, w) ==
  /\ g.link = h.link
  /\ Shift(h, g, t, w, -1)
  /\ Touches(h, g, t)
  /\ \A p \in Objects : HasColl(h, p) => HasColl(g, p)
  /\ h.obj[t].count[Phantom] > 0 => g.failed = h.failed

\* The target leaves its collector with the last phantom count
\* (object.c:254-264).
LEMMA RebuildCountsMoves ==
  ASSUME NEW h, Good(h), Emptied(h), NEW t \in Known(h), NEW w \in Bits
  PROVE  Rebuilt(h, RebuildCounts(h, t, w), t, w)
<1> DEFINE h1 == [h EXCEPT !.obj[t].count[w] = @ + 1]
           h2 == [h1 EXCEPT !.obj[t].count[Phantom] = @ - 1]
           h3 == IF h2.obj[t].count[Phantom] = 0
                   THEN object_set_collector(h2, t, NULL) ELSE h2
           P  == h3.obj[t].count[Phantom] >= 0
           h4 == assert(h3, P, "object_rebuild_link:263")
<1>1. RebuildCounts(h, t, w) = h4
  BY DEF RebuildCounts
<1>2. t \in Objects /\ w \in 0..2 /\ w # Phantom /\ Phantom \in 0..2
  BY DEF Known, Bits, Phantom
<1>3. CountMoved(h, h1, t, w, 1) /\ h1.failed = h.failed
  <2>1. CountSet(h, h1, t, w, 1)
    BY DEF CountSet
  <2> HIDE DEF h1
  <2> QED
    BY <1>2, <2>1, CountStep
<1> HIDE DEF h1
<1>4. Good(h1) /\ Emptied(h1)
  BY <1>3 DEF CountMoved, Keeps, Step
<1>5. CountMoved(h1, h2, t, Phantom, -1) /\ h2.failed = h1.failed
  <2>1. h1.obj[t].count[Phantom] - 1 = h1.obj[t].count[Phantom] + (-1)
    BY <1>2, <1>4, CountsInt
  <2>2. CountSet(h1, h2, t, Phantom, -1)
    BY <2>1 DEF CountSet
  <2> HIDE DEF h2
  <2> QED
    BY <1>2, <1>4, <2>2, CountStep
<1> HIDE DEF h2
<1>6. Good(h2) /\ Emptied(h2)
  BY <1>5 DEF CountMoved, Keeps, Step
<1>7. Level(h2, h3) /\ Good(h3) /\ Emptied(h3) /\ h3.failed = h2.failed
  <2>1. Level(h2, h2)
    BY <1>6 DEF Level, SameShape, SameListed
  <2>2. CASE h2.obj[t].count[Phantom] = 0
    <3>1. /\ Level(h2, object_set_collector(h2, t, NULL))
          /\ Keeps(h2, object_set_collector(h2, t, NULL))
          /\ object_set_collector(h2, t, NULL).failed = h2.failed
      BY <1>2, <1>6, <2>2, SetCollectorLevel
    <3> QED
      BY <2>2, <3>1 DEF Keeps, Level
  <2>3. CASE h2.obj[t].count[Phantom] # 0
    BY <1>6, <2>1, <2>3
  <2> QED
    BY <2>2, <2>3
<1> HIDE DEF h3
<1>8. Level(h3, h4) /\ (P => h4 = h3)
  BY <1>7, AssertLevel, AssertHolds DEF Failures
<1>9. P <=> h2.obj[t].count[Phantom] >= 0
  BY <1>2, <1>7 DEF Level
<1> HIDE DEF h4, P
<1>10. Shift(h, h4, t, w, -1)
  <2> SUFFICES ASSUME NEW p \in Objects, NEW i \in 0..2
               PROVE  Unlisted(h4, p, i) = Unlisted(h, p, i)
                        + (IF p = t /\ i = Phantom THEN -1 ELSE 0)
                        - (IF p = t /\ i = w THEN -1 ELSE 0)
    BY DEF Shift
  <2>1. Unlisted(h4, p, i) = Unlisted(h2, p, i)
    BY <1>7, <1>8, LevelUnlisted
  <2>2. Unlisted(h2, p, i) = Unlisted(h1, p, i)
                               + (IF p = t /\ i = Phantom THEN -1 ELSE 0)
    BY <1>5 DEF CountMoved, Step
  <2>3. Unlisted(h1, p, i) = Unlisted(h, p, i) + (IF p = t /\ i = w THEN 1 ELSE 0)
    BY <1>3 DEF CountMoved, Step
  <2>4. Unlisted(h, p, i) \in Int
    BY UnlistedInt
  <2> QED
    BY <2>1, <2>2, <2>3, <2>4
<1>11. Touches(h, h4, t) /\ h4.link = h.link
  <2>1. Requested(h4) \subseteq Requested(h)
    BY <1>3, <1>5, <1>7, <1>8 DEF CountMoved, Level
  <2> QED
    BY <1>3, <1>5, <1>7, <1>8, <2>1
       DEF Touches, Requests, CountMoved, Step, Level, SameShape
<1>12. ASSUME NEW p \in Objects, HasColl(h, p) PROVE HasColl(h4, p)
  <2>1. HasColl(h2, p) => HasColl(h4, p)
    BY <1>7, <1>8 DEF Level
  <2>2. CASE p # t
    BY <1>3, <1>5, <1>12, <2>1, <2>2 DEF CountMoved, Step
  <2>3. CASE p = t
    <3>1. HasColl(h1, t)
      BY <1>2, <1>3, <1>12, <2>3 DEF CountMoved
    <3>2. /\ h2.obj[t].count[Phantom] = h1.obj[t].count[Phantom] + (-1)
          /\ h2.obj[t].collector = h1.obj[t].collector
          /\ h1.obj[t].count[Phantom] \in Int
      BY <1>2, <1>4, <1>5, CountsInt DEF CountMoved
    <3> QED
      BY <2>1, <2>3, <3>1, <3>2 DEF HasColl
  <2> QED
    BY <2>2, <2>3
<1>13. ASSUME h.obj[t].count[Phantom] > 0 PROVE h4.failed = h.failed
  <2>1. /\ h2.obj[t].count[Phantom] = h1.obj[t].count[Phantom] + (-1)
        /\ h1.obj[t].count[Phantom] = h.obj[t].count[Phantom]
        /\ h.obj[t].count[Phantom] \in Int
    BY <1>2, <1>3, <1>5, CountsInt DEF CountMoved
  <2>2. h2.obj[t].count[Phantom] >= 0
    BY <1>13, <2>1
  <2> QED
    BY <1>3, <1>5, <1>7, <1>8, <1>9, <2>2
<1> QED
  BY <1>1, <1>10, <1>11, <1>12, <1>13 DEF Rebuilt

\* Link l becomes a counted one, of bit w.
LinkRebuilt(h, g, l, w) ==
  /\ w \in Bits
  /\ g.link = [h.link EXCEPT ![l] = [@ EXCEPT !.which = w, !.phantomized = FALSE]]
  /\ Shift(h, g, h.link[l].target, w, -1)
  /\ Touches(h, g, h.link[l].target)
  /\ \A p \in Objects : HasColl(h, p) => HasColl(g, p)
  /\ h.obj[h.link[l].target].count[Phantom] > 0 => g.failed = h.failed

\* A node whose link is rebuilt goes on a rebuild list if it stays phantom
\* (object.c:238-269).
LEMMA RebuildLinkMoves ==
  ASSUME NEW h, Good(h), Emptied(h), NEW c \in Collectors, h.coll[c].live,
         NEW l \in Allocated(h), h.link[l].phantomized
  PROVE  \E w \in Bits : LinkRebuilt(h, object_rebuild_link(h, c, l), l, w)
<1> DEFINE o  == h.link[l].src
           t  == h.link[l].target
           P  == h.obj[t].phantomized \/ KeysOf(h, t) = {}
           w  == LinkBit(h, o, t, P)
           r  == [h.link[l] EXCEPT !.which = w, !.phantomized = FALSE]
           h1 == [h EXCEPT !.link[l].which = w, !.link[l].phantomized = FALSE]
           h2 == RebuildCounts(h1, t, w)
           g  == safelist_add(h2, c, "rebuild_list", t)
           k  == IF h2.obj[t].collector = NULL THEN h2 ELSE g
<1>1. /\ t \in Known(h) /\ t \in Objects /\ l \in Links
      /\ h.link[l] \in Link /\ h.link[l].state # "none"
  BY DEF Good, HeapType, UsedOK, LinksOK, Known, Allocated
<1>2. w \in Bits
  <2> HIDE DEF o, t, P
  <2> QED
    BY <1>1, LinkBitType
<1>3. object_rebuild_link(h, c, l) = k
  BY DEF object_rebuild_link
<1> HIDE DEF o, t, w
<1>0. LinkSet(h, h1, l, r)
  BY <1>1 DEF LinkSet, Good, HeapType, Link
<1> HIDE DEF h1
<1>4. Keeps(h, h1)
  <2>1. /\ r \in Link /\ r.state # "none"
        /\ r.src = h.link[l].src /\ r.target = h.link[l].target
    BY <1>1, <1>2 DEF Link
  <2> HIDE DEF r
  <2>2. Keeps(h, [h EXCEPT !.link[l] = r])
    BY <2>1, LinkFields
  <2> QED
    BY <1>0, <2>2 DEF LinkSet
<1>5. /\ h1.obj = h.obj /\ h1.failed = h.failed
      /\ h1.link = [h.link EXCEPT ![l] = r]
      /\ \A p, i : Unlisted(h1, p, i) = Unlisted(h, p, i)
      /\ \A p : HasColl(h1, p) <=> HasColl(h, p)
      /\ Requested(h1) = Requested(h)
      /\ Emptied(h1)
  <2> HIDE DEF r
  <2> QED
    BY <1>0, <1>1, LinkSetSame
<1>6. /\ Rebuilt(h1, h2, t, w) /\ Good(h2) /\ Emptied(h2)
      /\ t \in Known(h2) /\ h2.coll[c].live
  <2>1. Good(h1) /\ t \in Known(h1) /\ h1.coll[c].live /\ w \in 0..2
    BY <1>1, <1>2, <1>4 DEF Keeps, SameUsed, Bits
  <2>2. Rebuilt(h1, h2, t, w)
    BY <1>2, <1>5, <2>1, RebuildCountsMoves
  <2>3. Keeps(h1, h2)
    BY <2>1, RebuildCountsGood
  <2> QED
    BY <2>1, <2>2, <2>3 DEF Rebuilt, Touches, Keeps, SameUsed
<1> HIDE DEF h2
<1>7. Level(h2, g) /\ g.failed = h2.failed
  <2>1. Level(h2, g) /\ ListsOnly(h2, g)
    BY <1>6, SafelistAddStep
  <2> QED
    BY <2>1 DEF ListsOnly
<1>8. Level(h2, h2)
  BY <1>6 DEF Level, SameShape, SameListed
<1> HIDE DEF g
<1>9. Level(h2, k) /\ k.failed = h2.failed
  BY <1>7, <1>8
<1> HIDE DEF k
<1>10. k.link = [h.link EXCEPT ![l] = [@ EXCEPT !.which = w, !.phantomized = FALSE]]
  BY <1>5, <1>6, <1>9 DEF Level, SameShape, Rebuilt
<1>11. Shift(h, k, t, w, -1)
  <2> SUFFICES ASSUME NEW p \in Objects, NEW i \in 0..2
               PROVE  Unlisted(k, p, i) = Unlisted(h, p, i)
                        + (IF p = t /\ i = Phantom THEN -1 ELSE 0)
                        - (IF p = t /\ i = w THEN -1 ELSE 0)
    BY DEF Shift
  <2>1. Unlisted(k, p, i) = Unlisted(h2, p, i) /\ Unlisted(h1, p, i) = Unlisted(h, p, i)
    BY <1>5, <1>9, LevelUnlisted
  <2> QED
    BY <1>6, <2>1 DEF Rebuilt, Shift
<1>12. Touches(h, k, t)
  <2>1. Touches(h1, h2, t)
    BY <1>6 DEF Rebuilt
  <2>2. \A p \in Objects : k.obj[p].count = h2.obj[p].count
    BY <1>9 DEF Level
  <2>3. Zero(h2, t) <=> Zero(k, t)
    BY <1>1, <2>2 DEF Zero
  <2>4. Requests(h, k, t)
    BY <1>5, <1>9, <2>1, <2>3 DEF Touches, Requests, Level
  <2> QED
    BY <1>5, <1>9, <2>1, <2>2, <2>4 DEF Touches, Level, SameShape
<1>13. \A p \in Objects : HasColl(h, p) => HasColl(k, p)
  BY <1>5, <1>6, <1>9 DEF Rebuilt, Level
<1>14. h.obj[t].count[Phantom] > 0 => k.failed = h.failed
  BY <1>5, <1>6, <1>9 DEF Rebuilt
<1>15. LinkRebuilt(h, k, l, w)
  BY <1>2, <1>10, <1>11, <1>12, <1>13, <1>14 DEF LinkRebuilt, t
<1> QED
  BY <1>2, <1>3, <1>15

\* The strong count of o is dropped; its bit is flipped only when no strong
\* count is left.
NodePhantomized(h, g, o) ==
  /\ g.link = h.link
  /\ \A p \in Objects : /\ g.obj[p].links = h.obj[p].links
                        /\ g.obj[p].state = h.obj[p].state
  /\ \A p \in Objects \ {o} : /\ g.obj[p].which = h.obj[p].which
                              /\ g.obj[p].count = h.obj[p].count
  /\ \A p \in Objects, i \in 0..2 :
       Unlisted(g, p, i) = Unlisted(h, p, i)
         + (IF p = o /\ i = h.obj[o].which THEN -1 ELSE 0)
  /\ g.obj[o].which # h.obj[o].which => Unlisted(g, o, h.obj[o].which) = 0
  /\ \A p \in Objects : HasColl(h, p) => HasColl(g, p)
  /\ Requested(g) \subseteq Requested(h)
  /\ Emptied(g)
  /\ g.failed = h.failed

\* The count of a collector's list entry is there to be dropped, and a node
\* without strong counts is in no collect list (object.c:177-209).
LEMMA PhantomizeNodeMoves ==
  ASSUME NEW h, Good(h), Emptied(h), NEW o \in Objects,
         h.obj[o].collector # NULL, Unlisted(h, o, h.obj[o].which) >= 1
  PROVE  NodePhantomized(h, object_phantomize_node(h, o), o)
<1> DEFINE h1 == FollowCollector(h, o)
           w  == h1.obj[o].which
           k  == [h1 EXCEPT !.obj[o].count[w] = @ - 1]
           P  == k.obj[o].count[k.obj[o].which] >= 0
           h2 == assert(k, P, "object_phantomize_node:182")
           h3 == BecomePhantom(h2, o)
           g  == object_phantomize_node(h, o)
<1>0. g = IF h2.obj[o].count[h2.obj[o].which] > 0 THEN h2 ELSE h3
  BY DEF object_phantomize_node, DropStrong
<1> HIDE DEF g
<1>1. Level(h, h1) /\ Good(h1) /\ Emptied(h1) /\ h1.failed = h.failed
  BY FollowLevel DEF Keeps, Level
<1> HIDE DEF h1
<1>2. w = h.obj[o].which /\ w \in 0..2 /\ w # Phantom
  BY <1>1, UnlistedInt DEF Level, SameShape
<1> HIDE DEF w
<1>3. CountMoved(h1, k, o, w, -1) /\ k.failed = h1.failed
  <2>1. h1.obj[o].count[w] - 1 = h1.obj[o].count[w] + (-1)
    BY <1>1, <1>2, CountsInt
  <2>2. CountSet(h1, k, o, w, -1)
    BY <2>1 DEF CountSet
  <2> HIDE DEF k
  <2> QED
    BY <1>1, <1>2, <2>2, CountStep
<1> HIDE DEF k
<1>4. Good(k) /\ Emptied(k) /\ k.obj[o].which = w
  BY <1>1, <1>2, <1>3 DEF CountMoved, Keeps, Step, SameShape, Level
<1>5. Level(k, h2) /\ Good(h2) /\ Emptied(h2) /\ (P => h2 = k)
  <2>1. Level(k, h2) /\ SameBut(k, h2) /\ (P => h2 = k)
    BY <1>4, AssertLevel, AssertHolds, AssertSame DEF Failures
  <2> QED
    BY <2>1 DEF SameBut, Keeps, Level
<1>6. P <=> k.obj[o].count[w] >= 0
  BY <1>4
<1> HIDE DEF h2, P
<1>7. Step(h, h2, o, w, -1) /\ h2.obj[o].which = w
  BY <1>1, <1>3, <1>4, <1>5, StepLevel DEF CountMoved, Level, SameShape
<1>8. \A p \in Objects : HasColl(h, p) => HasColl(h2, p)
  BY <1>1, <1>2, <1>3, <1>5 DEF Level, CountMoved, Step
<1>9. Requested(h2) \subseteq Requested(h)
  BY <1>1, <1>3, <1>5 DEF Level, CountMoved
<1>10. /\ Unlisted(h2, o, w) = Unlisted(h, o, w) + (-1)
       /\ Unlisted(h, o, w) \in Int /\ Unlisted(h2, o, w) >= 0
  BY <1>2, <1>7, UnlistedInt DEF Step
<1>11. /\ Unlisted(h2, o, w) = h2.obj[o].count[w] - Listed(Store(h2), o, {"collect"})
       /\ Listed(Store(h2), o, {"collect"}) \in Nat
       /\ h2.obj[o].count[w] \in Int
  <2>1. Unlisted(h2, o, w) = h2.obj[o].count[w] - Listed(Store(h2), o, {"collect"})
    BY <1>2, <1>7 DEF Unlisted
  <2> QED
    BY <1>2, <1>5, <2>1, UnlistedInt
<1>12. h2.failed = h.failed
  <2>1. h2.obj[o].count[w] >= 0
    BY <1>10, <1>11
  <2>2. k.obj[o].count[w] = h2.obj[o].count[w]
    BY <1>5 DEF Level
  <2> QED
    BY <1>1, <1>3, <1>5, <1>6, <2>1, <2>2
<1>13. NodePhantomized(h, h2, o)
  BY <1>2, <1>7, <1>8, <1>9, <1>12 DEF NodePhantomized, Step, SameShape
<1>14. CASE h2.obj[o].count[h2.obj[o].which] > 0
  <2>1. g = h2
    BY <1>0, <1>14
  <2> QED
    BY <1>13, <2>1 DEF g
<1>15. CASE ~(h2.obj[o].count[h2.obj[o].which] > 0)
  <2>1. g = h3
    BY <1>0, <1>15
  <2>2. Unlisted(h2, o, w) = 0 /\ Listed(Store(h2), o, {"collect"}) = 0
    BY <1>7, <1>10, <1>11, <1>15
  <2> DEFINE node == h2.obj[o]
             bit  == Flip(node.which)
             b    == IF node.count[bit] > 0 THEN bit ELSE node.which
             q    == node.phantomized /\ node.phantomization_complete
             r    == [node EXCEPT !.which = b, !.phantomized = TRUE,
                                  !.phantomization_complete = q]
  <2>3. h3 = [h2 EXCEPT !.obj[o] = r]
    BY DEF BecomePhantom
  <2>4. h2 \in HeapType /\ node \in Object
    BY <1>5 DEF Good, HeapType
  <2>5. b # Phantom
    <3>1. node.which \in {0, 1} /\ b \in {bit, node.which}
      BY <2>4 DEF Object, Bits
    <3> QED
      BY <3>1 DEF Flip, Phantom
  <2> HIDE DEF h3, b, q
  <2>6. /\ r.which = b /\ r.links = node.links /\ r.state = node.state
        /\ r.count = node.count /\ r.collector = node.collector
    BY <2>4 DEF Object
  <2> HIDE DEF r
  <2>7. /\ h3.work = h2.work /\ h3.coll = h2.coll /\ h3.link = h2.link
        /\ h3.failed = h2.failed
        /\ \A p \in Objects : h3.obj[p] = IF p = o THEN r ELSE h2.obj[p]
    BY <2>3, <2>4 DEF HeapType
  <2>8. \A p \in Objects, i \in 0..2 : Unlisted(h3, p, i) = Unlisted(h2, p, i)
    <3> SUFFICES ASSUME NEW p \in Objects, NEW i \in 0..2
                 PROVE  Unlisted(h3, p, i) = Unlisted(h2, p, i)
      OBVIOUS
    <3>1. Store(h3) = Store(h2)
      BY <2>7 DEF Store
    <3>2. CASE p # o
      BY <2>7, <3>1, <3>2 DEF Unlisted
    <3>3. CASE p = o /\ i = Phantom
      BY <2>6, <2>7, <3>1, <3>3 DEF Unlisted
    <3>4. CASE p = o /\ i # Phantom
      <4>1. Unlisted(h3, o, i) = h2.obj[o].count[i] - 0
        BY <2>2, <2>6, <2>7, <3>1, <3>4 DEF Unlisted
      <4>2. Unlisted(h2, o, i) = h2.obj[o].count[i] - 0
        BY <2>2, <3>4 DEF Unlisted
      <4> QED
        BY <3>4, <4>1, <4>2
    <3> QED
      BY <3>2, <3>3, <3>4
  <2>9. /\ Requested(h3) = Requested(h2)
        /\ Emptied(h3) <=> Emptied(h2)
        /\ \A p \in Objects : HasColl(h3, p) <=> HasColl(h2, p)
    BY <2>6, <2>7 DEF Requested, Emptied, store_count_zero, HasColl
  <2>10. Unlisted(h3, o, h.obj[o].which) = 0
    BY <1>2, <2>2, <2>8
  <2>11. NodePhantomized(h, h3, o)
    BY <1>13, <2>6, <2>7, <2>8, <2>9, <2>10 DEF NodePhantomized
  <2> QED
    BY <2>1, <2>11 DEF g
<1> QED
  BY <1>14, <1>15

\* A fresh object has one strong count and an empty table.
Fresh(h, g, o) ==
  /\ g.link = h.link /\ g.coll = h.coll /\ g.work = h.work
  /\ g.failed = h.failed
  /\ \A p \in Objects \ {o} : g.obj[p] = h.obj[p]
  /\ g.obj[o] = [NoObject EXCEPT !.state = "live", !.count[0] = 1]
  /\ \A p \in Objects, i \in 0..2 :
       Unlisted(g, p, i) = Unlisted(h, p, i) + (IF p = o /\ i = 0 THEN 1 ELSE 0)
  /\ \A i \in 0..2 : Unlisted(h, o, i) = 0

\* acid_malloc's object had no holders (object.c:39-69).
LEMMA InitStrongFresh ==
  ASSUME NEW h, Good(h), NEW o \in Objects, Zero(h, o),
         \A i \in 0..2 : Unlisted(h, o, i) >= 0
  PROVE  Fresh(h, object_init_strong(h, o), o)
<1> DEFINE r == [NoObject EXCEPT !.state = "live", !.count[0] = 1]
           g == [h EXCEPT !.obj[o] = r]
<1>1. object_init_strong(h, o) = g
  BY DEF object_init_strong
<1>2. /\ r.which = 0 /\ r.count[0] = 1 /\ r.count[1] = 0 /\ r.count[2] = 0
  BY DEF NoObject
<1> HIDE DEF r
<1>3. /\ g.coll = h.coll /\ g.link = h.link /\ g.failed = h.failed
      /\ g.work = h.work
      /\ \A p \in Objects : g.obj[p] = IF p = o THEN r ELSE h.obj[p]
  BY DEF Good, HeapType
<1> HIDE DEF g
<1>4. /\ Listed(Store(h), o, Counting) = 0
      /\ Listed(Store(h), o, {"collect"}) = 0
      /\ \A i \in 0..2 : Unlisted(h, o, i) = 0
  <2>1. /\ h.obj[o].which \in 0..2 /\ h.obj[o].which # Phantom /\ Phantom \in 0..2
        /\ Listed(Store(h), o, Counting) \in Nat
        /\ Listed(Store(h), o, {"collect"}) \in Nat
        /\ \A i \in 0..2 : h.obj[o].count[i] = 0
    BY UnlistedInt DEF Zero, Phantom
  <2>2. Listed(Store(h), o, Counting) = 0
    <3>1. Unlisted(h, o, Phantom) = 0 - Listed(Store(h), o, Counting)
      BY <2>1 DEF Unlisted
    <3> QED
      BY <2>1, <3>1
  <2>3. Listed(Store(h), o, {"collect"}) = 0
    <3>1. Unlisted(h, o, h.obj[o].which) = 0 - Listed(Store(h), o, {"collect"})
      BY <2>1 DEF Unlisted
    <3> QED
      BY <2>1, <3>1
  <2> QED
    BY <2>1, <2>2, <2>3 DEF Unlisted
<1>5. Store(g) = Store(h)
  BY <1>3 DEF Store
<1>6. \A p \in Objects, i \in 0..2 :
        Unlisted(g, p, i) = Unlisted(h, p, i) + (IF p = o /\ i = 0 THEN 1 ELSE 0)
  <2> SUFFICES ASSUME NEW p \in Objects, NEW i \in 0..2
               PROVE  Unlisted(g, p, i) = Unlisted(h, p, i)
                                            + (IF p = o /\ i = 0 THEN 1 ELSE 0)
    OBVIOUS
  <2>1. CASE p # o
    <3>1. Unlisted(g, p, i) = Unlisted(h, p, i) /\ Unlisted(h, p, i) \in Int
      BY <1>3, <1>5, <2>1, UnlistedInt DEF Unlisted
    <3> QED
      BY <2>1, <3>1
  <2>2. CASE p = o
    <3>1. Unlisted(g, o, i) = r.count[i] - 0
      BY <1>3, <1>4, <1>5 DEF Unlisted
    <3>2. i = 0 \/ i = 1 \/ i = 2
      OBVIOUS
    <3> QED
      BY <1>2, <1>4, <2>2, <3>1, <3>2
  <2> QED
    BY <2>1, <2>2
<1> QED
  BY <1>1, <1>3, <1>4, <1>6 DEF Fresh, r

\* Link l is new in field f of o and stands for one count of t.
Installed(h, g, o, f, t, l) ==
  /\ \A m \in Links \ {l} : g.link[m] = h.link[m]
  /\ g.link[l].src = o /\ g.link[l].target = t /\ g.link[l].state = "live"
  /\ Kind(g, l) \in 0..2
  /\ \A p \in Objects :
       /\ g.obj[p].links = IF p = o THEN [h.obj[p].links EXCEPT ![f] = l]
                                    ELSE h.obj[p].links
       /\ g.obj[p].which = h.obj[p].which /\ g.obj[p].state = h.obj[p].state
  /\ \A p \in Objects, i \in 0..2 :
       Unlisted(g, p, i) = Unlisted(h, p, i)
         + (IF p = t /\ i = Kind(g, l) THEN 1 ELSE 0)
  /\ \A p \in Objects \ {t} : g.obj[p].count = h.obj[p].count
  /\ Requested(g) \subseteq Requested(h)
  /\ Emptied(g)
  /\ AllHaveColl(h) /\ g.failed = "none" => AllHaveColl(g)
  /\ g.failed \in {h.failed, "object_set:455"}

\* r is the new link in field f of o, and nothing else has changed.
NewLink(h, g, o, f, l, r) ==
  /\ g.coll = h.coll /\ g.work = h.work /\ g.failed = h.failed
  /\ g.link = [h.link EXCEPT ![l] = r]
  /\ \A p \in Objects :
       /\ g.obj[p].links = IF p = o THEN [h.obj[p].links EXCEPT ![f] = l]
                                    ELSE h.obj[p].links
       /\ g.obj[p].which = h.obj[p].which
       /\ g.obj[p].state = h.obj[p].state
       /\ g.obj[p].count = h.obj[p].count
       /\ g.obj[p].collector = h.obj[p].collector

\* The record that link_create fills in.
LinkFrom(o, t) == [NoLink EXCEPT !.state = "live", !.src = o, !.target = t]

\* The first part of object_set: the link is made, without any count
\* (object.c:448-453).
LEMMA InstallLinkSame ==
  ASSUME NEW h, Good(h), NEW o \in Known(h), NEW f \in Fields,
         NEW t \in Known(h), NEW l \in Links
  PROVE  LET g == InstallLink(h, o, f, t, l)
         IN  /\ Good(g) /\ l \in Allocated(g)
             /\ o \in Known(g) /\ t \in Known(g)
             /\ NewLink(h, g, o, f, l, LinkFrom(o, t))
<1> DEFINE r  == LinkFrom(o, t)
           h0 == [h EXCEPT !.link[l] = r]
           tb == [h0.obj[o].links EXCEPT ![f] = l]
           h1 == InstallLink(h, o, f, t, l)
<1>1. o \in Objects /\ t \in Objects
  BY DEF Known
<1>2. h1 = [h0 EXCEPT !.obj[o].links = tb]
  BY DEF InstallLink, LinkFrom
<1>3. /\ r \in Link /\ r.state # "none"
      /\ r.src \in Known(h) /\ r.target \in Known(h)
  BY <1>1 DEF LinkFrom, NoLink, Link, Memory, Bits
<1> HIDE DEF r, h1
<1>4. /\ Good(h0) /\ Allocated(h0) = Allocated(h) \cup {l}
      /\ Known(h0) = Known(h)
  BY <1>3, LinkUpdate
<1>5. /\ h0.obj = h.obj /\ h0.coll = h.coll /\ h0.work = h.work
      /\ h0.failed = h.failed /\ h0.link = [h.link EXCEPT ![l] = r]
  BY DEF Good, HeapType
<1> HIDE DEF h0
<1>6. h0.obj[o] \in Object /\ h0 \in HeapType
  BY <1>1, <1>4 DEF Good, HeapType
<1>7. tb \in [Fields -> Allocated(h0) \cup {NULL}]
  <2>1. h0.obj[o].links \in [Fields -> Links \cup {NULL}]
    BY <1>6 DEF Object
  <2>2. \A k \in Fields : h0.obj[o].links[k] \in Allocated(h0) \cup {NULL}
    BY <1>1, <1>4 DEF Good, UsedOK, TablesOK
  <2> QED
    BY <1>4, <2>1, <2>2
<1>8. tb = [h.obj[o].links EXCEPT ![f] = l]
  BY <1>5
<1> HIDE DEF tb
<1>9. Keeps(h0, h1)
  BY <1>1, <1>2, <1>4, <1>7, TableGood
<1>10. /\ h1.coll = h0.coll /\ h1.work = h0.work /\ h1.failed = h0.failed
       /\ h1.link = h0.link
       /\ \A p \in Objects \ {o} : h1.obj[p] = h0.obj[p]
       /\ h1.obj[o] = [h0.obj[o] EXCEPT !.links = tb]
  BY <1>1, <1>2, <1>6 DEF HeapType
<1>11. /\ h1.obj[o].links = tb /\ h1.obj[o].which = h0.obj[o].which
       /\ h1.obj[o].state = h0.obj[o].state
       /\ h1.obj[o].count = h0.obj[o].count
       /\ h1.obj[o].collector = h0.obj[o].collector
  BY <1>6, <1>10 DEF Object
<1>12. Good(h1) /\ l \in Allocated(h1) /\ o \in Known(h1) /\ t \in Known(h1)
  BY <1>4, <1>9 DEF Keeps, SameUsed
<1>13. NewLink(h, h1, o, f, l, r)
  BY <1>5, <1>8, <1>10, <1>11 DEF NewLink
<1> QED
  BY <1>12, <1>13 DEF h1, r

\* The locked section of object_set counts the new link (object.c:448-470).
LEMMA SetLinkInstalls ==
  ASSUME NEW h, Good(h), Emptied(h), NEW o \in Known(h), NEW f \in Fields,
         NEW t \in Known(h), NEW l \in Links
  PROVE  Installed(h, object_set_link(h, o, f, t, l), o, f, t, l)
<1> DEFINE r  == LinkFrom(o, t)
           h1 == InstallLink(h, o, f, t, l)
           m  == object_merge_collectors(h1, o, t)
           P  == m.obj[o].collector # NULL
           m1 == assert(m, P, "object_set:455")
           m2 == [m1 EXCEPT !.obj[t].count[Phantom] = @ + 1]
           q1 == [m2.link[l] EXCEPT !.phantomized = TRUE]
           m3 == [m2 EXCEPT !.link[l] = q1]
           Q  == KeysOf(h1, t) = {}
           w  == LinkBit(h1, o, t, Q)
           h2 == [h1 EXCEPT !.obj[t].count[w] = @ + 1]
           q2 == [h2.link[l] EXCEPT !.which = w]
           h3 == [h2 EXCEPT !.link[l] = q2]
           g  == object_set_link(h, o, f, t, l)
<1>1. /\ h1.obj[o].phantomized => g = m3
      /\ ~h1.obj[o].phantomized => g = h3
  BY DEF object_set_link
<1> HIDE DEF g
<1>2. /\ o \in Objects /\ t \in Objects /\ Phantom \in 0..2
  BY DEF Known, Phantom
<1>3. /\ Good(h1) /\ l \in Allocated(h1) /\ o \in Known(h1) /\ t \in Known(h1)
      /\ h1.coll = h.coll /\ h1.work = h.work /\ h1.failed = h.failed
      /\ h1.link = [h.link EXCEPT ![l] = r]
      /\ \A p \in Objects :
           /\ h1.obj[p].links = IF p = o THEN [h.obj[p].links EXCEPT ![f] = l]
                                         ELSE h.obj[p].links
           /\ h1.obj[p].which = h.obj[p].which
           /\ h1.obj[p].state = h.obj[p].state
           /\ h1.obj[p].count = h.obj[p].count
           /\ h1.obj[p].collector = h.obj[p].collector
  <2>1. /\ Good(h1) /\ l \in Allocated(h1) /\ o \in Known(h1) /\ t \in Known(h1)
        /\ NewLink(h, h1, o, f, l, r)
    BY InstallLinkSame
  <2> HIDE DEF h1, r
  <2> QED
    BY <2>1 DEF NewLink
<1>4. /\ r.src = o /\ r.target = t /\ r.state = "live"
  BY DEF LinkFrom, NoLink
<1> HIDE DEF h1, r
<1>5. /\ h1.link[l] = r /\ \A k \in Links \ {l} : h1.link[k] = h.link[k]
      /\ r \in Link
  BY <1>3 DEF Good, HeapType
<1>6. /\ Emptied(h1) /\ Requested(h1) = Requested(h)
      /\ \A p \in Objects : HasColl(h1, p) <=> HasColl(h, p)
      /\ \A p \in Objects, i \in 0..2 : Unlisted(h1, p, i) = Unlisted(h, p, i)
  <2>1. Store(h1) = Store(h)
    BY <1>3 DEF Store
  <2>2. Emptied(h1) /\ Requested(h1) = Requested(h)
    BY <1>3 DEF Emptied, store_count_zero, Requested
  <2>3. \A p \in Objects : HasColl(h1, p) <=> HasColl(h, p)
    BY <1>3 DEF HasColl
  <2>4. \A p \in Objects, i \in 0..2 : Unlisted(h1, p, i) = Unlisted(h, p, i)
    BY <1>3, <2>1 DEF Unlisted
  <2> QED
    BY <2>2, <2>3, <2>4
<1>7. ASSUME NEW k, NEW n \in 0..2, NEW q \in Link, NEW e,
             Good(k), SameShape(h1, k), LinkSet(k, e, l, q),
             q.src = o, q.target = t, q.state = "live",
             n = IF q.phantomized THEN Phantom ELSE q.which,
             \A p \in Objects, i \in 0..2 :
               Unlisted(k, p, i) = Unlisted(h1, p, i)
                 + (IF p = t /\ i = n THEN 1 ELSE 0),
             \A p \in Objects \ {t} : k.obj[p].count = h1.obj[p].count,
             Requested(k) \subseteq Requested(h1), Emptied(k),
             AllHaveColl(h) /\ k.failed = "none" => AllHaveColl(k),
             k.failed \in {h.failed, "object_set:455"}
      PROVE  Installed(h, e, o, f, t, l)
  <2>1. /\ e.obj = k.obj /\ e.failed = k.failed
        /\ e.link = [k.link EXCEPT ![l] = q]
        /\ \A p, i : Unlisted(e, p, i) = Unlisted(k, p, i)
        /\ \A p : HasColl(e, p) <=> HasColl(k, p)
        /\ Requested(e) = Requested(k)
        /\ Emptied(e) <=> Emptied(k)
    BY <1>7, LinkSetSame
  <2>2. e.link[l] = q /\ \A j \in Links \ {l} : e.link[j] = h.link[j]
    BY <1>5, <1>7, <2>1 DEF SameShape, Good, HeapType
  <2>3. Kind(e, l) = n
    BY <1>7, <2>2 DEF Kind
  <2>4. \A p \in Objects :
          /\ e.obj[p].links = IF p = o THEN [h.obj[p].links EXCEPT ![f] = l]
                                       ELSE h.obj[p].links
          /\ e.obj[p].which = h.obj[p].which /\ e.obj[p].state = h.obj[p].state
    BY <1>3, <1>7, <2>1 DEF SameShape
  <2>5. \A p \in Objects, i \in 0..2 :
          Unlisted(e, p, i) = Unlisted(h, p, i)
            + (IF p = t /\ i = Kind(e, l) THEN 1 ELSE 0)
    BY <1>6, <1>7, <2>1, <2>3
  <2>6. \A p \in Objects \ {t} : e.obj[p].count = h.obj[p].count
    BY <1>3, <1>7, <2>1
  <2>7. AllHaveColl(h) /\ e.failed = "none" => AllHaveColl(e)
    BY <1>7, <2>1 DEF AllHaveColl
  <2> QED
    BY <1>6, <1>7, <2>1, <2>2, <2>3, <2>4, <2>5, <2>6, <2>7 DEF Installed
<1>8. Installed(h, m3, o, f, t, l)
  <2>1. Joined(h1, m, o, t)
    BY <1>3, <1>6, MergeCollectorsJoined
  <2>2. Good(m) /\ Emptied(m)
    BY <2>1 DEF Joined, Keeps, Level
  <2> HIDE DEF m, P
  <2>3. /\ Level(m, m1) /\ Good(m1) /\ Emptied(m1)
        /\ m1.failed \in {m.failed, "object_set:455"}
        /\ m1.obj = m.obj
        /\ m1.failed = "none" => P
    <3>1. Level(m, m1) /\ SameBut(m, m1)
      BY <2>2, AssertLevel, AssertSame DEF Failures
    <3>2. /\ m1.failed \in {m.failed, "object_set:455"}
          /\ m1.failed = "none" => P
      BY <2>2 DEF assert, Good, HeapType
    <3> HIDE DEF m1
    <3> QED
      BY <3>1, <3>2 DEF SameBut, Keeps, Level
  <2> HIDE DEF m1
  <2>4. CountMoved(m1, m2, t, Phantom, 1) /\ m2.failed = m1.failed
    <3>1. CountSet(m1, m2, t, Phantom, 1)
      BY DEF CountSet
    <3> HIDE DEF m2
    <3> QED
      BY <1>2, <2>3, <3>1, CountStep
  <2> HIDE DEF m2
  <2>5. /\ Good(m2) /\ Emptied(m2) /\ SameShape(h1, m2)
        /\ Requested(m2) \subseteq Requested(h1)
        /\ \A p \in Objects \ {t} : m2.obj[p].count = h1.obj[p].count
        /\ m2.failed \in {h.failed, "object_set:455"}
    BY <1>3, <2>1, <2>3, <2>4
       DEF CountMoved, Keeps, Step, SameShape, Level, Joined
  <2>6. \A p \in Objects, i \in 0..2 :
          Unlisted(m2, p, i) = Unlisted(h1, p, i)
            + (IF p = t /\ i = Phantom THEN 1 ELSE 0)
    BY <2>1, <2>3, <2>4, LevelUnlisted DEF CountMoved, Step, Joined
  <2>7. AllHaveColl(h) /\ m2.failed = "none" => AllHaveColl(m2)
    <3> SUFFICES ASSUME AllHaveColl(h), m2.failed = "none",
                        NEW p \in Objects
                 PROVE  HasColl(m2, p)
      BY DEF AllHaveColl
    <3>1. m.obj[t].collector = m.obj[o].collector /\ m.obj[o].collector # NULL
      BY <2>1, <2>3, <2>4 DEF P, Joined
    <3>2. CASE p = t
      <4>1. m2.obj[t].collector # NULL
        BY <1>2, <2>3, <2>4, <3>1 DEF CountMoved
      <4> QED
        BY <3>2, <4>1 DEF HasColl
    <3>3. CASE p # t
      BY <1>6, <2>1, <2>3, <2>4, <3>3 DEF CountMoved, Step, Joined, Level, AllHaveColl
    <3> QED
      BY <3>2, <3>3
  <2>8. m2.link[l] = r
    BY <1>5, <2>5 DEF SameShape
  <2>9. /\ q1 \in Link /\ q1.src = o /\ q1.target = t /\ q1.state = "live"
        /\ q1.phantomized = TRUE
    BY <1>4, <1>5, <2>8 DEF Link
  <2>10. LinkSet(m2, m3, l, q1)
    BY DEF LinkSet
  <2> HIDE DEF q1, m3
  <2> QED
    BY <1>2, <1>7, <2>5, <2>6, <2>7, <2>9, <2>10
<1>9. Installed(h, h3, o, f, t, l)
  <2>1. w \in Bits /\ w \in 0..2 /\ w # Phantom
    <3> HIDE DEF Q
    <3>1. w \in Bits
      BY <1>2, <1>3, LinkBitType
    <3> HIDE DEF w
    <3> QED
      BY <3>1 DEF Bits, Phantom
  <2> HIDE DEF w
  <2>2. CountMoved(h1, h2, t, w, 1) /\ h2.failed = h1.failed
    <3>1. CountSet(h1, h2, t, w, 1)
      BY DEF CountSet
    <3> HIDE DEF h2
    <3> QED
      BY <1>2, <1>3, <1>6, <2>1, <3>1, CountStep
  <2> HIDE DEF h2
  <2>3. /\ Good(h2) /\ Emptied(h2) /\ SameShape(h1, h2)
        /\ Requested(h2) \subseteq Requested(h1)
        /\ \A p \in Objects \ {t} : h2.obj[p].count = h1.obj[p].count
        /\ h2.failed \in {h.failed, "object_set:455"}
        /\ \A p \in Objects, i \in 0..2 :
             Unlisted(h2, p, i) = Unlisted(h1, p, i)
               + (IF p = t /\ i = w THEN 1 ELSE 0)
    BY <1>3, <2>2 DEF CountMoved, Keeps, Step
  <2>4. AllHaveColl(h) => AllHaveColl(h2)
    <3> SUFFICES ASSUME AllHaveColl(h), NEW p \in Objects PROVE HasColl(h2, p)
      BY DEF AllHaveColl
    <3>1. HasColl(h1, p)
      BY <1>6 DEF AllHaveColl
    <3> QED
      BY <2>1, <2>2, <3>1 DEF CountMoved, Step
  <2>5. h2.link[l] = r /\ r.phantomized = FALSE
    BY <1>5, <2>3 DEF SameShape, r, LinkFrom, NoLink
  <2>6. /\ q2 \in Link /\ q2.src = o /\ q2.target = t /\ q2.state = "live"
        /\ q2.phantomized = FALSE /\ q2.which = w
    BY <1>4, <1>5, <2>1, <2>5 DEF Link
  <2>7. LinkSet(h2, h3, l, q2)
    BY DEF LinkSet
  <2> HIDE DEF q2, h3
  <2> QED
    BY <1>7, <2>1, <2>3, <2>4, <2>6, <2>7
<1> HIDE DEF m3, h3
<1> QED
  BY <1>1, <1>8, <1>9 DEF g

\* What counts stand for and whom collectors list is the same in g.
SameCounts(h, g) ==
  /\ g.coll = h.coll /\ g.work = h.work
  /\ \A p \in Objects : /\ g.obj[p].which = h.obj[p].which
                        /\ g.obj[p].count = h.obj[p].count
                        /\ g.obj[p].collector = h.obj[p].collector

\* All that is said of counts is the same, too.
LEMMA CountsSame ==
  ASSUME NEW h, NEW g, SameCounts(h, g)
  PROVE  /\ \A p \in Objects, i \in 0..2 : Unlisted(g, p, i) = Unlisted(h, p, i)
         /\ \A p \in Objects : HasColl(g, p) <=> HasColl(h, p)
         /\ \A p \in Objects : Zero(g, p) <=> Zero(h, p)
         /\ Requested(g) = Requested(h)
         /\ Emptied(g) <=> Emptied(h)
<1>1. Store(g) = Store(h)
  BY DEF SameCounts, Store
<1>2. \A p \in Objects, i \in 0..2 : Unlisted(g, p, i) = Unlisted(h, p, i)
  BY <1>1 DEF SameCounts, Unlisted
<1>3. \A p \in Objects : (HasColl(g, p) <=> HasColl(h, p)) /\ (Zero(g, p) <=> Zero(h, p))
  BY DEF SameCounts, HasColl, Zero
<1>4. Requested(g) = Requested(h) /\ (Emptied(g) <=> Emptied(h))
  BY DEF SameCounts, Requested, Emptied, store_count_zero
<1> QED
  BY <1>2, <1>3, <1>4

\* tb replaces the table of o.
TableSet(h, g, o, tb) ==
  /\ SameCounts(h, g) /\ g.link = h.link
  /\ \A p \in Objects : /\ g.obj[p].links = IF p = o THEN tb ELSE h.obj[p].links
                        /\ g.obj[p].state = h.obj[p].state

\* object_remove_links empties a table (object.c:85-98).
LEMMA RemoveLinksTable ==
  ASSUME NEW h, Good(h), NEW o \in Objects
  PROVE  LET g == object_remove_links(h, o)
         IN  /\ TableSet(h, g, o, [f \in Fields |-> NULL])
             /\ g.failed \in {h.failed, "object_remove_links:96"}
<1> DEFINE tb == [f \in Fields |-> NULL]
           h1 == [h EXCEPT !.obj[o].links = tb]
           P  == h.obj[o].count[0] = 0 /\ h.obj[o].count[1] = 0
           g  == assert(h1, P, "object_remove_links:96")
<1>1. object_remove_links(h, o) = g
  BY DEF object_remove_links
<1> HIDE DEF P
<1>2. h \in HeapType /\ h.obj[o] \in Object
  BY DEF Good, HeapType
<1>3. /\ h1.coll = h.coll /\ h1.work = h.work /\ h1.link = h.link
      /\ h1.failed = h.failed
      /\ \A p \in Objects \ {o} : h1.obj[p] = h.obj[p]
      /\ h1.obj[o] = [h.obj[o] EXCEPT !.links = tb]
  BY <1>2 DEF HeapType
<1> HIDE DEF tb
<1>4. /\ h1.obj[o].links = tb /\ h1.obj[o].which = h.obj[o].which
      /\ h1.obj[o].state = h.obj[o].state
      /\ h1.obj[o].count = h.obj[o].count
      /\ h1.obj[o].collector = h.obj[o].collector
  BY <1>2, <1>3 DEF Object
<1>5. /\ g.coll = h1.coll /\ g.work = h1.work /\ g.link = h1.link
      /\ g.obj = h1.obj /\ g.failed \in {h1.failed, "object_remove_links:96"}
  <2>1. h1 \in [obj: {h1.obj}, link: {h1.link}, coll: {h1.coll},
                work: {h1.work}, failed: {h1.failed}]
    BY <1>2 DEF HeapType
  <2> HIDE DEF h1
  <2> QED
    BY <2>1 DEF assert
<1> HIDE DEF g, h1
<1>6. TableSet(h, g, o, tb)
  BY <1>3, <1>4, <1>5 DEF TableSet, SameCounts
<1> QED
  BY <1>1, <1>3, <1>5, <1>6 DEF tb

\* object_del frees a node that nothing counts on (object.c:71-83).
Deleted(h, g, o) ==
  /\ g.link = h.link
  /\ \A p \in Objects :
       /\ g.obj[p].links = h.obj[p].links /\ g.obj[p].which = h.obj[p].which
       /\ g.obj[p].count = h.obj[p].count
       /\ g.obj[p].state = IF p = o THEN "freed" ELSE h.obj[p].state
       /\ HasColl(h, p) => HasColl(g, p)
  /\ \A p \in Objects, i \in 0..2 : Unlisted(g, p, i) = Unlisted(h, p, i)
  /\ Requested(g) \subseteq Requested(h)
  /\ Emptied(g)
  /\ KeysOf(h, o) = {} => g.failed = h.failed

\* It does so.
LEMMA ObjectDelDeletes ==
  ASSUME NEW h, Good(h), Emptied(h), NEW o \in Objects, Zero(h, o)
  PROVE  Deleted(h, object_del(h, o), o)
<1> DEFINE h1 == object_set_collector(h, o, NULL)
           P  == KeysOf(h, o) = {}
           h2 == assert(h1, P, "object_del:74")
           g  == [h2 EXCEPT !.obj[o].state = "freed"]
<1>1. object_del(h, o) = g
  BY DEF object_del
<1> HIDE DEF P
<1>2. Level(h, h1) /\ Keeps(h, h1) /\ h1.failed = h.failed
  <2>1. ~(h.obj[o].count[Phantom] > 0)
    BY DEF Zero, Phantom
  <2> QED
    BY <2>1, SetCollectorLevel
<1>3. Good(h1) /\ Emptied(h1)
  BY <1>2 DEF Keeps, Level
<1> HIDE DEF h1
<1>4. Level(h1, h2) /\ Good(h2) /\ (P => h2 = h1)
  <2>1. Level(h1, h2) /\ SameBut(h1, h2) /\ (P => h2 = h1)
    BY <1>3, AssertLevel, AssertSame, AssertHolds DEF Failures
  <2> QED
    BY <2>1 DEF SameBut, Keeps
<1> HIDE DEF h2
<1>5. h2 \in HeapType /\ h2.obj[o] \in Object
  BY <1>4 DEF Good, HeapType
<1>6. /\ g.coll = h2.coll /\ g.work = h2.work /\ g.link = h2.link
      /\ g.failed = h2.failed
      /\ \A p \in Objects \ {o} : g.obj[p] = h2.obj[p]
      /\ g.obj[o] = [h2.obj[o] EXCEPT !.state = "freed"]
  BY <1>5 DEF HeapType
<1>7. /\ g.obj[o].links = h2.obj[o].links /\ g.obj[o].which = h2.obj[o].which
      /\ g.obj[o].state = "freed"
      /\ g.obj[o].count = h2.obj[o].count
      /\ g.obj[o].collector = h2.obj[o].collector
  BY <1>5, <1>6 DEF Object
<1> HIDE DEF g
<1>8. SameCounts(h2, g)
  BY <1>6, <1>7 DEF SameCounts
<1>9. /\ \A p \in Objects, i \in 0..2 : Unlisted(g, p, i) = Unlisted(h2, p, i)
      /\ \A p \in Objects : HasColl(g, p) <=> HasColl(h2, p)
      /\ Requested(g) = Requested(h2)
      /\ Emptied(g) <=> Emptied(h2)
  BY <1>8, CountsSame
<1>10. Level(h, h2)
  BY <1>2, <1>4, LevelTrans
<1>11. \A p \in Objects, i \in 0..2 : Unlisted(g, p, i) = Unlisted(h, p, i)
  BY <1>9, <1>10, LevelUnlisted
<1>12. \A p \in Objects :
       /\ g.obj[p].links = h.obj[p].links /\ g.obj[p].which = h.obj[p].which
       /\ g.obj[p].count = h.obj[p].count
       /\ g.obj[p].state = IF p = o THEN "freed" ELSE h.obj[p].state
       /\ HasColl(h, p) => HasColl(g, p)
  <2>1. ASSUME NEW p \in Objects
        PROVE  /\ g.obj[p].links = h2.obj[p].links
               /\ g.obj[p].which = h2.obj[p].which
               /\ g.obj[p].count = h2.obj[p].count
               /\ g.obj[p].state = IF p = o THEN "freed" ELSE h2.obj[p].state
    <3>1. CASE p = o
      BY <1>7, <3>1
    <3>2. CASE p # o
      BY <1>6, <3>2
    <3> QED
      BY <3>1, <3>2
  <2>2. ASSUME NEW p \in Objects
        PROVE  /\ h2.obj[p].links = h.obj[p].links
               /\ h2.obj[p].which = h.obj[p].which
               /\ h2.obj[p].count = h.obj[p].count
               /\ h2.obj[p].state = h.obj[p].state
               /\ HasColl(h, p) => HasColl(h2, p)
    BY <1>10 DEF Level, SameShape
  <2> QED
    BY <1>9, <2>1, <2>2
<1>13. g.link = h.link /\ Requested(g) \subseteq Requested(h) /\ Emptied(g)
  BY <1>6, <1>9, <1>10 DEF Level, SameShape
<1>14. P => g.failed = h.failed
  BY <1>2, <1>4, <1>6
<1> QED
  BY <1>1, <1>11, <1>12, <1>13, <1>14 DEF Deleted, P

\* Link l has given back its count, and is r now.
Dropped(h, g, l, r) ==
  /\ g.link = [h.link EXCEPT ![l] = r]
  /\ \A p \in Objects, i \in 0..2 :
       Unlisted(g, p, i) = Unlisted(h, p, i)
         + (IF p = h.link[l].target /\ i = Kind(h, l) THEN -1 ELSE 0)
  /\ Touches(h, g, h.link[l].target)
  /\ \A p \in Objects : HasColl(h, p) => HasColl(g, p)
  /\ h.obj[h.link[l].target].count[Kind(h, l)] > 0 => g.failed = h.failed

\* link_dec leaves the link itself alone, link_destroy frees it
\* (link.c:19-34, 55-66).
LEMMA LinkDropped ==
  ASSUME NEW h, Good(h), Emptied(h), NEW l \in Allocated(h), CanCreate(h)
  PROVE  /\ Dropped(h, link_dec(h, l), l, h.link[l])
         /\ Dropped(h, link_destroy(h, l), l, [h.link[l] EXCEPT !.state = "freed"])
<1> DEFINE h1 == link_dec(h, l)
           r  == [h.link[l] EXCEPT !.state = "freed"]
           g  == link_destroy(h, l)
           x  == h.link[l].target
           w  == Kind(h, l)
<1>0. l \in Links
  BY DEF Allocated
<1>1. Lost(h, h1, x, w) /\ w \in 0..2 /\ x \in Objects
  BY LinkDecLost
<1>2. Good(h1) /\ h1.link = h.link
  BY <1>1, LinkDecGood DEF Lost, Step, SameShape
<1>3. LinkSet(h1, g, l, r)
  <2>1. g = [h1 EXCEPT !.link[l] = [h1.link[l] EXCEPT !.state = "freed"]]
    BY DEF link_destroy
  <2> QED
    BY <1>2, <2>1 DEF LinkSet
<1> HIDE DEF h1, g, w, x, r
<1>4. Dropped(h, h1, l, h.link[l])
  <2>1. h1.link = [h.link EXCEPT ![l] = h.link[l]]
    BY <1>2 DEF Good, HeapType
  <2>2. /\ Touches(h, h1, x)
        /\ \A p \in Objects : HasColl(h, p) => HasColl(h1, p)
    BY <1>1 DEF Lost, Step, SameShape, Touches
  <2> QED
    BY <1>1, <2>1, <2>2 DEF Lost, Step, Dropped, x, w
<1>5. /\ g.obj = h1.obj /\ g.coll = h1.coll /\ g.work = h1.work
      /\ g.failed = h1.failed
      /\ g.link = [h1.link EXCEPT ![l] = r]
      /\ \A p, i : Unlisted(g, p, i) = Unlisted(h1, p, i)
      /\ \A p : HasColl(g, p) <=> HasColl(h1, p)
      /\ Requested(g) = Requested(h1)
      /\ Emptied(g) <=> Emptied(h1)
  BY <1>0, <1>2, <1>3, LinkSetSame
<1>6. Touches(h1, g, x) /\ (Touches(h, h1, x) => Touches(h, g, x))
  <2>1. Zero(g, x) <=> Zero(h1, x)
    BY <1>5 DEF Zero
  <2> QED
    BY <1>4, <1>5, <2>1 DEF Touches, Requests, Dropped, x
<1>7. Dropped(h, g, l, r)
  BY <1>2, <1>4, <1>5, <1>6 DEF Dropped, x
<1> QED
  BY <1>4, <1>7 DEF g, h1, r

-----------------------------------------------------------------------------
(* Following forward pointers *)

\* The collectors at the ends of the chain from c.
Ends(h, c) == {d \in ForwardChain(h, c) : h.coll[d].forward = NULL}

\* A chain leads where the next collector's leads.
LEMMA EndsNext ==
  ASSUME NEW h, Good(h), NEW c \in Collectors
  PROVE  IF h.coll[c].forward = NULL THEN Ends(h, c) = {c}
         ELSE Ends(h, c) \subseteq Ends(h, h.coll[c].forward)
<1> DEFINE f == h.coll[c].forward
<1>1. c \in ForwardChain(h, c)
  BY DEF ForwardChain
<1>2. CASE f = NULL
  <2>1. ForwardClosed(h, {c})
    BY <1>2 DEF ForwardClosed
  <2>2. ForwardChain(h, c) = {c}
    BY <1>1, <2>1 DEF ForwardChain
  <2> QED
    BY <1>2, <2>2 DEF Ends
<1>3. CASE f # NULL
  <2>1. f \in Collectors
    BY <1>3, PointedLive
  <2>2. ASSUME NEW d \in Ends(h, c), NEW S \in SUBSET Collectors,
               f \in S, ForwardClosed(h, S)
        PROVE  d \in S
    <3>1. ForwardClosed(h, S \cup {c})
      BY <2>2 DEF ForwardClosed
    <3>2. d \in S \cup {c}
      BY <3>1 DEF Ends, ForwardChain
    <3>3. d # c
      BY <1>3, HeapAssumption DEF Ends
    <3> QED
      BY <3>2, <3>3
  <2>3. ASSUME NEW d \in Ends(h, c) PROVE d \in ForwardChain(h, f)
    <3>1. d \in Collectors
      BY DEF Ends, ForwardChain
    <3> QED
      BY <2>2, <3>1 DEF ForwardChain
  <2> QED
    BY <1>3, <2>3 DEF Ends
<1> QED
  BY <1>2, <1>3

\* Two ends of a chain are the same, since there is no cycle.
LEMMA OneEnd ==
  ASSUME NEW h, Good(h), NEW c \in Collectors, NEW d \in Ends(h, c),
         NEW e \in Ends(h, c)
  PROVE  d = e
<1> DEFINE S == {b \in Collectors : \E x, y \in Ends(h, b) : x # y}
<1>1. SUFFICES ASSUME S # {} PROVE FALSE
  OBVIOUS
<1>2. PICK b \in S : h.coll[b].forward \notin S
  BY <1>1 DEF Good, CollectorsOK, Acyclic
<1>3. PICK x \in Ends(h, b), y \in Ends(h, b) : x # y
  OBVIOUS
<1>4. h.coll[b].forward # NULL
  BY <1>3, EndsNext
<1>5. /\ Ends(h, b) \subseteq Ends(h, h.coll[b].forward)
      /\ h.coll[b].forward \in Collectors
  BY <1>4, EndsNext, PointedLive
<1> QED
  BY <1>2, <1>3, <1>5

\* collector_update goes on from the next collector (collector.c:185-200).
LEMMA UpdateNext ==
  ASSUME NEW h, Good(h), NEW c \in Collectors
  PROVE  collector_update(h, c) =
           IF h.coll[c].forward = NULL THEN c
           ELSE collector_update(h, h.coll[c].forward)
<1> DEFINE f == h.coll[c].forward
<1>1. CASE f = NULL
  BY <1>1 DEF collector_update
<1>2. CASE f # NULL
  <2>1. f \in Collectors /\ h.coll[f].live /\ h.coll[c].live
    BY <1>2, PointedLive DEF Good, CollectorsOK, DeadUnused
  <2>2. collector_update(h, c) \in Ends(h, c)
    BY <2>1, UpdateCollector DEF Ends
  <2>3. collector_update(h, f) \in Ends(h, f)
    BY <2>1, UpdateCollector DEF Ends
  <2>4. collector_update(h, c) \in Ends(h, f)
    BY <1>2, <2>2, EndsNext
  <2> QED
    BY <1>2, <2>1, <2>3, <2>4, OneEnd
<1> QED
  BY <1>1, <1>2

\* Where each collector leads when forward pointers are as in h.
Leads(h, u) ==
  \A c \in Collectors :
    u[c] = IF h.coll[c].forward = NULL THEN c ELSE u[h.coll[c].forward]

\* Nothing but collector_update leads to the ends.
LEMMA UpdateLeads ==
  ASSUME NEW h, Good(h), NEW u, Leads(h, u)
  PROVE  \A c \in Collectors : collector_update(h, c) = u[c]
<1> DEFINE S == {c \in Collectors : collector_update(h, c) # u[c]}
<1>1. SUFFICES ASSUME S # {} PROVE FALSE
  OBVIOUS
<1>2. PICK c \in S : h.coll[c].forward \notin S
  BY <1>1 DEF Good, CollectorsOK, Acyclic
<1>3. CASE h.coll[c].forward = NULL
  BY <1>3, UpdateNext DEF Leads
<1>4. CASE h.coll[c].forward # NULL
  <2>1. h.coll[c].forward \in Collectors
    BY <1>4, PointedLive
  <2> QED
    BY <1>2, <1>4, <2>1, UpdateNext DEF Leads
<1> QED
  BY <1>3, <1>4

\* The ends are collectors that forward nowhere.
LEMMA UpdateEnds ==
  ASSUME NEW h, Good(h), NEW c \in Collectors
  PROVE  /\ collector_update(h, c) \in Collectors
         /\ h.coll[collector_update(h, c)].forward = NULL
         /\ collector_update(h, collector_update(h, c)) = collector_update(h, c)
<1>1. CASE h.coll[c].live
  <2>1. /\ collector_update(h, c) \in Collectors
        /\ h.coll[collector_update(h, c)].forward = NULL
    BY <1>1, UpdateCollector
  <2> QED
    BY <2>1, UpdateNext
<1>2. CASE ~h.coll[c].live
  <2>1. h.coll[c].forward = NULL
    BY <1>2 DEF Good, CollectorsOK, DeadUnused
  <2>2. collector_update(h, c) = c
    BY <2>1, UpdateNext
  <2> QED
    BY <2>1, <2>2
<1> QED
  BY <1>1, <1>2

\* Forward pointers are the same in g.
SameForward(h, g) ==
  \A c \in Collectors : g.coll[c].forward = h.coll[c].forward

\* Then so are the ends.
LEMMA UpdateSame ==
  ASSUME NEW h, NEW g, Good(h), Good(g), SameForward(h, g)
  PROVE  \A c \in Collectors : collector_update(g, c) = collector_update(h, c)
<1> DEFINE u == [c \in Collectors |-> collector_update(h, c)]
<1>1. ASSUME NEW c \in Collectors
      PROVE  u[c] = IF g.coll[c].forward = NULL THEN c ELSE u[g.coll[c].forward]
  <2>1. h.coll[c].forward # NULL => h.coll[c].forward \in Collectors
    BY PointedLive
  <2> QED
    BY <2>1, UpdateNext DEF SameForward
<1>2. Leads(g, u)
  BY <1>1 DEF Leads
<1>3. \A c \in Collectors : u[c] = collector_update(h, c)
  OBVIOUS
<1> HIDE DEF u
<1> QED
  BY <1>2, <1>3, UpdateLeads

\* After a merge what led to s leads to t.
LEMMA UpdateMerged ==
  ASSUME NEW h, NEW g, Good(h), Good(g), NEW s \in Collectors,
         NEW t \in Collectors, s # t,
         h.coll[s].forward = NULL, h.coll[t].forward = NULL,
         \A c \in Collectors :
           g.coll[c].forward = IF c = s THEN t ELSE h.coll[c].forward
  PROVE  \A c \in Collectors :
           collector_update(g, c) = IF collector_update(h, c) = s THEN t
                                    ELSE collector_update(h, c)
<1> DEFINE v(c) == IF collector_update(h, c) = s THEN t ELSE collector_update(h, c)
           u == [c \in Collectors |-> v(c)]
<1>0. NULL \notin Collectors
  BY HeapAssumption
<1>1. collector_update(h, s) = s /\ collector_update(h, t) = t
  BY UpdateNext
<1>2. ASSUME NEW c \in Collectors
      PROVE  u[c] = IF g.coll[c].forward = NULL THEN c ELSE u[g.coll[c].forward]
  <2>1. h.coll[c].forward # NULL => h.coll[c].forward \in Collectors
    BY PointedLive
  <2>2. CASE c = s
    BY <1>0, <1>1, <2>2
  <2>3. CASE c # s /\ h.coll[c].forward = NULL
    BY <2>3, UpdateNext
  <2>4. CASE c # s /\ h.coll[c].forward # NULL
    BY <2>1, <2>4, UpdateNext
  <2> QED
    BY <2>2, <2>3, <2>4
<1>3. Leads(g, u)
  BY <1>2 DEF Leads
<1>4. \A c \in Collectors : u[c] = v(c)
  OBVIOUS
<1> HIDE DEF u
<1> QED
  BY <1>3, <1>4, UpdateLeads

-----------------------------------------------------------------------------
(* Owners: what a call does to who owns and lists an object *)

\* Chains from a and b lead to the same collector.
Together(h, a, b) == collector_update(h, a) = collector_update(h, b)

\* What o points to and c lead to the same collector.
Owner(h, o, c) ==
  /\ h.obj[o].collector # NULL
  /\ Together(h, h.obj[o].collector, c)

\* o is in list q.
In(q, o) == \E i \in DOMAIN q : q[i] = o

\* o is in one of the lists ls that count.
InLists(ls, o) == \E n \in ListNames \ {"rebuild_list"} : In(ls[n], o)

\* o is in a list of c that counts.
ListedBy(h, o, c) == InLists(h.coll[c].lists, o)

\* Collectors that lead together do not part, and objects, but for those of
\* X, stay with theirs and are listed anew only by these.
Stays(h, g, X) ==
  /\ \A a, b \in Collectors : Together(h, a, b) => Together(g, a, b)
  /\ \A o \in Objects \ X :
       h.obj[o].collector # NULL => Owner(g, o, h.obj[o].collector)
  /\ \A o \in Objects \ X, c \in Collectors :
       ListedBy(g, o, c) =>
         \/ Owner(g, o, c)
         \/ \E d \in Collectors : ListedBy(h, o, d) /\ Together(g, d, c)

\* Only x may leave its collector, with its last phantom count.
Loses(h, g, x) ==
  \/ Stays(h, g, {})
  \/ Stays(h, g, {x}) /\ g.obj[x].count[Phantom] = 0

\* Leading together is an equivalence.
LEMMA TogetherEquiv ==
  ASSUME NEW h
  PROVE  /\ \A a : Together(h, a, a)
         /\ \A a, b : Together(h, a, b) => Together(h, b, a)
         /\ \A a, b, c : Together(h, a, b) /\ Together(h, b, c) => Together(h, a, c)
BY DEF Together

\* The parts of a call may be looked at one after the other.
LEMMA StaysTrans ==
  ASSUME NEW h, NEW g, NEW k, NEW X, Good(h), Good(g),
         Stays(h, g, X), Stays(g, k, X)
  PROVE  Stays(h, k, X)
<1>1. ASSUME NEW a \in Collectors, NEW b \in Collectors, Together(h, a, b)
      PROVE  Together(k, a, b)
  BY <1>1 DEF Stays
<1>2. ASSUME NEW o \in Objects \ X, NEW c \in Collectors, Owner(g, o, c)
      PROVE  Owner(k, o, c)
  <2>1. /\ g.obj[o].collector \in Collectors
        /\ Owner(k, o, g.obj[o].collector)
    BY <1>2, PointedLive DEF Owner, Stays
  <2>2. Together(k, g.obj[o].collector, c)
    BY <1>2, <2>1 DEF Owner, Stays
  <2> QED
    BY <2>1, <2>2, TogetherEquiv DEF Owner
<1>3. ASSUME NEW o \in Objects \ X, h.obj[o].collector # NULL
      PROVE  Owner(k, o, h.obj[o].collector)
  <2>1. h.obj[o].collector \in Collectors
    BY <1>3, PointedLive
  <2>2. Owner(g, o, h.obj[o].collector)
    BY <1>3 DEF Stays
  <2> QED
    BY <1>2, <2>1, <2>2
<1>4. ASSUME NEW o \in Objects \ X, NEW c \in Collectors, ListedBy(k, o, c),
             ~Owner(k, o, c)
      PROVE  \E d \in Collectors : ListedBy(h, o, d) /\ Together(k, d, c)
  <2>1. PICK e \in Collectors : ListedBy(g, o, e) /\ Together(k, e, c)
    BY <1>4 DEF Stays
  <2>2. ~Owner(g, o, e)
    BY <1>2, <1>4, <2>1, TogetherEquiv DEF Owner
  <2>3. PICK d \in Collectors : ListedBy(h, o, d) /\ Together(g, d, e)
    BY <2>1, <2>2 DEF Stays
  <2>4. Together(k, d, e)
    BY <2>3 DEF Stays
  <2> QED
    BY <2>1, <2>3, <2>4, TogetherEquiv
<1> QED
  BY <1>1, <1>3, <1>4 DEF Stays

\* What all objects do, all but some do.
LEMMA StaysBut ==
  ASSUME NEW h, NEW g, NEW X, Stays(h, g, {})
  PROVE  Stays(h, g, X)
BY DEF Stays

\* A call that leaves forward pointers alone, and lists objects and moves them
\* to collectors only where theirs lead.
LEMMA StaysFrame ==
  ASSUME NEW h, NEW g, NEW X, Good(h), Good(g), SameForward(h, g),
         \A o \in Objects \ X : h.obj[o].collector # NULL =>
           g.obj[o].collector = h.obj[o].collector
             \/ Owner(g, o, h.obj[o].collector),
         \A o \in Objects \ X, c \in Collectors :
           ListedBy(g, o, c) => ListedBy(h, o, c) \/ Owner(g, o, c)
  PROVE  Stays(h, g, X)
<1>1. \A c \in Collectors : collector_update(g, c) = collector_update(h, c)
  BY UpdateSame
<1>2. \A a, b \in Collectors : Together(h, a, b) => Together(g, a, b)
  BY <1>1 DEF Together
<1>3. ASSUME NEW o \in Objects \ X, h.obj[o].collector # NULL
      PROVE  Owner(g, o, h.obj[o].collector)
  BY <1>3, TogetherEquiv DEF Owner
<1> QED
  BY <1>2, <1>3, TogetherEquiv DEF Stays

\* Nothing that lists or pointers to collectors say changes.
SameOwners(h, g) ==
  /\ \A o \in Objects : g.obj[o].collector = h.obj[o].collector
  /\ \A c \in Collectors : /\ g.coll[c].forward = h.coll[c].forward
                           /\ g.coll[c].lists = h.coll[c].lists

\* Nor does anybody's owner then.
LEMMA SameStays ==
  ASSUME NEW h, NEW g, NEW X, Good(h), Good(g), SameOwners(h, g)
  PROVE  Stays(h, g, X)
<1>1. SameForward(h, g)
  BY DEF SameOwners, SameForward
<1>2. \A o, c : c \in Collectors /\ ListedBy(g, o, c) => ListedBy(h, o, c)
  BY DEF SameOwners, ListedBy
<1>3. \A o \in Objects \ X : g.obj[o].collector = h.obj[o].collector
  BY DEF SameOwners
<1> QED
  BY <1>1, <1>2, <1>3, StaysFrame

\* What is in a list after an element is added, or the first one taken away.
LEMMA InSeq ==
  ASSUME NEW K, NEW q \in Seq(K), NEW x \in K, NEW o
  PROVE  /\ In(Append(q, x), o) => In(q, o) \/ o = x
         /\ q # <<>> /\ In(Tail(q), o) => In(q, o)
<1>1. ASSUME In(Append(q, x), o) PROVE In(q, o) \/ o = x
  <2>1. PICK i \in DOMAIN Append(q, x) : Append(q, x)[i] = o
    BY <1>1 DEF In
  <2>2. /\ i \in 1 .. Len(q) + 1
        /\ Append(q, x)[i] = IF i = Len(q) + 1 THEN x ELSE q[i]
    BY <2>1, AppendProperties
  <2>3. i # Len(q) + 1 => i \in DOMAIN q
    BY <2>2
  <2> QED
    BY <2>1, <2>2, <2>3 DEF In
<1>2. ASSUME q # <<>>, In(Tail(q), o) PROVE In(q, o)
  <2>1. PICK i \in DOMAIN Tail(q) : Tail(q)[i] = o
    BY <1>2 DEF In
  <2>2. i + 1 \in DOMAIN q /\ Tail(q)[i] = q[i + 1]
    BY <1>2, <2>1, HeadTailProperties
  <2> QED
    BY <2>1, <2>2 DEF In
<1> QED
  BY <1>1, <1>2

\* An assertion moves nobody.
LEMMA AssertStays ==
  ASSUME NEW h, Good(h), NEW P, NEW what \in Failures, NEW X
  PROVE  LET g == assert(h, P, what)
         IN  /\ Stays(h, g, X) /\ Keeps(h, g)
             /\ g.obj = h.obj /\ g.coll = h.coll /\ g.link = h.link
<1> DEFINE g == assert(h, P, what)
<1>1. SameBut(h, g)
  BY AssertSame
<1> HIDE DEF g
<1>2. Good(g) /\ SameOwners(h, g)
  BY <1>1 DEF SameBut, Keeps, SameOwners
<1>3. Stays(h, g, X)
  BY <1>2, SameStays
<1> QED
  BY <1>1, <1>3 DEF g, SameBut

\* Nor does a change to a count (object.c:120-168).
LEMMA CountStays ==
  ASSUME NEW h, Good(h), NEW o \in Objects, NEW w \in 0..2, NEW v \in Int, NEW X
  PROVE  LET g == [h EXCEPT !.obj[o].count[w] = v]
         IN  Stays(h, g, X) /\ Keeps(h, g) /\ SameNodes(h, g) /\ g.coll = h.coll
<1> DEFINE g == [h EXCEPT !.obj[o].count[w] = v]
<1>1. Keeps(h, g) /\ SameNodes(h, g) /\ g.coll = h.coll
  BY CountUpdate
<1> HIDE DEF g
<1>2. Good(g) /\ SameOwners(h, g)
  BY <1>1 DEF Keeps, SameOwners, SameNodes
<1>3. Stays(h, g, X)
  BY <1>2, SameStays
<1> QED
  BY <1>1, <1>3 DEF g

\* Nor does a task that is queued (task.c:34-38).
LEMMA StartTaskStays ==
  ASSUME NEW h, Good(h), NEW run, NEW arg,
         [run |-> run, arg |-> arg] \in KnownTask(h), NEW X
  PROVE  LET g == task_start(h, run, arg)
         IN  Stays(h, g, X) /\ Keeps(h, g) /\ g.obj = h.obj
<1> DEFINE g == task_start(h, run, arg)
<1>1. Keeps(h, g) /\ g.obj = h.obj /\ g.coll = h.coll
  BY StartTask
<1> HIDE DEF g
<1>2. Good(g) /\ SameOwners(h, g)
  BY <1>1 DEF Keeps, SameOwners
<1>3. Stays(h, g, X)
  BY <1>2, SameStays
<1> QED
  BY <1>1, <1>3 DEF g

\* object_set_collector lets an object stay where its collector leads, or
\* gives it its first one (object.c:25-37).
LEMMA SetCollectorStays ==
  ASSUME NEW h, Good(h), NEW o \in Objects, NEW c \in Collectors \cup {NULL},
         c # NULL => h.coll[c].live /\ o \in Known(h), NEW X,
         \/ o \in X
         \/ h.obj[o].collector = NULL
         \/ c # NULL /\ Together(h, c, h.obj[o].collector)
  PROVE  LET g == object_set_collector(h, o, c)
         IN  /\ Stays(h, g, X) /\ CollectorSet(h, o, c, g)
             /\ g.obj[o].collector = c
<1> DEFINE g == object_set_collector(h, o, c)
<1>1. CollectorSet(h, o, c, g)
  BY SetCollector
<1> HIDE DEF g
<1>2. Good(g) /\ SameForward(h, g)
  BY <1>1 DEF CollectorSet, SameForward
<1>3. /\ g.obj[o].collector = c
      /\ \A p \in Objects \ {o} : g.obj[p].collector = h.obj[p].collector
  BY <1>1 DEF CollectorSet, Good, HeapType, Object
<1>4. \A p, d : d \in Collectors /\ ListedBy(g, p, d) => ListedBy(h, p, d)
  BY <1>1 DEF CollectorSet, ListedBy
<1>5. \A d \in Collectors : collector_update(g, d) = collector_update(h, d)
  BY <1>2, UpdateSame
<1>6. ASSUME NEW p \in Objects \ X, h.obj[p].collector # NULL
      PROVE  \/ g.obj[p].collector = h.obj[p].collector
             \/ Owner(g, p, h.obj[p].collector)
  <2>1. h.obj[p].collector \in Collectors
    BY <1>6, PointedLive
  <2>2. CASE p = o
    <3>1. c # NULL /\ Together(h, c, h.obj[o].collector)
      BY <1>6, <2>2
    <3>2. Together(g, c, h.obj[o].collector)
      BY <1>5, <2>1, <2>2, <3>1 DEF Together
    <3> QED
      BY <1>3, <2>2, <3>1, <3>2 DEF Owner
  <2> QED
    BY <1>3, <2>2
<1>7. Stays(h, g, X)
  BY <1>2, <1>4, <1>6, StaysFrame
<1> QED
  BY <1>1, <1>3, <1>7 DEF g

\* A collector that is created owns and lists nobody, and the object that is
\* given it had none (object.c:129-133).
LEMMA StartCollectorStays ==
  ASSUME NEW h, Good(h), NEW o \in Known(h), CanCreate(h),
         h.obj[o].collector = NULL, NEW X
  PROVE  LET g == StartCollector(h, o)
         IN  /\ Stays(h, g, X) /\ Good(g) /\ SameUsed(h, g)
             /\ g.obj[o].collector \in Collectors
<1> DEFINE c == FreshCollector(h)
           h1 == collector_create(h, c)
           h2 == object_set_collector(h1, o, c)
           h3 == task_start(h2, "collector_run", c)
<1>1. c \in Collectors /\ ~h.coll[c].live /\ o \in Objects
  BY DEF CanCreate, FreshCollector, Known
<1>2. StartCollector(h, o) = h3
  BY DEF StartCollector
<1> HIDE DEF c
<1>3. h.coll[c].ref_count = 0 /\ h.coll[c].forward = NULL
  BY <1>1 DEF Good, CollectorsOK, DeadUnused
<1>4. /\ Good(h1) /\ SameUsed(h, h1) /\ h1.coll[c].live
      /\ h1.obj = h.obj
      /\ \A d \in Collectors \ {c} : h1.coll[d] = h.coll[d]
  BY <1>1, <1>3, CollectorReset DEF collector_create
<1>5. h1.coll[c].forward = NULL /\ \A n \in ListNames : h1.coll[c].lists[n] = <<>>
  BY <1>1 DEF collector_create, NoCollector, Good, HeapType
<1> HIDE DEF h1
<1>6. Stays(h, h1, X)
  <2>1. SameForward(h, h1)
    BY <1>3, <1>4, <1>5 DEF SameForward
  <2>2. ASSUME NEW p, NEW d \in Collectors, ListedBy(h1, p, d)
        PROVE  ListedBy(h, p, d)
    <3>1. d # c
      BY <1>5, <2>2 DEF ListedBy, InLists, In
    <3> QED
      BY <1>4, <2>2, <3>1 DEF ListedBy
  <2> QED
    BY <1>4, <2>1, <2>2, StaysFrame
<1>7. /\ Stays(h1, h2, X) /\ Good(h2) /\ SameUsed(h1, h2)
      /\ h2.obj[o].collector = c
  <2>1. o \in Known(h1) /\ h1.obj[o].collector = NULL
    BY <1>4 DEF SameUsed
  <2>2. Stays(h1, h2, X) /\ CollectorSet(h1, o, c, h2) /\ h2.obj[o].collector = c
    BY <1>1, <1>4, <2>1, SetCollectorStays
  <2> QED
    BY <2>2 DEF CollectorSet
<1> HIDE DEF h2
<1>8. [run |-> "collector_run", arg |-> c] \in KnownTask(h2)
  BY <1>1 DEF KnownTask
<1>9. Stays(h2, h3, X) /\ Keeps(h2, h3) /\ h3.obj = h2.obj
  BY <1>7, <1>8, StartTaskStays
<1> HIDE DEF h3
<1>10. Stays(h, h2, X)
  BY <1>4, <1>6, <1>7, StaysTrans
<1>11. Stays(h, h3, X)
  BY <1>7, <1>9, <1>10, StaysTrans
<1> QED
  BY <1>1, <1>2, <1>4, <1>7, <1>9, <1>11 DEF Keeps, SameUsed

\* Writing the lists of a collector moves nobody who is not listed anew
\* (safelist.c:18-58).
LEMMA ListsStay ==
  ASSUME NEW h, Good(h), NEW c \in Collectors,
         NEW ls \in [ListNames -> Seq(Known(h))], NEW X,
         \A o \in Objects \ X :
           InLists(ls, o) => ListedBy(h, o, c) \/ Owner(h, o, c)
  PROVE  LET g == [h EXCEPT !.coll[c].lists = ls]
         IN  /\ Stays(h, g, X) /\ Keeps(h, g)
             /\ g.obj = h.obj
             /\ \A d \in Collectors : g.coll[d].forward = h.coll[d].forward
<1> DEFINE g == [h EXCEPT !.coll[c].lists = ls]
<1>1. /\ Keeps(h, g) /\ g.obj = h.obj /\ g.coll[c].lists = ls
      /\ \A d \in Collectors : g.coll[d].forward = h.coll[d].forward
      /\ \A d \in Collectors \ {c} : g.coll[d] = h.coll[d]
  <2>1. ListsSet(h, g, c, ls)
    BY DEF ListsSet
  <2> HIDE DEF g
  <2>2. ListsMoved(h, g, c, ls)
    BY <2>1, ListsChange
  <2> QED
    BY <2>2 DEF ListsMoved
<1> HIDE DEF g
<1>2. Good(g) /\ SameForward(h, g)
  BY <1>1 DEF Keeps, SameForward
<1>3. \A d \in Collectors : collector_update(g, d) = collector_update(h, d)
  BY <1>2, UpdateSame
<1>4. ASSUME NEW o \in Objects \ X, NEW d \in Collectors, ListedBy(g, o, d)
      PROVE  ListedBy(h, o, d) \/ Owner(g, o, d)
  <2>1. CASE d = c
    <3>1. ListedBy(h, o, c) \/ Owner(h, o, c)
      BY <1>1, <1>4, <2>1 DEF ListedBy
    <3>2. h.obj[o].collector # NULL => h.obj[o].collector \in Collectors
      BY PointedLive
    <3>3. Owner(h, o, c) => Owner(g, o, c)
      BY <1>1, <1>3, <3>2 DEF Owner, Together
    <3> QED
      BY <2>1, <3>1, <3>3
  <2>2. CASE d # c
    BY <1>1, <1>4, <2>2 DEF ListedBy
  <2> QED
    BY <2>1, <2>2
<1>5. Stays(h, g, X)
  BY <1>1, <1>2, <1>4, StaysFrame
<1> QED
  BY <1>1, <1>5 DEF g

\* An object that is added to a list that counts is one of the collector's,
\* and so are the others.
LEMMA AppendStays ==
  ASSUME NEW h, Good(h), NEW c \in Collectors, NEW n \in ListNames,
         NEW o \in Known(h), n = "rebuild_list" \/ Owner(h, o, c), NEW X,
         NEW g, Added(h, g, c, n, o)
  PROVE  Stays(h, g, X) /\ Keeps(h, g) /\ g.obj = h.obj
<1> DEFINE ls == [h.coll[c].lists EXCEPT ![n] = Append(@, o)]
           k  == [h EXCEPT !.coll[c].lists = ls]
<1>1. h.coll[c].lists \in [ListNames -> Seq(Known(h))]
  BY DEF Good, UsedOK, ListsOK
<1>2. ls \in [ListNames -> Seq(Known(h))]
  BY <1>1, AppendToList
<1>3. ASSUME NEW p \in Objects, InLists(ls, p)
      PROVE  ListedBy(h, p, c) \/ Owner(h, p, c)
  <2>1. PICK m \in ListNames \ {"rebuild_list"} : In(ls[m], p)
    BY <1>3 DEF InLists
  <2>2. CASE m = n
    <3>1. h.coll[c].lists[n] \in Seq(Known(h)) /\ ls[n] = Append(h.coll[c].lists[n], o)
      BY <1>1
    <3>2. In(h.coll[c].lists[n], p) \/ p = o
      BY <2>1, <2>2, <3>1, InSeq
    <3> QED
      BY <2>1, <2>2, <3>2 DEF ListedBy, InLists
  <2>3. CASE m # n
    <3>1. ls[m] = h.coll[c].lists[m]
      BY <1>1, <2>3
    <3> QED
      BY <2>1, <3>1 DEF ListedBy, InLists
  <2> QED
    BY <2>2, <2>3
<1> HIDE DEF ls
<1>4. Stays(h, k, X) /\ Keeps(h, k) /\ k.obj = h.obj
  BY <1>2, <1>3, ListsStay
<1>5. g = k
  BY DEF Added, ls
<1> QED
  BY <1>4, <1>5

-----------------------------------------------------------------------------
(* Owners: the functions of collector.c, object.c and link.c *)

\* collector_add_object lists the object with the collector that its own
\* leads to, and points it there (collector.c:60-81).
LEMMA AddObjectStays ==
  ASSUME NEW h, Good(h), NEW o \in Known(h), NEW c \in Collectors,
         h.obj[o].collector = c, NEW X
  PROVE  LET g == collector_add_object(h, c, o)
         IN  Stays(h, g, X) /\ Good(g)
<1> DEFINE add_to == collector_update(h, c)
           w  == h.obj[o].which
           h1 == [h EXCEPT !.obj[o].count[w] = @ + 1]
           h2 == [h1 EXCEPT !.obj[o].count[Phantom] = @ + 1]
           h3 == [h2 EXCEPT !.coll[add_to].lists["collect"] = Append(@, o)]
           h4 == object_set_collector(h3, o, add_to)
<1>0. o \in Objects /\ h.coll[c].live /\ NULL \notin Collectors
  BY PointedLive, HeapAssumption DEF Known
<1>1. add_to \in Collectors /\ h.coll[add_to].live
  BY <1>0, UpdateCollector
<1>2. collector_add_object(h, c, o) = h4
  BY DEF collector_add_object
<1>3. Together(h, c, add_to)
  BY UpdateEnds DEF Together
<1> HIDE DEF add_to
<1>4. w \in 0..2 /\ h.obj[o].count[w] + 1 \in Int
  BY <1>0, CountsInt
<1>5. Stays(h, h1, X) /\ Keeps(h, h1) /\ SameNodes(h, h1) /\ h1.coll = h.coll
  BY <1>0, <1>4, CountStays
<1> HIDE DEF h1
<1>6. Good(h1) /\ Phantom \in 0..2 /\ h1.obj[o].count[Phantom] + 1 \in Int
  BY <1>0, <1>5, CountsInt DEF Keeps
<1>7. Stays(h1, h2, X) /\ Keeps(h1, h2) /\ SameNodes(h1, h2) /\ h2.coll = h1.coll
  <2>1. Stays(h1, h2, X) /\ Keeps(h1, h2) /\ SameNodes(h1, h2)
    BY <1>0, <1>6, CountStays
  <2>2. h2.coll = h1.coll
    BY <1>6 DEF Good, HeapType
  <2> QED
    BY <2>1, <2>2
<1> HIDE DEF h2
<1>8. /\ Stays(h, h2, X) /\ Keeps(h, h2) /\ Good(h2)
      /\ h2.obj[o].collector = c /\ o \in Known(h2)
  <2>1. Keeps(h, h2) /\ h2.obj[o].collector = c
    BY <1>0, <1>5, <1>7, KeepsTrans DEF SameNodes
  <2>2. Good(h2) /\ o \in Known(h2)
    BY <2>1 DEF Keeps, SameUsed
  <2>3. Stays(h, h2, X)
    BY <1>5, <1>6, <1>7, StaysTrans
  <2> QED
    BY <2>1, <2>2, <2>3
<1>9. Owner(h2, o, add_to) /\ "collect" \in ListNames
  <2>1. Together(h2, c, add_to)
    BY <1>1, <1>3, <1>8 DEF Stays
  <2> QED
    BY <1>0, <1>8, <2>1 DEF Owner, ListNames
<1>10. Stays(h2, h3, X) /\ Keeps(h2, h3) /\ h3.obj = h2.obj
  <2>1. Added(h2, h3, add_to, "collect", o)
    BY DEF Added
  <2> HIDE DEF h3
  <2> QED
    BY <1>1, <1>8, <1>9, <2>1, AppendStays
<1> HIDE DEF h3
<1>11. /\ Good(h3) /\ o \in Known(h3) /\ h3.coll[add_to].live
       /\ h3.obj[o].collector = c
  BY <1>1, <1>8, <1>10 DEF Keeps, SameUsed
<1>12. Together(h3, add_to, c)
  <2>1. Together(h2, c, add_to)
    BY <1>1, <1>3, <1>8 DEF Stays
  <2>2. Together(h3, c, add_to)
    BY <1>1, <1>10, <2>1 DEF Stays
  <2> QED
    BY <2>2, TogetherEquiv
<1>13. Stays(h3, h4, X) /\ CollectorSet(h3, o, add_to, h4)
  <2>1. /\ add_to \in Collectors \cup {NULL} /\ add_to # NULL
        /\ Together(h3, add_to, h3.obj[o].collector)
    BY <1>0, <1>1, <1>11, <1>12
  <2> QED
    BY <1>0, <1>11, <2>1, SetCollectorStays
<1> HIDE DEF h4
<1>14. Good(h4) /\ Stays(h, h3, X)
  BY <1>8, <1>10, <1>13, StaysTrans DEF CollectorSet
<1> QED
  BY <1>2, <1>11, <1>13, <1>14, StaysTrans

\* object_dec may give the object its first collector, and list it there
\* (object.c:120-138).
LEMMA ObjectDecStays ==
  ASSUME NEW h, Good(h), NEW o \in Known(h), NEW w \in 0..2, CanCreate(h), NEW X
  PROVE  Stays(h, object_dec(h, o, w), X)
<1> DEFINE h1 == [h EXCEPT !.obj[o].count[w] = @ - 1]
           P  == h1.obj[o].count[w] >= 0
           h2 == assert(h1, P, "object_dec:123")
           h3 == IF h2.obj[o].collector = NULL THEN StartCollector(h2, o) ELSE h2
           g2 == object_request_delete(h2, o)
           c  == h3.obj[o].collector
           g3 == collector_add_object(h3, c, o)
<1>1. object_dec(h, o, w) \in {h2, g2, g3}
  BY DEF object_dec
<1>0. o \in Objects
  BY DEF Known
<1>2. Stays(h, h1, X) /\ Keeps(h, h1) /\ Good(h1)
  <2>1. h.obj[o].count[w] - 1 \in Int
    BY <1>0, CountsInt
  <2>2. Stays(h, h1, X) /\ Keeps(h, h1)
    BY <1>0, <2>1, CountStays
  <2> QED
    BY <2>2 DEF Keeps
<1> HIDE DEF h1
<1> HIDE DEF P
<1>3. Stays(h1, h2, X) /\ Keeps(h1, h2) /\ Good(h2)
  <2>1. "object_dec:123" \in Failures
    BY DEF Failures
  <2>2. Stays(h1, h2, X) /\ Keeps(h1, h2)
    BY <1>2, <2>1, AssertStays
  <2> QED
    BY <2>2 DEF Keeps
<1> HIDE DEF h2
<1>4. Stays(h, h2, X) /\ CanCreate(h2) /\ o \in Known(h2)
  <2>1. Stays(h, h2, X)
    BY <1>2, <1>3, StaysTrans
  <2> QED
    BY <1>2, <1>3, <2>1 DEF Keeps, CanCreate, SameUsed
<1>5. Stays(h2, h3, X) /\ Good(h3) /\ SameUsed(h2, h3) /\ c \in Collectors
  <2>1. CASE h2.obj[o].collector = NULL
    BY <1>3, <1>4, <2>1, StartCollectorStays
  <2>2. CASE h2.obj[o].collector # NULL
    <3>1. h3 = h2 /\ h2.obj[o].collector \in Collectors
      BY <1>0, <1>3, <2>2, PointedLive
    <3>2. SameOwners(h2, h2) /\ SameUsed(h2, h2)
      BY DEF SameOwners, SameUsed
    <3>3. Stays(h2, h2, X)
      BY <1>3, <3>2, SameStays
    <3> QED
      BY <1>3, <3>1, <3>2, <3>3
  <2> QED
    BY <2>1, <2>2
<1>6. o \in Known(h3)
  BY <1>4, <1>5 DEF SameUsed
<1>7. h3.obj[o].collector = c
  OBVIOUS
<1> HIDE DEF h3, c
<1>8. Stays(h3, g3, X) /\ Good(g3)
  BY <1>5, <1>6, <1>7, AddObjectStays
<1>9. Stays(h2, g2, X)
  <2>1. [run |-> "request_delete", arg |-> o] \in KnownTask(h2)
    BY <1>4 DEF KnownTask
  <2>2. g2 = task_start(h2, "request_delete", o)
    BY DEF object_request_delete
  <2> QED
    BY <1>3, <2>1, <2>2, StartTaskStays
<1> HIDE DEF g2, g3
<1>10. Stays(h, h3, X)
  BY <1>3, <1>4, <1>5, StaysTrans
<1>11. Stays(h, g3, X) /\ Stays(h, g2, X)
  BY <1>3, <1>4, <1>5, <1>8, <1>9, <1>10, StaysTrans
<1> QED
  BY <1>1, <1>4, <1>11

\* What is in two lists one after the other is in one of them.
LEMMA ConcatIn ==
  ASSUME NEW K, NEW p \in Seq(K), NEW q \in Seq(K)
  PROVE  \A o : In(p \o q, o) => In(p, o) \/ In(q, o)
<1>1. ASSUME NEW o, In(p \o q, o) PROVE In(p, o) \/ In(q, o)
  <2>1. PICK i \in DOMAIN (p \o q) : (p \o q)[i] = o
    BY <1>1 DEF In
  <2>2. /\ i \in 1 .. Len(p) + Len(q)
        /\ (p \o q)[i] = IF i <= Len(p) THEN p[i] ELSE q[i - Len(p)]
    BY <2>1, ConcatProperties
  <2>3. CASE i <= Len(p)
    <3>1. i \in DOMAIN p
      BY <2>2, <2>3
    <3> QED
      BY <2>1, <2>2, <2>3, <3>1 DEF In
  <2>4. CASE ~(i <= Len(p))
    <3>1. i - Len(p) \in DOMAIN q
      BY <2>2, <2>4
    <3> QED
      BY <2>1, <2>2, <2>4, <3>1 DEF In
  <2> QED
    BY <2>3, <2>4
<1> QED
  BY <1>1

\* Where nobody leaves, x does not.
LEMMA StaysLoses ==
  ASSUME NEW h, NEW g, NEW x, Stays(h, g, {})
  PROVE  Loses(h, g, x) /\ Stays(h, g, {x})
BY StaysBut DEF Loses

\* object_dec_phantom takes an object from its collector with its last
\* phantom count (object.c:140-160).
LEMMA DecPhantomLoses ==
  ASSUME NEW h, Good(h), NEW o \in Known(h)
  PROVE  Loses(h, object_dec_phantom(h, o), o)
<1> DEFINE h1 == [h EXCEPT !.obj[o].count[Phantom] = @ - 1]
           P  == h1.obj[o].count[Phantom] >= 0
           h2 == assert(h1, P, "object_dec_phantom:150")
           g2 == object_request_delete(h2, o)
           g3 == object_set_collector(h2, o, NULL)
<1>1. \/ object_dec_phantom(h, o) \in {h2, g2}
      \/ object_dec_phantom(h, o) = g3 /\ h2.obj[o].count[Phantom] = 0
  BY DEF object_dec_phantom
<1>0. o \in Objects
  BY DEF Known
<1>2. Stays(h, h1, {}) /\ Stays(h, h1, {o}) /\ Keeps(h, h1) /\ Good(h1)
  <2>1. Phantom \in 0..2 /\ h.obj[o].count[Phantom] - 1 \in Int
    BY <1>0, CountsInt
  <2>2. Stays(h, h1, {}) /\ Keeps(h, h1)
    BY <1>0, <2>1, CountStays
  <2> HIDE DEF h1
  <2> QED
    BY <2>2, StaysBut DEF Keeps
<1> HIDE DEF h1
<1> HIDE DEF P
<1>3. Stays(h1, h2, {}) /\ Keeps(h1, h2) /\ Good(h2)
  <2>1. "object_dec_phantom:150" \in Failures
    BY DEF Failures
  <2>2. Stays(h1, h2, {}) /\ Keeps(h1, h2)
    BY <1>2, <2>1, AssertStays
  <2> QED
    BY <2>2 DEF Keeps
<1> HIDE DEF h2
<1>4. Stays(h, h2, {}) /\ Stays(h, h2, {o}) /\ o \in Known(h2)
  <2>1. Stays(h, h2, {})
    BY <1>2, <1>3, StaysTrans
  <2> QED
    BY <1>2, <1>3, <2>1, StaysBut DEF Keeps, SameUsed
<1>5. Stays(h2, g2, {})
  <2>1. [run |-> "request_delete", arg |-> o] \in KnownTask(h2)
    BY <1>4 DEF KnownTask
  <2>2. g2 = task_start(h2, "request_delete", o)
    BY DEF object_request_delete
  <2> QED
    BY <1>3, <2>1, <2>2, StartTaskStays
<1>6. Stays(h2, g3, {o}) /\ CollectorSet(h2, o, NULL, g3)
  <2>1. NULL \in Collectors \cup {NULL} /\ o \in {o}
    OBVIOUS
  <2> QED
    BY <1>0, <1>3, <2>1, SetCollectorStays
<1> HIDE DEF g2, g3
<1>7. g3.obj[o].count = h2.obj[o].count
  BY <1>0, <1>3, <1>6 DEF CollectorSet, Good, HeapType, Object
<1>8. Stays(h, g2, {}) /\ Stays(h, g3, {o})
  BY <1>3, <1>4, <1>5, <1>6, StaysTrans
<1>9. Loses(h, h2, o) /\ Loses(h, g2, o)
  BY <1>4, <1>8, StaysLoses
<1>10. h2.obj[o].count[Phantom] = 0 => Loses(h, g3, o)
  BY <1>7, <1>8 DEF Loses
<1> QED
  BY <1>1, <1>9, <1>10

\* So does link_dec, for the target of a phantom link (link.c:55-66).
LEMMA LinkDecLoses ==
  ASSUME NEW h, Good(h), NEW l \in Allocated(h), CanCreate(h)
  PROVE  /\ Loses(h, link_dec(h, l), h.link[l].target)
         /\ ~h.link[l].phantomized => Stays(h, link_dec(h, l), {})
<1>1. /\ h.link[l].target \in Known(h) /\ h.link[l].which \in 0..2
  BY DEF Good, UsedOK, LinksOK, HeapType, Link, Bits, Allocated
<1>2. CASE h.link[l].phantomized
  <2>1. Loses(h, object_dec_phantom(h, h.link[l].target), h.link[l].target)
    BY <1>1, DecPhantomLoses
  <2> QED
    BY <1>2, <2>1 DEF link_dec
<1>3. CASE ~h.link[l].phantomized
  <2>1. Stays(h, object_dec(h, h.link[l].target, h.link[l].which), {})
    BY <1>1, ObjectDecStays
  <2>2. link_dec(h, l) = object_dec(h, h.link[l].target, h.link[l].which)
    BY <1>3 DEF link_dec
  <2> QED
    BY <2>1, <2>2, StaysLoses
<1> QED
  BY <1>2, <1>3

\* collector_merge leads the owner and the lists of s to t at once
\* (collector.c:139-161).
LEMMA MergeStays ==
  ASSUME NEW h, Good(h), NEW t \in Collectors, NEW s \in Collectors,
         t # s, h.coll[t].live, h.coll[s].live,
         h.coll[t].forward = NULL, h.coll[s].forward = NULL, NEW X
  PROVE  LET g == collector_merge(h, t, s)
         IN  /\ Stays(h, g, X) /\ Keeps(h, g) /\ g.obj = h.obj
             /\ g.coll[s].forward = t
<1> DEFINE from == h.coll[s].lists
           into == h.coll[t].lists
           e  == [l \in ListNames |-> <<>>]
           ls == [into EXCEPT
                    !["collect"]      = @ \o from["collect"],
                    !["merged_list"]  = @ \o from["merged_list"]
                                          \o from["clean_list"]
                                          \o from["recovery_list"],
                    !["rebuild_list"] = @ \o from["rebuild_list"]]
           h1 == [h EXCEPT !.coll[s].lists = e]
           h2 == [h1 EXCEPT !.coll[t].lists = ls]
           h3 == collector_set_forward(h2, s, t)
<1>1. collector_merge(h, t, s) = h3
  BY DEF collector_merge
<1>2. e \in [ListNames -> Seq(Known(h))] /\ \A l \in ListNames : e[l] = <<>>
  BY EmptySeq
<1> HIDE DEF e
<1>3. /\ Keeps(h, h1) /\ h1.obj = h.obj
      /\ h1.coll[s].lists = e
      /\ \A d \in Collectors \ {s} : h1.coll[d] = h.coll[d]
      /\ \A d \in Collectors : h1.coll[d].forward = h.coll[d].forward
  <2>1. ListsSet(h, h1, s, e)
    BY DEF ListsSet
  <2> HIDE DEF h1
  <2>2. ListsMoved(h, h1, s, e)
    BY <1>2, <2>1, ListsChange
  <2> QED
    BY <2>2 DEF ListsMoved
<1> HIDE DEF h1
<1>4. /\ Good(h1)
      /\ from \in [ListNames -> Seq(Known(h1))]
      /\ into \in [ListNames -> Seq(Known(h1))]
  BY <1>3 DEF Good, UsedOK, ListsOK, Keeps, SameUsed
<1> HIDE DEF from, into
<1>5. /\ ls \in [ListNames -> Seq(Known(h1))]
      /\ \A o : InLists(ls, o) => InLists(from, o) \/ InLists(into, o)
  <2> DEFINE K == Known(h1)
  <2>1. from \in [ListNames -> Seq(K)] /\ into \in [ListNames -> Seq(K)]
    BY <1>4
  <2> HIDE DEF K
  <2>2. \A l \in ListNames : from[l] \in Seq(K) /\ into[l] \in Seq(K)
    BY <2>1
  <2>3. {"collect", "rebuild_list", "merged_list", "clean_list", "recovery_list"}
          \subseteq ListNames
    BY DEF ListNames
  <2> DEFINE m1 == into["merged_list"] \o from["merged_list"]
             m2 == m1 \o from["clean_list"]
             m3 == m2 \o from["recovery_list"]
             cl == into["collect"] \o from["collect"]
             rb == into["rebuild_list"] \o from["rebuild_list"]
  <2>4. m1 \in Seq(K) /\ cl \in Seq(K) /\ rb \in Seq(K)
    BY <2>2, <2>3, ConcatProperties
  <2>5. /\ \A o : In(m1, o) => In(into["merged_list"], o) \/ In(from["merged_list"], o)
        /\ \A o : In(cl, o) => In(into["collect"], o) \/ In(from["collect"], o)
    BY <2>2, <2>3, ConcatIn
  <2> HIDE DEF m1, cl, rb
  <2>6. m2 \in Seq(K) /\ \A o : In(m2, o) => In(m1, o) \/ In(from["clean_list"], o)
    BY <2>2, <2>3, <2>4, ConcatIn, ConcatProperties
  <2> HIDE DEF m2
  <2>7. m3 \in Seq(K) /\ \A o : In(m3, o) => In(m2, o) \/ In(from["recovery_list"], o)
    BY <2>2, <2>3, <2>6, ConcatIn, ConcatProperties
  <2> HIDE DEF m3
  <2>8. ls = [into EXCEPT !["collect"] = cl, !["merged_list"] = m3,
                          !["rebuild_list"] = rb]
    BY DEF m1, m2, m3, cl, rb
  <2> HIDE DEF ls
  <2>9. ls \in [ListNames -> Seq(K)]
    BY <2>1, <2>4, <2>7, <2>8
  <2>10. /\ ls["collect"] = cl /\ ls["merged_list"] = m3
         /\ ls["clean_list"] = into["clean_list"]
         /\ ls["recovery_list"] = into["recovery_list"]
    BY <2>1, <2>3, <2>8
  <2>11. ASSUME NEW o, InLists(ls, o) PROVE InLists(from, o) \/ InLists(into, o)
    <3>1. \/ In(ls["collect"], o) \/ In(ls["merged_list"], o)
          \/ In(ls["clean_list"], o) \/ In(ls["recovery_list"], o)
      BY <2>11 DEF InLists, ListNames
    <3>2. \E n \in ListNames \ {"rebuild_list"} : In(from[n], o) \/ In(into[n], o)
      BY <2>3, <2>5, <2>6, <2>7, <2>10, <3>1
    <3> QED
      BY <3>2 DEF InLists
  <2> QED
    BY <2>9, <2>11 DEF K
<1> HIDE DEF ls
<1>6. /\ Keeps(h1, h2) /\ h2.obj = h1.obj
      /\ h2.coll[t].lists = ls
      /\ \A d \in Collectors \ {t} : h2.coll[d] = h1.coll[d]
      /\ \A d \in Collectors : h2.coll[d].forward = h1.coll[d].forward
  <2>1. ListsSet(h1, h2, t, ls)
    BY DEF ListsSet
  <2> HIDE DEF h2
  <2>2. ListsMoved(h1, h2, t, ls)
    BY <1>4, <1>5, <2>1, ListsChange
  <2> QED
    BY <2>2 DEF ListsMoved
<1> HIDE DEF h2
<1>7. /\ Good(h2) /\ h2.coll[t].live /\ h2.coll[s].live
      /\ h2.coll[t].forward = NULL /\ h2.coll[s].forward = NULL
      /\ h2.coll[s].lists = e
  BY <1>3, <1>6 DEF Keeps
<1>8. /\ Keeps(h2, h3) /\ h3.obj = h2.obj /\ h3.coll[s].forward = t
      /\ \A d \in Collectors : h3.coll[d].lists = h2.coll[d].lists
      /\ \A d \in Collectors \ {s} : h3.coll[d].forward = h2.coll[d].forward
  <2>1. t # NULL /\ store_count_zero(h2, s)
    BY <1>2, <1>7, HeapAssumption DEF store_count_zero
  <2>2. Good(h3) /\ SameUsed(h2, h3) /\ h3.coll[s].forward = t
    BY <1>7, SetForward
  <2>3. /\ h3.obj = h2.obj
        /\ \A d \in Collectors : /\ h3.coll[d].live = h2.coll[d].live
                                 /\ h3.coll[d].lists = h2.coll[d].lists
        /\ \A d \in Collectors \ {s} : h3.coll[d].forward = h2.coll[d].forward
    BY <1>7, <2>1, MildSetForward
  <2> QED
    BY <2>2, <2>3 DEF Keeps
<1> HIDE DEF h3
<1>9. Keeps(h, h3) /\ Good(h3) /\ h3.obj = h.obj
  <2>1. Keeps(h, h3)
    BY <1>3, <1>6, <1>8, KeepsTrans
  <2> QED
    BY <1>3, <1>6, <1>8, <2>1 DEF Keeps
<1>10. \A c \in Collectors :
         collector_update(h3, c) = IF collector_update(h, c) = s THEN t
                                   ELSE collector_update(h, c)
  <2>1. \A c \in Collectors :
          h3.coll[c].forward = IF c = s THEN t ELSE h.coll[c].forward
    BY <1>3, <1>6, <1>8
  <2> QED
    BY <1>9, <2>1, UpdateMerged
<1>11. \A a, b \in Collectors : Together(h, a, b) => Together(h3, a, b)
  BY <1>10 DEF Together
<1>12. \A o \in Objects \ X : h.obj[o].collector # NULL =>
         Owner(h3, o, h.obj[o].collector)
  BY <1>9, TogetherEquiv DEF Owner
<1>13. ASSUME NEW o \in Objects \ X, NEW c \in Collectors, ListedBy(h3, o, c)
       PROVE  \E d \in Collectors : ListedBy(h, o, d) /\ Together(h3, d, c)
  <2>1. CASE c = t
    <3>1. InLists(from, o) \/ InLists(into, o)
      BY <1>5, <1>6, <1>8, <1>13, <2>1 DEF ListedBy
    <3>2. ListedBy(h, o, s) \/ ListedBy(h, o, t)
      BY <3>1 DEF ListedBy, from, into
    <3>3. Together(h3, s, t) /\ Together(h3, t, t)
      <4>1. collector_update(h, s) = s /\ collector_update(h, t) = t
        BY UpdateNext
      <4> QED
        BY <1>10, <4>1 DEF Together
    <3> QED
      BY <2>1, <3>2, <3>3
  <2>2. CASE c = s
    <3>1. h3.coll[s].lists = e
      BY <1>7, <1>8
    <3>2. \A n \in ListNames : ~In(e[n], o)
      BY <1>2 DEF In
    <3> QED
      BY <1>13, <2>2, <3>1, <3>2 DEF ListedBy, InLists
  <2>3. CASE c \notin {s, t}
    <3>1. h3.coll[c].lists = h.coll[c].lists
      BY <1>3, <1>6, <1>8, <2>3
    <3> QED
      BY <1>13, <3>1, TogetherEquiv DEF ListedBy
  <2> QED
    BY <2>1, <2>2, <2>3
<1>14. Stays(h, h3, X)
  BY <1>11, <1>12, <1>13 DEF Stays
<1> QED
  BY <1>1, <1>8, <1>9, <1>14

\* The same heap moves nobody.
LEMMA SelfStays ==
  ASSUME NEW h, Good(h), NEW X
  PROVE  Stays(h, h, X)
<1>1. SameOwners(h, h)
  BY DEF SameOwners
<1> QED
  BY <1>1, SameStays

\* object_merge_collectors moves two objects to where the chains of both
\* their collectors lead from then on (object.c:343-406).
LEMMA MergeCollectorsStays ==
  ASSUME NEW h, Good(h), NEW o \in Known(h), NEW target \in Known(h), NEW X
  PROVE  Stays(h, object_merge_collectors(h, o, target), X)
<1> DEFINE s == h.obj[o].collector
           t == h.obj[target].collector
           S == collector_update(h, s)
           T == collector_update(h, t)
           h1 == IF S = T THEN h ELSE collector_merge(h, T, S)
           g1 == object_set_collector(h, target, s)
           g2 == object_set_collector(h, o, t)
           g3 == object_set_collector(h1, target, T)
           g4 == object_set_collector(g3, o, T)
<1>1. /\ s # NULL => s \in Collectors /\ h.coll[s].live
      /\ t # NULL => t \in Collectors /\ h.coll[t].live
      /\ o \in Objects /\ target \in Objects /\ NULL \notin Collectors
  BY PointedLive, HeapAssumption DEF Known
<1>2. CASE s = t
  <2>1. object_merge_collectors(h, o, target) = h
    BY <1>2 DEF object_merge_collectors
  <2> QED
    BY <2>1, SelfStays
<1>3. CASE s # t /\ t = NULL
  <2>1. object_merge_collectors(h, o, target) = g1
    BY <1>3 DEF object_merge_collectors
  <2>2. Stays(h, g1, X)
    BY <1>1, <1>3, SetCollectorStays
  <2> QED
    BY <2>1, <2>2
<1>4. CASE s # t /\ t # NULL /\ s = NULL
  <2>1. object_merge_collectors(h, o, target) = g2
    BY <1>4 DEF object_merge_collectors
  <2>2. Stays(h, g2, X)
    BY <1>1, <1>4, SetCollectorStays
  <2> QED
    BY <2>1, <2>2
<1>5. CASE s # t /\ t # NULL /\ s # NULL
  <2>1. object_merge_collectors(h, o, target) = g4
    BY <1>5 DEF object_merge_collectors
  <2>2. /\ S \in Collectors /\ h.coll[S].live /\ h.coll[S].forward = NULL
        /\ T \in Collectors /\ h.coll[T].live /\ h.coll[T].forward = NULL
    BY <1>1, <1>5, UpdateCollector
  <2>3. o # target /\ s \in Collectors /\ t \in Collectors
    BY <1>1, <1>5
  <2>4. Together(h, s, S) /\ Together(h, t, T)
    BY <2>3, UpdateEnds DEF Together
  <2>5. h.obj[o].collector = s /\ h.obj[target].collector = t
    OBVIOUS
  <2> HIDE DEF S, T, s, t
  <2>6. /\ Keeps(h, h1) /\ Stays(h, h1, X) /\ h1.obj = h.obj
        /\ Together(h1, S, T)
    <3>1. CASE S = T
      <4>1. h1 = h /\ Keeps(h, h)
        BY <3>1, KeepsSelf DEF SameBut
      <4> QED
        BY <3>1, <4>1, SelfStays, TogetherEquiv
    <3>2. CASE S # T
      <4> DEFINE g == collector_merge(h, T, S)
      <4>1. /\ Stays(h, g, X) /\ Keeps(h, g) /\ g.obj = h.obj
            /\ g.coll[S].forward = T
        BY <2>2, <3>2, MergeStays
      <4> HIDE DEF g
      <4>2. Together(g, S, T)
        <5>1. Good(g) /\ g.coll[S].forward # NULL
          BY <1>1, <2>2, <4>1 DEF Keeps
        <5>2. collector_update(g, S) = collector_update(g, T)
          BY <2>2, <4>1, <5>1, UpdateNext
        <5> QED
          BY <5>2 DEF Together
      <4> QED
        BY <3>2, <4>1, <4>2 DEF g
    <3> QED
      BY <3>1, <3>2
  <2> HIDE DEF h1
  <2>7. /\ Good(h1) /\ h1.coll[T].live /\ target \in Known(h1) /\ o \in Known(h1)
        /\ h1.obj[o].collector = s /\ h1.obj[target].collector = t
    BY <2>2, <2>5, <2>6 DEF Keeps, SameUsed
  <2>8. Together(h1, T, t) /\ Together(h1, T, s)
    <3>1. Together(h1, s, S) /\ Together(h1, t, T)
      BY <2>2, <2>3, <2>4, <2>6 DEF Stays
    <3> QED
      BY <2>6, <3>1, TogetherEquiv
  <2>9. Stays(h1, g3, X) /\ CollectorSet(h1, target, T, g3)
    <3>1. /\ T \in Collectors \cup {NULL} /\ T # NULL
          /\ Together(h1, T, h1.obj[target].collector)
      BY <1>1, <2>2, <2>7, <2>8
    <3> QED
      BY <1>1, <2>7, <3>1, SetCollectorStays
  <2> HIDE DEF g3
  <2>10. /\ Good(g3) /\ g3.coll[T].live /\ o \in Known(g3)
         /\ g3.obj[o].collector = s
    <3>1. g3.obj[o].collector = h1.obj[o].collector
      BY <1>1, <2>3, <2>7, <2>9 DEF CollectorSet, Good, HeapType
    <3> QED
      BY <2>2, <2>7, <2>9, <3>1 DEF CollectorSet, SameUsed
  <2>11. Together(g3, T, s)
    BY <2>2, <2>3, <2>8, <2>9 DEF Stays
  <2>12. Stays(g3, g4, X)
    <3>1. /\ T \in Collectors \cup {NULL} /\ T # NULL
          /\ Together(g3, T, g3.obj[o].collector)
      BY <1>1, <2>2, <2>10, <2>11
    <3> QED
      BY <1>1, <2>10, <3>1, SetCollectorStays
  <2> HIDE DEF g4
  <2>13. Stays(h, g3, X)
    BY <2>6, <2>7, <2>9, StaysTrans
  <2>14. Stays(h, g4, X)
    BY <2>10, <2>12, <2>13, StaysTrans
  <2> QED
    BY <2>1, <2>14
<1> QED
  BY <1>2, <1>3, <1>4, <1>5

\* safelist_add lists an object with one of the collectors that its own leads
\* together with, or on a list that does not count (safelist.c:18-36).
LEMMA SafelistAddStays ==
  ASSUME NEW h, Good(h), NEW c \in Collectors, NEW l \in ListNames,
         NEW o \in Known(h), l = "rebuild_list" \/ Owner(h, o, c), NEW X
  PROVE  Stays(h, safelist_add(h, c, l, o), X)
<1> DEFINE d == collector_update(h, c)
           m == ForwardedList(l)
           g1 == [h EXCEPT !.coll[c].lists[l] = Append(@, o)]
           g2 == [h EXCEPT !.coll[d].lists[m] = Append(@, o)]
<1>1. safelist_add(h, c, l, o) = g1 \/ safelist_add(h, c, l, o) = g2
  BY DEF safelist_add
<1>2. Stays(h, g1, X)
  <2>1. Added(h, g1, c, l, o)
    BY DEF Added
  <2> HIDE DEF g1
  <2> QED
    BY <2>1, AppendStays
<1>3. Stays(h, g2, X)
  <2>1. d \in Collectors /\ Together(h, c, d)
    BY UpdateEnds DEF Together
  <2>2. m \in ListNames /\ (m = "rebuild_list" <=> l = "rebuild_list")
    BY DEF ForwardedList, ListNames
  <2>3. m = "rebuild_list" \/ Owner(h, o, d)
    BY <2>1, <2>2, TogetherEquiv DEF Owner
  <2>4. Added(h, g2, d, m, o)
    BY DEF Added
  <2> HIDE DEF g2, d, m
  <2> QED
    BY <2>1, <2>2, <2>3, <2>4, AppendStays
<1> QED
  BY <1>1, <1>2, <1>3

\* safelist_poll hands out an object of the list (safelist.c:38-58).
LEMMA SafelistPollStays ==
  ASSUME NEW h, Good(h), NEW c \in Collectors, NEW l \in ListNames,
         h.coll[c].lists[l] # <<>>, NEW X
  PROVE  /\ Stays(h, safelist_poll(h, c, l), X)
         /\ l # "rebuild_list" => ListedBy(h, Head(h.coll[c].lists[l]), c)
<1> DEFINE q == h.coll[c].lists[l]
           ls == [h.coll[c].lists EXCEPT ![l] = Tail(@)]
           g == [h EXCEPT !.coll[c].lists = ls]
<1>1. /\ h.coll[c].lists \in [ListNames -> Seq(Known(h))] /\ q \in Seq(Known(h))
  BY DEF Good, UsedOK, ListsOK
<1>2. /\ Tail(q) \in Seq(Known(h)) /\ 1 \in DOMAIN q /\ Head(q) = q[1]
  BY <1>1, HeadTailProperties
<1>3. ls \in [ListNames -> Seq(Known(h))]
  BY <1>1, <1>2
<1>4. ASSUME NEW p \in Objects, InLists(ls, p) PROVE ListedBy(h, p, c)
  <2>1. PICK m \in ListNames \ {"rebuild_list"} : In(ls[m], p)
    BY <1>4 DEF InLists
  <2>2. CASE m = l
    <3>1. ls[l] = Tail(q)
      BY <1>1
    <3>2. In(q, p)
      BY <1>1, <2>1, <2>2, <3>1, InSeq
    <3> QED
      BY <2>1, <2>2, <3>2 DEF ListedBy, InLists
  <2>3. CASE m # l
    <3>1. ls[m] = h.coll[c].lists[m]
      BY <1>1, <2>3
    <3> QED
      BY <2>1, <3>1 DEF ListedBy, InLists
  <2> QED
    BY <2>2, <2>3
<1> HIDE DEF ls
<1>5. Stays(h, g, X)
  BY <1>3, <1>4, ListsStay
<1>6. safelist_poll(h, c, l) = g
  BY DEF safelist_poll, ls
<1>7. l # "rebuild_list" => ListedBy(h, Head(q), c)
  BY <1>2 DEF ListedBy, InLists, In
<1> QED
  BY <1>5, <1>6, <1>7

\* Nor does what is written to a link move anybody (link.c:37-53).
LEMMA LinkStays ==
  ASSUME NEW h, Good(h), NEW l \in Allocated(h), NEW r \in Link,
         r.state # "none", r.src = h.link[l].src, r.target = h.link[l].target,
         NEW X
  PROVE  LET g == [h EXCEPT !.link[l] = r]
         IN  Stays(h, g, X) /\ Keeps(h, g)
<1> DEFINE g == [h EXCEPT !.link[l] = r]
<1>1. Keeps(h, g) /\ g.obj = h.obj /\ g.coll = h.coll
  BY LinkFields
<1> HIDE DEF g
<1>2. Good(g) /\ SameOwners(h, g)
  BY <1>1 DEF Keeps, SameOwners
<1>3. Stays(h, g, X)
  BY <1>2, SameStays
<1> QED
  BY <1>1, <1>3 DEF g

\* Nor what is written to an object but for its collector (object.c:170-234).
LEMMA ObjectStays ==
  ASSUME NEW h, Good(h), NEW o \in Objects, NEW r \in Object,
         r.collector = h.obj[o].collector,
         r.state = "none" <=> h.obj[o].state = "none",
         \A f \in Fields : r.links[f] # NULL => r.links[f] \in Allocated(h),
         NEW X
  PROVE  LET g == [h EXCEPT !.obj[o] = r]
         IN  Stays(h, g, X) /\ Keeps(h, g) /\ g.obj[o] = r
<1> DEFINE g == [h EXCEPT !.obj[o] = r]
<1>1. Keeps(h, g)
  BY ObjectFields
<1>2. /\ g.coll = h.coll /\ g.obj[o] = r
      /\ \A p \in Objects \ {o} : g.obj[p] = h.obj[p]
  BY DEF Good, HeapType
<1> HIDE DEF g
<1>3. Good(g) /\ SameOwners(h, g)
  BY <1>1, <1>2 DEF Keeps, SameOwners
<1>4. Stays(h, g, X)
  BY <1>3, SameStays
<1> QED
  BY <1>1, <1>2, <1>4 DEF g

\* A node that follows its collector stays with it (object.c:275-277).
LEMMA FollowStays ==
  ASSUME NEW h, Good(h), NEW o \in Objects, NEW X
  PROVE  Stays(h, FollowCollector(h, o), X)
<1> DEFINE c == h.obj[o].collector
           d == collector_update(h, c)
<1>1. CASE c = NULL
  <2>1. FollowCollector(h, o) = h
    BY <1>1 DEF FollowCollector
  <2> QED
    BY <2>1, SelfStays
<1>2. CASE c # NULL
  <2>1. c \in Collectors /\ h.coll[c].live /\ o \in Known(h)
    BY <1>2, PointedLive
  <2>2. d \in Collectors /\ h.coll[d].live /\ d # NULL
    BY <2>1, UpdateCollector, HeapAssumption
  <2>3. FollowCollector(h, o) = object_set_collector(h, o, d)
    BY <1>2 DEF FollowCollector
  <2>4. Together(h, d, h.obj[o].collector)
    BY <2>1, UpdateEnds DEF Together
  <2> HIDE DEF d
  <2>5. Stays(h, object_set_collector(h, o, d), X)
    BY <2>1, <2>2, <2>4, SetCollectorStays
  <2> QED
    BY <2>3, <2>5
<1> QED
  BY <1>1, <1>2

\* link_phantomize merges the collectors of the two nodes (link.c:37-53).
LEMMA LinkPhantomizeStays ==
  ASSUME NEW h, Good(h), NEW l \in Allocated(h), CanCreate(h), NEW X
  PROVE  Stays(h, link_phantomize(h, l), X)
<1> DEFINE o  == h.link[l].src
           t  == h.link[l].target
           w  == h.link[l].which
           h0 == [h EXCEPT !.obj[t].count[Phantom] = @ + 1]
           h1 == object_dec(h0, t, w)
           P  == h1.obj[t].collector # NULL \/ h1.obj[o].collector # NULL
           h2 == assert(h1, P, "link_phantomize:45")
           h3 == object_merge_collectors(h2, o, t)
           r  == [h3.link[l] EXCEPT !.phantomized = TRUE]
           h4 == [h3 EXCEPT !.link[l] = r]
           Q  == h4.obj[t].collector = h4.obj[o].collector
           h5 == assert(h4, Q, "link_phantomize:48")
<1>1. /\ o \in Known(h) /\ t \in Known(h)
      /\ o \in Objects /\ t \in Objects /\ w \in 0..2
  BY DEF Good, UsedOK, LinksOK, Known, HeapType, Link, Bits, Allocated
<1>2. h.link[l].phantomized \/ link_phantomize(h, l) = h5
  <2> SUFFICES ASSUME ~h.link[l].phantomized
               PROVE  link_phantomize(h, l) = h5
    OBVIOUS
  <2>1. h0.link = h.link
    BY DEF Good, HeapType
  <2>2. link_dec(h0, l) = h1
    BY <2>1 DEF link_dec
  <2> QED
    BY <2>2 DEF link_phantomize
<1>3. h.link[l].phantomized => link_phantomize(h, l) = h
  BY DEF link_phantomize
<1> HIDE DEF o, t, w
<1>4. Stays(h, h0, X) /\ Keeps(h, h0)
  <2>1. Phantom \in 0..2 /\ h.obj[t].count[Phantom] + 1 \in Int
    BY <1>1, CountsInt
  <2> QED
    BY <1>1, <2>1, CountStays
<1> HIDE DEF h0
<1>5. Good(h0) /\ l \in Allocated(h0) /\ CanCreate(h0) /\ t \in Known(h0)
  BY <1>1, <1>4 DEF Keeps, CanCreate, SameUsed
<1>6. Stays(h0, h1, X) /\ Good(h1) /\ SameUsed(h0, h1)
  BY <1>1, <1>5, ObjectDecStays, ObjectDecGood
<1> HIDE DEF h1
<1> HIDE DEF P
<1>7. Stays(h1, h2, X) /\ Keeps(h1, h2)
  <2>1. "link_phantomize:45" \in Failures
    BY DEF Failures
  <2> QED
    BY <1>6, <2>1, AssertStays
<1> HIDE DEF h2
<1>8. Stays(h2, h3, X) /\ Keeps(h2, h3)
  <2>1. o \in Known(h2) /\ t \in Known(h2) /\ Good(h2)
    BY <1>1, <1>4, <1>6, <1>7 DEF Keeps, SameUsed
  <2> QED
    BY <2>1, MergeCollectorsStays, MergeCollectorsGood
<1> HIDE DEF h3
<1>9. l \in Allocated(h3) /\ Good(h3)
  BY <1>5, <1>6, <1>7, <1>8 DEF Keeps, SameUsed
<1>10. Stays(h3, h4, X) /\ Keeps(h3, h4)
  <2>1. h3.link[l] \in Link /\ h3.link[l].state # "none"
    BY <1>9 DEF Good, HeapType, Allocated
  <2>2. /\ r \in Link /\ r.state # "none"
        /\ r.src = h3.link[l].src /\ r.target = h3.link[l].target
    BY <2>1 DEF Link
  <2> HIDE DEF r
  <2> QED
    BY <1>9, <2>2, LinkStays
<1> HIDE DEF h4
<1> HIDE DEF Q
<1>11. Stays(h4, h5, X)
  <2>1. "link_phantomize:48" \in Failures /\ Good(h4)
    BY <1>10 DEF Failures, Keeps
  <2> QED
    BY <2>1, AssertStays
<1> HIDE DEF h5
<1>12. Stays(h, h1, X)
  BY <1>4, <1>5, <1>6, StaysTrans
<1>13. Stays(h, h2, X) /\ Good(h2)
  BY <1>6, <1>7, <1>12, StaysTrans DEF Keeps
<1>14. Stays(h, h3, X)
  BY <1>8, <1>13, StaysTrans
<1>15. Stays(h, h4, X) /\ Good(h4)
  BY <1>9, <1>10, <1>14, StaysTrans DEF Keeps
<1>16. Stays(h, h5, X)
  BY <1>11, <1>15, StaysTrans
<1> QED
  BY <1>2, <1>3, <1>16, SelfStays

\* object_phantomize_node moves its node to the end of its collector's chain
\* (object.c:170-196).
LEMMA PhantomizeNodeStays ==
  ASSUME NEW h, Good(h), NEW o \in Objects, NEW X
  PROVE  Stays(h, object_phantomize_node(h, o), X)
<1> DEFINE h1 == FollowCollector(h, o)
           w  == h1.obj[o].which
           k  == [h1 EXCEPT !.obj[o].count[w] = @ - 1]
           P  == k.obj[o].count[k.obj[o].which] >= 0
           h2 == assert(k, P, "object_phantomize_node:182")
           h3 == BecomePhantom(h2, o)
           F  == FALSE
           g  == assert(h, F, "collector_update:190")
<1>1. object_phantomize_node(h, o) \in {g, h2, h3}
  BY DEF object_phantomize_node, DropStrong
<1>2. Stays(h, h1, X) /\ Keeps(h, h1)
  BY FollowStays, FollowGood
<1> HIDE DEF h1
<1>3. Good(h1)
  BY <1>2 DEF Keeps
<1>4. w \in 0..2 /\ h1.obj[o].count[w] - 1 \in Int
  BY <1>3, CountsInt
<1>5. Stays(h1, k, X) /\ Keeps(h1, k)
  BY <1>3, <1>4, CountStays
<1> HIDE DEF k
<1> HIDE DEF P
<1>6. Stays(k, h2, X) /\ Keeps(k, h2)
  <2>1. "object_phantomize_node:182" \in Failures /\ Good(k)
    BY <1>5 DEF Failures, Keeps
  <2> QED
    BY <2>1, AssertStays
<1> HIDE DEF h2
<1>7. Stays(h2, h3, X)
  <2> DEFINE node == h2.obj[o]
             bit  == Flip(node.which)
             b    == IF node.count[bit] > 0 THEN bit ELSE node.which
             q    == node.phantomized /\ node.phantomization_complete
             r    == [node EXCEPT !.which = b, !.phantomized = TRUE,
                                  !.phantomization_complete = q]
  <2>1. h3 = [h2 EXCEPT !.obj[o] = r]
    BY DEF BecomePhantom
  <2>2. Good(h2) /\ node \in Object
    BY <1>6 DEF Keeps, Good, HeapType
  <2>3. b \in Bits
    <3>1. node.which \in {0, 1}
      BY <2>2 DEF Object, Bits
    <3>2. b \in {bit, node.which}
      OBVIOUS
    <3> QED
      BY <3>1, <3>2 DEF Flip, Bits
  <2>4. q \in BOOLEAN
    BY <2>2 DEF Object
  <2> HIDE DEF b, q
  <2>5. /\ r \in Object /\ r.collector = node.collector
        /\ r.links = node.links /\ r.state = node.state
    BY <2>2, <2>3, <2>4 DEF Object
  <2> HIDE DEF r
  <2>6. \A f \in Fields : r.links[f] # NULL => r.links[f] \in Allocated(h2)
    BY <2>2, <2>5 DEF Good, UsedOK, TablesOK
  <2> QED
    BY <2>1, <2>2, <2>5, <2>6, ObjectStays
<1> HIDE DEF h3
<1>8. Stays(h, g, X)
  <2>1. "collector_update:190" \in Failures
    BY DEF Failures
  <2> HIDE DEF F
  <2> QED
    BY <2>1, AssertStays
<1> HIDE DEF g
<1>9. Stays(h, k, X) /\ Good(k)
  BY <1>2, <1>3, <1>5, StaysTrans DEF Keeps
<1>10. Stays(h, h2, X) /\ Good(h2)
  BY <1>6, <1>9, StaysTrans DEF Keeps
<1>11. Stays(h, h3, X)
  BY <1>7, <1>10, StaysTrans
<1> QED
  BY <1>1, <1>8, <1>10, <1>11

\* A new object has no collector (object.c:5-18).
LEMMA InitStrongStays ==
  ASSUME NEW h, Good(h), NEW o \in Objects, h.obj[o].state = "none", NEW X
  PROVE  Stays(h, object_init_strong(h, o), X)
<1> DEFINE g == object_init_strong(h, o)
<1>1. Good(g)
  BY InitStrongGood
<1>2. h.obj[o].collector = NULL
  BY DEF Good, UsedOK, MembersOK, Known
<1>3. /\ g.coll = h.coll /\ g.obj[o].collector = NULL
      /\ \A p \in Objects \ {o} : g.obj[p] = h.obj[p]
  BY DEF object_init_strong, NoObject, Good, HeapType
<1> HIDE DEF g
<1>4. SameOwners(h, g)
  BY <1>2, <1>3 DEF SameOwners
<1>5. Stays(h, g, X)
  BY <1>1, <1>4, SameStays
<1> QED
  BY <1>5 DEF g

\* A new reference moves nobody (object.c:111-118).
LEMMA IncStrongStays ==
  ASSUME NEW h, Good(h), NEW o \in Objects, NEW X
  PROVE  Stays(h, object_inc_strong(h, o), X)
<1> DEFINE w == h.obj[o].which
           g == [h EXCEPT !.obj[o].count[w] = @ + 1]
<1>1. w \in 0..2 /\ h.obj[o].count[w] + 1 \in Int
  BY CountsInt
<1>2. Stays(h, g, X)
  BY <1>1, CountStays
<1> QED
  BY <1>2 DEF object_inc_strong

\* Nor does a table that is written to (object.c:85-109, 421-471).
LEMMA TableStays ==
  ASSUME NEW h, Good(h), NEW o \in Objects,
         NEW t \in [Fields -> Allocated(h) \cup {NULL}], NEW X
  PROVE  LET g == [h EXCEPT !.obj[o].links = t]
         IN  Stays(h, g, X) /\ Keeps(h, g)
<1> DEFINE r == [h.obj[o] EXCEPT !.links = t]
           g == [h EXCEPT !.obj[o] = r]
<1>1. h.obj[o] \in Object
  BY DEF Good, HeapType
<1>2. /\ r \in Object /\ r.collector = h.obj[o].collector
      /\ r.state = h.obj[o].state /\ r.links = t
  <2>1. t \in [Fields -> Links \cup {NULL}]
    BY DEF Allocated
  <2> QED
    BY <1>1, <2>1 DEF Object
<1>3. [h EXCEPT !.obj[o].links = t] = g
  OBVIOUS
<1> HIDE DEF r
<1>4. Stays(h, g, X) /\ Keeps(h, g)
  BY <1>2, ObjectStays
<1> QED
  BY <1>3, <1>4

\* Nor does a table that is emptied (object.c:85-109).
LEMMA RemoveLinksStays ==
  ASSUME NEW h, Good(h), NEW o \in Objects, NEW X
  PROVE  Stays(h, object_remove_links(h, o), X)
<1> DEFINE e  == [f \in Fields |-> NULL]
           h1 == [h EXCEPT !.obj[o].links = e]
           P  == h.obj[o].count[0] = 0 /\ h.obj[o].count[1] = 0
           h2 == assert(h1, P, "object_remove_links:96")
<1>1. object_remove_links(h, o) = h2
  BY DEF object_remove_links
<1>2. e \in [Fields -> Allocated(h) \cup {NULL}]
  OBVIOUS
<1> HIDE DEF e, P
<1>3. Stays(h, h1, X) /\ Keeps(h, h1)
  BY <1>2, TableStays
<1> HIDE DEF h1
<1>4. Stays(h1, h2, X)
  <2>1. "object_remove_links:96" \in Failures /\ Good(h1)
    BY <1>3 DEF Failures, Keeps
  <2> QED
    BY <2>1, AssertStays
<1> HIDE DEF h2
<1>5. Stays(h, h2, X)
  BY <1>3, <1>4, StaysTrans DEF Keeps
<1> QED
  BY <1>1, <1>5

\* What stays before and after x leaves does not matter.
LEMMA LosesTrans ==
  ASSUME NEW h, NEW g, NEW k, Good(h), Good(g), NEW x
  PROVE  /\ Stays(h, g, {}) /\ Loses(g, k, x) => Loses(h, k, x)
         /\ Loses(h, g, x) /\ Stays(g, k, {}) /\ k.obj[x].count = g.obj[x].count
              => Loses(h, k, x)
<1>1. ASSUME Stays(h, g, {}), Loses(g, k, x) PROVE Loses(h, k, x)
  <2>1. Stays(h, g, {x})
    BY <1>1, StaysBut
  <2>2. CASE Stays(g, k, {})
    <3>1. Stays(h, k, {})
      BY <1>1, <2>2, StaysTrans
    <3> QED
      BY <3>1 DEF Loses
  <2>3. CASE Stays(g, k, {x}) /\ k.obj[x].count[Phantom] = 0
    <3>1. Stays(h, k, {x})
      BY <2>1, <2>3, StaysTrans
    <3> QED
      BY <2>3, <3>1 DEF Loses
  <2> QED
    BY <1>1, <2>2, <2>3 DEF Loses
<1>2. ASSUME Loses(h, g, x), Stays(g, k, {}), k.obj[x].count = g.obj[x].count
      PROVE  Loses(h, k, x)
  <2>1. Stays(g, k, {x})
    BY <1>2, StaysBut
  <2>2. CASE Stays(h, g, {})
    <3>1. Stays(h, k, {})
      BY <1>2, <2>2, StaysTrans
    <3> QED
      BY <3>1 DEF Loses
  <2>3. CASE Stays(h, g, {x}) /\ g.obj[x].count[Phantom] = 0
    <3>1. Stays(h, k, {x})
      BY <2>1, <2>3, StaysTrans
    <3> QED
      BY <1>2, <2>3, <3>1 DEF Loses
  <2> QED
    BY <1>2, <2>2, <2>3 DEF Loses
<1> QED
  BY <1>1, <1>2

\* link_destroy drops a link first (link.c:27-35).
LEMMA LinkDestroyLoses ==
  ASSUME NEW h, Good(h), NEW l \in Allocated(h), CanCreate(h)
  PROVE  Loses(h, link_destroy(h, l), h.link[l].target)
<1> DEFINE t  == h.link[l].target
           h1 == link_dec(h, l)
           r  == [h1.link[l] EXCEPT !.state = "freed"]
           g  == [h1 EXCEPT !.link[l] = r]
<1>1. Good(h1) /\ SameUsed(h, h1) /\ Loses(h, h1, t)
  BY LinkDecGood, LinkDecLoses
<1>2. link_destroy(h, l) = g
  BY DEF link_destroy
<1> HIDE DEF h1, t
<1>3. l \in Allocated(h1) /\ h1.link[l] \in Link
  BY <1>1 DEF SameUsed, Good, HeapType, Allocated
<1>4. /\ r \in Link /\ r.state # "none"
      /\ r.src = h1.link[l].src /\ r.target = h1.link[l].target
  BY <1>3 DEF Link, Memory
<1>5. g.obj = h1.obj
  BY <1>1 DEF Good, HeapType
<1> HIDE DEF r
<1>6. Stays(h1, g, {})
  BY <1>1, <1>3, <1>4, LinkStays
<1> HIDE DEF g
<1>7. g.obj[t].count = h1.obj[t].count
  BY <1>5
<1>8. Loses(h, g, t)
  BY <1>1, <1>6, <1>7, LosesTrans
<1> QED
  BY <1>2, <1>8 DEF t

\* object_rebuild_link takes the target from its collector with its last
\* phantom count (object.c:245-264).
LEMMA RebuildCountsLoses ==
  ASSUME NEW h, Good(h), NEW t \in Known(h), NEW w \in 0..2
  PROVE  Loses(h, RebuildCounts(h, t, w), t)
<1> DEFINE h1 == [h EXCEPT !.obj[t].count[w] = @ + 1]
           h2 == [h1 EXCEPT !.obj[t].count[Phantom] = @ - 1]
           g2 == object_set_collector(h2, t, NULL)
           h3 == IF h2.obj[t].count[Phantom] = 0 THEN g2 ELSE h2
           P  == h3.obj[t].count[Phantom] >= 0
           h4 == assert(h3, P, "object_rebuild_link:263")
<1>1. RebuildCounts(h, t, w) = h4
  BY DEF RebuildCounts
<1>2. t \in Objects
  BY DEF Known
<1>3. Stays(h, h1, {}) /\ Keeps(h, h1)
  <2>1. h.obj[t].count[w] + 1 \in Int
    BY <1>2, CountsInt
  <2> QED
    BY <1>2, <2>1, CountStays
<1> HIDE DEF h1
<1>4. Stays(h1, h2, {}) /\ Keeps(h1, h2)
  <2>1. Good(h1)
    BY <1>3 DEF Keeps
  <2>2. Phantom \in 0..2 /\ h1.obj[t].count[Phantom] - 1 \in Int
    BY <1>2, <2>1, CountsInt
  <2> QED
    BY <1>2, <2>1, <2>2, CountStays
<1> HIDE DEF h2
<1>5. Good(h1) /\ Good(h2)
  BY <1>3, <1>4 DEF Keeps
<1>6. Stays(h, h2, {}) /\ Stays(h, h2, {t})
  <2>1. Stays(h, h2, {})
    BY <1>3, <1>4, <1>5, StaysTrans
  <2> QED
    BY <2>1, StaysBut
<1>7. Stays(h2, g2, {t}) /\ CollectorSet(h2, t, NULL, g2)
  <2>1. NULL \in Collectors \cup {NULL} /\ t \in {t}
    OBVIOUS
  <2> QED
    BY <1>2, <1>5, <2>1, SetCollectorStays
<1> HIDE DEF g2
<1>8. g2.obj[t].count = h2.obj[t].count /\ Good(g2)
  BY <1>2, <1>5, <1>7 DEF CollectorSet, Good, HeapType, Object
<1>9. Loses(h, h3, t) /\ Good(h3)
  <2>1. CASE h2.obj[t].count[Phantom] = 0
    <3>1. Stays(h, g2, {t})
      BY <1>5, <1>6, <1>7, StaysTrans
    <3> QED
      BY <1>8, <2>1, <3>1 DEF Loses
  <2>2. CASE h2.obj[t].count[Phantom] # 0
    BY <1>5, <1>6, <2>2 DEF Loses
  <2> QED
    BY <2>1, <2>2
<1> HIDE DEF h3
<1> HIDE DEF P
<1>10. Stays(h3, h4, {}) /\ h4.obj = h3.obj
  <2>1. "object_rebuild_link:263" \in Failures
    BY DEF Failures
  <2> QED
    BY <1>9, <2>1, AssertStays
<1> HIDE DEF h4
<1>11. h4.obj[t].count = h3.obj[t].count
  BY <1>10
<1>12. Loses(h, h4, t)
  BY <1>9, <1>10, <1>11, LosesTrans
<1> QED
  BY <1>1, <1>12

\* safelist_add writes no object (safelist.c:18-36).
LEMMA SafelistAddObjects ==
  ASSUME NEW h, Good(h), NEW c, NEW l, NEW o
  PROVE  safelist_add(h, c, l, o).obj = h.obj
BY DEF safelist_add, Good, HeapType

\* Then the target is listed to be looked at again (object.c:245-271).
LEMMA RebuildLinkLoses ==
  ASSUME NEW h, Good(h), NEW c \in Collectors, NEW l \in Allocated(h)
  PROVE  Loses(h, object_rebuild_link(h, c, l), h.link[l].target)
<1> DEFINE o  == h.link[l].src
           t  == h.link[l].target
           P  == h.obj[t].phantomized \/ KeysOf(h, t) = {}
           w  == LinkBit(h, o, t, P)
           r  == [h.link[l] EXCEPT !.which = w, !.phantomized = FALSE]
           h1 == [h EXCEPT !.link[l] = r]
           h2 == RebuildCounts(h1, t, w)
           g  == safelist_add(h2, c, "rebuild_list", t)
<1>1. t \in Known(h) /\ t \in Objects /\ h.link[l] \in Link /\ h.link[l].state # "none"
  BY DEF Good, HeapType, UsedOK, LinksOK, Known, Allocated
<1>2. w \in Bits /\ w \in 0..2
  <2> HIDE DEF o, t, P
  <2> QED
    BY <1>1, LinkBitType
<1>3. object_rebuild_link(h, c, l) \in {h, h2, g}
  BY DEF object_rebuild_link
<1> HIDE DEF o, w
<1> HIDE DEF t
<1>4. Stays(h, h1, {}) /\ Keeps(h, h1)
  <2>1. /\ r \in Link /\ r.state # "none"
        /\ r.src = h.link[l].src /\ r.target = h.link[l].target
    BY <1>1, <1>2 DEF Link
  <2> HIDE DEF r
  <2> QED
    BY <2>1, LinkStays
<1> HIDE DEF h1
<1>5. Loses(h1, h2, t) /\ Keeps(h1, h2) /\ Good(h1)
  <2>1. Good(h1) /\ t \in Known(h1)
    BY <1>1, <1>4 DEF Keeps, SameUsed
  <2> QED
    BY <1>2, <2>1, RebuildCountsGood, RebuildCountsLoses
<1> HIDE DEF h2
<1>6. Good(h2) /\ t \in Known(h2)
  BY <1>1, <1>4, <1>5 DEF Keeps, SameUsed
<1>7. Stays(h2, g, {}) /\ g.obj[t].count = h2.obj[t].count
  <2>1. "rebuild_list" \in ListNames
    BY DEF ListNames
  <2> QED
    BY <1>6, <2>1, SafelistAddStays, SafelistAddObjects
<1> HIDE DEF g
<1>8. Loses(h, h2, t)
  BY <1>4, <1>5, LosesTrans
<1>9. Loses(h, g, t)
  BY <1>6, <1>7, <1>8, LosesTrans
<1>10. Loses(h, h, t)
  BY SelfStays, StaysLoses
<1> QED
  BY <1>3, <1>8, <1>9, <1>10 DEF t

\* object_set's new link may merge the collectors of its two ends
\* (object.c:448-470).
LEMMA SetLinkStays ==
  ASSUME NEW h, Good(h), NEW o \in Known(h), NEW f \in Fields,
         NEW t \in Known(h), NEW l \in Links, NEW X
  PROVE  Stays(h, object_set_link(h, o, f, t, l), X)
<1> DEFINE h1 == InstallLink(h, o, f, t, l)
           m  == object_merge_collectors(h1, o, t)
           P  == m.obj[o].collector # NULL
           m1 == assert(m, P, "object_set:455")
           m2 == [m1 EXCEPT !.obj[t].count[Phantom] = @ + 1]
           q1 == [m2.link[l] EXCEPT !.phantomized = TRUE]
           m3 == [m2 EXCEPT !.link[l] = q1]
           Q  == KeysOf(h1, t) = {}
           w  == LinkBit(h1, o, t, Q)
           h2 == [h1 EXCEPT !.obj[t].count[w] = @ + 1]
           q2 == [h2.link[l] EXCEPT !.which = w]
           h3 == [h2 EXCEPT !.link[l] = q2]
<1>1. object_set_link(h, o, f, t, l) \in {m3, h3}
  BY DEF object_set_link
<1>2. t \in Objects
  BY DEF Known
<1>3. /\ Good(h1) /\ l \in Allocated(h1)
      /\ o \in Known(h1) /\ t \in Known(h1)
      /\ NewLink(h, h1, o, f, l, LinkFrom(o, t))
  BY InstallLinkSame
<1> HIDE DEF h1
<1>4. Stays(h, h1, X)
  <2>1. SameOwners(h, h1)
    BY <1>3 DEF SameOwners, NewLink
  <2> QED
    BY <1>3, <2>1, SameStays
<1>5. Stays(h1, m3, X)
  <2>1. Stays(h1, m, X) /\ Keeps(h1, m)
    BY <1>3, MergeCollectorsGood, MergeCollectorsStays
  <2> HIDE DEF m, P
  <2>2. Stays(m, m1, X) /\ Keeps(m, m1)
    <3>1. "object_set:455" \in Failures /\ Good(m)
      BY <2>1 DEF Failures, Keeps
    <3> QED
      BY <3>1, AssertStays
  <2> HIDE DEF m1
  <2>3. Stays(m1, m2, X) /\ Keeps(m1, m2)
    <3>1. Good(m1)
      BY <2>2 DEF Keeps
    <3>2. Phantom \in 0..2 /\ m1.obj[t].count[Phantom] + 1 \in Int
      BY <1>2, <3>1, CountsInt
    <3> QED
      BY <1>2, <3>1, <3>2, CountStays
  <2> HIDE DEF m2
  <2>4. Good(m) /\ Good(m1) /\ Good(m2) /\ l \in Allocated(m2)
    BY <1>3, <2>1, <2>2, <2>3 DEF Keeps, SameUsed
  <2>5. Stays(m2, m3, X)
    <3>1. m2.link[l] \in Link
      BY <2>4 DEF Good, HeapType, Allocated
    <3>2. /\ q1 \in Link /\ q1.state # "none"
          /\ q1.src = m2.link[l].src /\ q1.target = m2.link[l].target
      BY <2>4, <3>1 DEF Link, Allocated
    <3> HIDE DEF q1
    <3> QED
      BY <2>4, <3>2, LinkStays
  <2> HIDE DEF m3
  <2>6. Stays(h1, m1, X)
    BY <1>3, <2>1, <2>2, <2>4, StaysTrans
  <2>7. Stays(h1, m2, X)
    BY <1>3, <2>3, <2>4, <2>6, StaysTrans
  <2> QED
    BY <1>3, <2>4, <2>5, <2>7, StaysTrans
<1>6. Stays(h1, h3, X)
  <2>1. w \in Bits /\ w \in 0..2
    <3> HIDE DEF Q
    <3> QED
      BY <1>2, <1>3, LinkBitType
  <2> HIDE DEF w
  <2>2. Stays(h1, h2, X) /\ Keeps(h1, h2)
    <3>1. h1.obj[t].count[w] + 1 \in Int
      BY <1>2, <1>3, <2>1, CountsInt
    <3> QED
      BY <1>2, <1>3, <2>1, <3>1, CountStays
  <2> HIDE DEF h2
  <2>3. Good(h2) /\ l \in Allocated(h2)
    BY <1>3, <2>2 DEF Keeps, SameUsed
  <2>4. Stays(h2, h3, X)
    <3>1. h2.link[l] \in Link
      BY <2>3 DEF Good, HeapType, Allocated
    <3>2. /\ q2 \in Link /\ q2.state # "none"
          /\ q2.src = h2.link[l].src /\ q2.target = h2.link[l].target
      BY <2>1, <2>3, <3>1 DEF Link, Allocated
    <3> HIDE DEF q2
    <3> QED
      BY <2>3, <3>2, LinkStays
  <2> HIDE DEF h3
  <2> QED
    BY <1>3, <2>2, <2>3, <2>4, StaysTrans
<1> HIDE DEF m3, h3
<1>7. Stays(h, m3, X) /\ Stays(h, h3, X)
  BY <1>3, <1>4, <1>5, <1>6, StaysTrans
<1> QED
  BY <1>1, <1>7

\* object_del takes an object whose counts are zero from its collector
\* (object.c:68-83).
LEMMA ObjectDelLoses ==
  ASSUME NEW h, Good(h), NEW o \in Known(h), Zero(h, o)
  PROVE  Loses(h, object_del(h, o), o)
<1> DEFINE h1 == object_set_collector(h, o, NULL)
           P  == KeysOf(h, o) = {}
           h2 == assert(h1, P, "object_del:74")
           r  == [h2.obj[o] EXCEPT !.state = "freed"]
           g  == [h2 EXCEPT !.obj[o] = r]
<1>0. o \in Objects
  BY DEF Known
<1>1. Stays(h, h1, {o}) /\ CollectorSet(h, o, NULL, h1)
  <2>1. NULL \in Collectors \cup {NULL} /\ o \in {o}
    OBVIOUS
  <2> QED
    BY <1>0, <2>1, SetCollectorStays
<1>2. object_del(h, o) = g
  BY DEF object_del
<1> HIDE DEF h1, P
<1>3. Good(h1) /\ o \in Known(h1) /\ h1.obj[o].count[Phantom] = 0
  <2>1. h1.obj[o].count = h.obj[o].count
    BY <1>0, <1>1 DEF CollectorSet, Good, HeapType, Object
  <2>2. Phantom \in 0..2
    BY DEF Phantom
  <2> QED
    BY <1>1, <2>1, <2>2 DEF CollectorSet, SameUsed, Zero
<1>4. Stays(h1, h2, {o}) /\ Keeps(h1, h2) /\ h2.obj = h1.obj
  <2>1. "object_del:74" \in Failures
    BY DEF Failures
  <2> QED
    BY <1>3, <2>1, AssertStays
<1> HIDE DEF h2
<1>5. Good(h2) /\ h2.obj[o] \in Object /\ h2.obj[o].state # "none"
  BY <1>0, <1>3, <1>4 DEF Keeps, SameUsed, Known, Good, HeapType
<1>6. /\ r \in Object /\ r.collector = h2.obj[o].collector
      /\ r.links = h2.obj[o].links /\ r.state = "freed"
      /\ r.count = h2.obj[o].count
  BY <1>5 DEF Object, Memory
<1> HIDE DEF r
<1>7. \A f \in Fields : r.links[f] # NULL => r.links[f] \in Allocated(h2)
  BY <1>0, <1>5, <1>6 DEF Good, UsedOK, TablesOK
<1>8. Stays(h2, g, {o}) /\ g.obj[o] = r
  BY <1>0, <1>5, <1>6, <1>7, ObjectStays
<1> HIDE DEF g
<1>9. Stays(h, h2, {o})
  BY <1>1, <1>3, <1>4, StaysTrans
<1>10. Stays(h, g, {o})
  BY <1>5, <1>8, <1>9, StaysTrans
<1>11. g.obj[o].count[Phantom] = 0
  BY <1>3, <1>4, <1>6, <1>8
<1> QED
  BY <1>2, <1>10, <1>11 DEF Loses

\* A list that is drained into another one of the same collector keeps its
\* elements (collector.c:98-104).
LEMMA DrainMergedStays ==
  ASSUME NEW h, Good(h), NEW c \in Collectors,
         NEW g, ListsSet(h, g, c,
           [h.coll[c].lists EXCEPT
              !["recovery_list"] = @ \o h.coll[c].lists["merged_list"],
              !["merged_list"] = <<>>]), NEW X
  PROVE  Stays(h, g, X)
<1> DEFINE L  == h.coll[c].lists
           q  == L["recovery_list"] \o L["merged_list"]
           ls == [L EXCEPT !["recovery_list"] = q, !["merged_list"] = <<>>]
           k  == [h EXCEPT !.coll[c].lists = ls]
           K  == Known(h)
<1>1. L \in [ListNames -> Seq(K)]
  BY DEF Good, UsedOK, ListsOK
<1>2. {"recovery_list", "merged_list"} \subseteq ListNames
  BY DEF ListNames
<1>3. L["recovery_list"] \in Seq(K) /\ L["merged_list"] \in Seq(K)
  BY <1>1, <1>2
<1>4. g = k
  BY DEF ListsSet
<1> HIDE DEF K
<1>5. /\ q \in Seq(K) /\ <<>> \in Seq(K)
      /\ \A o : In(q, o) => In(L["recovery_list"], o) \/ In(L["merged_list"], o)
  BY <1>3, ConcatIn, ConcatProperties, EmptySeq
<1> HIDE DEF q
<1>6. /\ ls \in [ListNames -> Seq(K)]
      /\ \A n \in ListNames :
           ls[n] = IF n = "merged_list" THEN <<>>
                   ELSE IF n = "recovery_list" THEN q ELSE L[n]
  BY <1>1, <1>2, <1>5
<1> HIDE DEF ls
<1>7. ASSUME NEW o \in Objects, InLists(ls, o) PROVE ListedBy(h, o, c)
  <2>1. PICK n \in ListNames \ {"rebuild_list"} : In(ls[n], o)
    BY <1>7 DEF InLists
  <2>2. ~In(<<>>, o)
    BY DEF In
  <2>3. \E m \in ListNames \ {"rebuild_list"} : In(L[m], o)
    <3>1. CASE n = "recovery_list"
      BY <1>2, <1>5, <1>6, <2>1, <3>1
    <3>2. CASE n # "recovery_list"
      BY <1>6, <2>1, <2>2, <3>2
    <3> QED
      BY <3>1, <3>2
  <2> QED
    BY <2>3 DEF ListedBy, InLists
<1>8. Stays(h, k, X)
  BY <1>6, <1>7, ListsStay DEF K
<1> QED
  BY <1>4, <1>8

\* Nobody points or forwards to a collector without references.
LEMMA UnreferencedUnused ==
  ASSUME NEW h, Good(h), NEW c \in Collectors, h.coll[c].ref_count = 0
  PROVE  /\ \A o \in Objects : h.obj[o].collector # c
         /\ \A d \in Collectors : h.coll[d].forward # c
<1>1. Members(h, c) \subseteq Objects /\ Merged(h, c) \subseteq Collectors
  BY DEF Members, Merged
<1>2. IsFiniteSet(Members(h, c)) /\ IsFiniteSet(Merged(h, c))
  BY <1>1, FS_Subset, HeapAssumption
<1>3. /\ Cardinality(Members(h, c)) \in Nat /\ Cardinality(Merged(h, c)) \in Nat
      /\ Cardinality(Members(h, c)) + Cardinality(Merged(h, c)) = 0
  BY <1>2, FS_CardinalityType DEF Good, CollectorsOK, RefExact
<1>4. Cardinality(Members(h, c)) = 0 /\ Cardinality(Merged(h, c)) = 0
  BY <1>3
<1>5. Members(h, c) = {} /\ Merged(h, c) = {}
  BY <1>2, <1>4, FS_EmptySet
<1> QED
  BY <1>5 DEF Members, Merged

\* A collector that is freed owns and lists nobody, and no chain goes through
\* it (collector.c:42-58, 126-132).
LEMMA DestroyOwners ==
  ASSUME NEW h, Good(h), NEW c \in Collectors, counter_done(h, c),
         NEW o \in Objects, NEW d \in Collectors
  PROVE  LET g == collector_destroy(h, c)
         IN  /\ ListedBy(g, o, d) => d # c /\ ListedBy(h, o, d)
             /\ d # c /\ Owner(h, o, d) => Owner(g, o, d)
<1> DEFINE h1 == collector_set_forward(h, c, NULL)
           g  == [h1 EXCEPT !.coll[c] = NoCollector]
<1>0. collector_destroy(h, c) = g
  BY DEF collector_destroy
<1>1. h.coll[c].ref_count = 0 /\ \A n \in ListNames : h.coll[c].lists[n] = <<>>
  BY DEF counter_done, store_count_zero
<1>2. /\ \A p \in Objects : h.obj[p].collector # c
      /\ \A b \in Collectors : h.coll[b].forward # c
  BY <1>1, UnreferencedUnused
<1>3. Good(g)
  BY <1>0, <1>1, DestroyGood
<1>4. /\ h1.obj = h.obj /\ Good(h1)
      /\ \A b \in Collectors : h1.coll[b].lists = h.coll[b].lists
      /\ \A b \in Collectors \ {c} : h1.coll[b].forward = h.coll[b].forward
  <2>1. NULL \in Collectors \cup {NULL} /\ NULL \notin Collectors
    BY HeapAssumption
  <2>2. /\ h1.obj = h.obj
        /\ \A b \in Collectors : h1.coll[b].lists = h.coll[b].lists
        /\ \A b \in Collectors \ {c} : h1.coll[b].forward = h.coll[b].forward
    BY <2>1, MildSetForward
  <2>3. Good(h1)
    BY <2>1, SetForward
  <2> QED
    BY <2>2, <2>3
<1> HIDE DEF h1
<1>5. /\ g.obj = h.obj
      /\ g.coll[c].forward = NULL /\ \A n \in ListNames : g.coll[c].lists[n] = <<>>
      /\ \A b \in Collectors \ {c} : /\ g.coll[b].lists = h.coll[b].lists
                                     /\ g.coll[b].forward = h.coll[b].forward
  BY <1>4 DEF NoCollector, Good, HeapType
<1> HIDE DEF g
<1>6. ASSUME ListedBy(g, o, d) PROVE d # c /\ ListedBy(h, o, d)
  <2>1. d # c
    BY <1>5, <1>6 DEF ListedBy, InLists, In
  <2> QED
    BY <1>5, <1>6, <2>1 DEF ListedBy
<1>7. \A b \in Collectors \ {c} : collector_update(g, b) = collector_update(h, b)
  <2> DEFINE u == [b \in Collectors |-> IF b = c THEN c ELSE collector_update(h, b)]
  <2>1. ASSUME NEW b \in Collectors
        PROVE  u[b] = IF g.coll[b].forward = NULL THEN b ELSE u[g.coll[b].forward]
    <3>1. h.coll[b].forward # NULL => h.coll[b].forward \in Collectors \ {c}
      BY <1>2, PointedLive
    <3>2. CASE b = c
      BY <1>5, <3>2
    <3>3. CASE b # c
      <4>1. g.coll[b].forward = h.coll[b].forward
        BY <1>5, <3>3
      <4> QED
        BY <3>1, <3>3, <4>1, UpdateNext
    <3> QED
      BY <3>2, <3>3
  <2>2. Leads(g, u)
    BY <2>1 DEF Leads
  <2>3. \A b \in Collectors \ {c} : u[b] = collector_update(h, b)
    OBVIOUS
  <2> HIDE DEF u
  <2> QED
    BY <1>3, <2>2, <2>3, UpdateLeads
<1>8. ASSUME d # c, Owner(h, o, d) PROVE Owner(g, o, d)
  <2>1. h.obj[o].collector \in Collectors \ {c}
    BY <1>2, <1>8, PointedLive DEF Owner
  <2> QED
    BY <1>5, <1>7, <1>8, <2>1 DEF Owner, Together
<1> QED
  BY <1>0, <1>6, <1>8

=============================================================================
