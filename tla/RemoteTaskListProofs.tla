------------------------ MODULE RemoteTaskListProofs ------------------------
(***************************************************************************)
(* What holds of the lock-free list for every number of producers, tasks   *)
(* and addresses.                                                          *)
(***************************************************************************)
EXTENDS RemoteTaskList, FiniteSetTheorems, SequenceTheorems, WellFoundedInduction, TLAPS

\* A non-empty set of numbers has a least element.
LEMMA LeastElement ==
  ASSUME NEW T \in SUBSET Nat, T # {}
  PROVE  \E m \in T : \A n \in T : m <= n
<1> DEFINE R == OpToRel(<, Nat)
<1>1. IsWellFoundedOn(R, Nat)
  BY NatLessThanWellFounded
<1> HIDE DEF R
<1>2. PICK m \in T : \A n \in T : <<n, m>> \notin R
  BY <1>1, WFMin
<1>3. \A n \in T : ~(n < m)
  BY <1>2 DEF R, OpToRel
<1> QED BY <1>3

-----------------------------------------------------------------------------
(* Lists of nodes.                                                         *)

\* s holds the addresses of the list that starts at a in heap h, in order.
PathIn(h, s, a) ==
  /\ s \in Seq(Addrs)
  /\ a = IF s = <<>> THEN Null ELSE s[1]
  /\ \A i \in 1..Len(s) : /\ h[s[i]] # Free
                          /\ h[s[i]].next = IF i = Len(s) THEN Null ELSE s[i + 1]
  /\ \A i \in 1..Len(s), j \in 1..Len(s) : s[i] = s[j] => i = j

Path(s, a) == PathIn(heap, s, a)

\* A list has no more nodes than there are addresses.
LEMMA PathLength ==
  ASSUME NEW s, NEW a, Path(s, a)
  PROVE  Len(s) <= Cardinality(Addrs) /\ Cardinality(Addrs) \in Nat
<1>1. s \in Injection(1..Len(s), Addrs)
  BY DEF Path, PathIn, Injection, IsInjective
<1>2. Cardinality(1..Len(s)) <= Cardinality(Addrs)
  BY <1>1, FS_Injection, HeapAssumption
<1>3. Len(s) \in Nat
  BY DEF Path, PathIn
<1>4. Cardinality(1..Len(s)) = Len(s)
  BY <1>3, FS_Interval, SMTT(30)
<1>5. Cardinality(Addrs) \in Nat
  BY HeapAssumption, FS_CardinalityType
<1> QED BY <1>2, <1>4, <1>5

\* Following next from a meets the addresses of its list and stays at Null.
LEMMA StepsOfPath ==
  ASSUME NEW s, NEW a, Path(s, a)
  PROVE  /\ DOMAIN Steps(a) = 0..(Cardinality(Addrs) + 1)
         /\ \A n \in DOMAIN Steps(a) :
              Steps(a)[n] = IF n < Len(s) THEN s[n + 1] ELSE Null
<1> DEFINE N == Cardinality(Addrs) + 1
           F(f) == [n \in 0..N |-> IF n = 0 THEN a ELSE Successor(f[n - 1])]
           g == [n \in 0..N |-> IF n < Len(s) THEN s[n + 1] ELSE Null]
           f == Steps(a)
<1>1. N \in Nat /\ Len(s) \in Nat /\ Len(s) < N
  BY PathLength DEF Path, PathIn
<1>2. f = CHOOSE h : h = F(h)
  BY DEF Steps
<1> HIDE DEF N, f
<1>3. g = F(g)
  <2>1. g[0] = a
    BY <1>1 DEF Path, PathIn
  <2>2. ASSUME NEW n \in 1..N PROVE g[n] = Successor(g[n - 1])
    <3>0. n - 1 \in 0..N /\ n \in 0..N /\ n - 1 + 1 = n
      BY <1>1
    <3>1. CASE n - 1 < Len(s)
      <4>1. g[n - 1] = s[n] /\ n \in 1..Len(s)
        BY <3>0, <3>1, <1>1
      <4>2. s[n] \in Addrs /\ heap[s[n]] # Free
        BY <4>1 DEF Path, PathIn
      <4>3. Successor(s[n]) = heap[s[n]].next
        BY <4>2 DEF Successor
      <4>4. heap[s[n]].next = IF n = Len(s) THEN Null ELSE s[n + 1]
        BY <4>1 DEF Path, PathIn
      <4>5. g[n] = IF n = Len(s) THEN Null ELSE s[n + 1]
        BY <3>0, <4>1, <1>1
      <4> QED BY <4>1, <4>3, <4>4, <4>5, Zenon
    <3>2. CASE ~(n - 1 < Len(s))
      BY <3>0, <3>2, <1>1, NullAssumption DEF Successor
    <3> QED BY <3>1, <3>2
  <2> QED BY <2>1, <2>2, <1>1
<1>4. f = F(f)
  BY <1>2, <1>3
<1>5. f = g
  <2> SUFFICES ASSUME f # g PROVE FALSE
    OBVIOUS
  <2> DEFINE T == {n \in 0..N : f[n] # g[n]}
  <2>1. T # {} /\ T \in SUBSET Nat
    <3>1. DOMAIN f = 0..N /\ f = [n \in DOMAIN f |-> f[n]]
      BY <1>4
    <3>2. DOMAIN g = 0..N /\ g = [n \in 0..N |-> g[n]]
      OBVIOUS
    <3> HIDE DEF g
    <3>3. ~(\A n \in 0..N : f[n] = g[n])
      BY <3>1, <3>2
    <3> QED BY <3>3, <1>1
  <2>2. PICK m \in T : \A n \in T : m <= n
    BY <2>1, LeastElement
  <2>3. m # 0
    BY <1>3, <1>4, <1>1
  <2>4. m - 1 \in 0..N /\ m - 1 \notin T
    BY <2>2, <2>3, <1>1
  <2>5. f[m - 1] = g[m - 1]
    BY <2>4
  <2>6. f[m] = Successor(f[m - 1]) /\ g[m] = Successor(g[m - 1])
    BY <1>3, <1>4, <2>3, <1>1
  <2> QED BY <2>2, <2>5, <2>6
<1> QED BY <1>5, <1>1 DEF f, N

\* The addresses of a list, and the executors in its nodes.
On(s, a) == \E i \in 1..Len(s) : s[i] = a

ValuesIn(h, s) == [i \in 1..Len(s) |-> h[s[i]].value]

\* What the recursive definitions say of a list, in terms of its addresses.
ListIs(s, a) ==
  /\ WellFormedFrom(a)
  /\ ListAddrs(a) = {s[i] : i \in 1..Len(s)}
  /\ ListValues(a) = ValuesIn(heap, s)

PathsAreLists == \A s \in Seq(Addrs), a \in Addrs \cup {Null} : Path(s, a) => ListIs(s, a)

\* A path through the nodes is the list it spells.
LEMMA PathIsList == PathsAreLists
<1> SUFFICES ASSUME NEW s \in Seq(Addrs), NEW a \in Addrs \cup {Null}, Path(s, a)
             PROVE  ListIs(s, a)
  BY DEF PathsAreLists
<1> DEFINE N == Cardinality(Addrs) + 1
           f == Steps(a)
<1>1. N \in Nat /\ Len(s) \in Nat /\ Len(s) < N
  BY PathLength
<1>2. DOMAIN f = 0..N /\ \A n \in 0..N : f[n] = IF n < Len(s) THEN s[n + 1] ELSE Null
  BY StepsOfPath
<1> HIDE DEF N, f
<1>3. \A i \in 1..Len(s) : s[i] \in Addrs /\ s[i] # Null /\ s[i] # Free
  BY NullAssumption, HeapAssumption
<1>4. f[Len(s)] = Null /\ Len(s) \in DOMAIN f
  BY <1>1, <1>2
<1>5. WellFormedFrom(a)
  BY <1>4 DEF WellFormedFrom, f
<1>6. ListAddrs(a) = {s[i] : i \in 1..Len(s)}
  <2>1. ASSUME NEW n \in DOMAIN f, f[n] # Null PROVE f[n] \in {s[i] : i \in 1..Len(s)}
    <3>1. n \in 0..N /\ n < Len(s) /\ n + 1 \in 1..Len(s) /\ f[n] = s[n + 1]
      BY <1>1, <1>2, <2>1
    <3> QED BY <3>1
  <2>2. ASSUME NEW i \in 1..Len(s) PROVE s[i] \in {f[n] : n \in DOMAIN f} \ {Null, Free}
    <3>1. i - 1 \in DOMAIN f /\ f[i - 1] = s[i]
      BY <1>1, <1>2
    <3> QED BY <3>1, <1>3
  <2>3. ListAddrs(a) = {f[n] : n \in DOMAIN f} \ {Null, Free}
    BY DEF ListAddrs, f
  <2>4. Null # Free
    BY HeapAssumption
  <2>5. \A i \in 1..Len(s) : s[i] # Free
    BY <1>3
  <2> QED BY <2>1, <2>2, <2>3, <2>4, <2>5
<1>7. ListLength(a) = Len(s)
  <2> DEFINE E(n) == f[n] = Null /\ \A m \in 0..(n - 1) : f[m] # Null
  <2>1. Len(s) \in DOMAIN f /\ E(Len(s))
    <3>1. ASSUME NEW m \in 0..(Len(s) - 1) PROVE f[m] # Null
      <4>1. m \in 0..N /\ m < Len(s) /\ m + 1 \in 1..Len(s)
        BY <1>1
      <4> QED BY <4>1, <1>2, <1>3
    <3> QED BY <3>1, <1>4
  <2>2. ASSUME NEW n \in DOMAIN f, E(n) PROVE n = Len(s)
    <3>1. n \in 0..N
      BY <1>2
    <3>2. ~(n < Len(s))
      <4> SUFFICES ASSUME n < Len(s) PROVE FALSE
        OBVIOUS
      <4>1. f[n] = s[n + 1] /\ n + 1 \in 1..Len(s)
        BY <1>1, <1>2, <3>1
      <4> QED BY <4>1, <2>2, <1>3
    <3>3. ~(Len(s) < n)
      <4> SUFFICES ASSUME Len(s) < n PROVE FALSE
        OBVIOUS
      <4>1. Len(s) \in 0..(n - 1)
        BY <3>1, <1>1
      <4> QED BY <4>1, <2>2, <1>4
    <3> QED BY <3>1, <3>2, <3>3, <1>1
  <2>3. ListLength(a) = CHOOSE n \in DOMAIN f : E(n)
    BY DEF ListLength, f
  <2> QED BY <2>1, <2>2, <2>3
<1>8. ListValues(a) = ValuesIn(heap, s)
  <2>1. ListValues(a) = [n \in 1..Len(s) |-> heap[f[n - 1]].value]
    BY <1>7 DEF ListValues, f
  <2>2. ASSUME NEW n \in 1..Len(s) PROVE f[n - 1] = s[n]
    BY <1>1, <1>2
  <2> QED BY <2>1, <2>2 DEF ValuesIn
<1> QED BY <1>5, <1>6, <1>8 DEF ListIs

\* The same of the nodes after a step.
LEMMA PathIsListNext == PathsAreLists'
  BY PathIsList, PTL

-----------------------------------------------------------------------------
(* How a list changes.                                                     *)

\* A list is unaffected by what happens to other nodes.
LEMMA PathKept ==
  ASSUME NEW h, NEW g, NEW s, NEW a, PathIn(h, s, a),
         \A b \in Addrs : On(s, b) => g[b] = h[b]
  PROVE  PathIn(g, s, a) /\ ValuesIn(g, s) = ValuesIn(h, s)
<1>1. \A i \in 1..Len(s) : s[i] \in Addrs /\ g[s[i]] = h[s[i]]
  BY DEF PathIn, On
<1> QED BY <1>1 DEF PathIn, ValuesIn

\* A node that points to the front of a list becomes its new front.
LEMMA PathPush ==
  ASSUME NEW h, NEW s, NEW a, PathIn(h, s, a),
         NEW n \in Addrs, h[n] # Free, h[n].next = a, ~On(s, n)
  PROVE  /\ PathIn(h, <<n>> \o s, n)
         /\ \A b : On(<<n>> \o s, b) <=> b = n \/ On(s, b)
         /\ ValuesIn(h, <<n>> \o s) = <<h[n].value>> \o ValuesIn(h, s)
<1> DEFINE r == <<n>> \o s
<1>1. s \in Seq(Addrs) /\ Len(s) \in Nat
  BY DEF PathIn
<1>2. /\ r \in Seq(Addrs) /\ Len(r) = Len(s) + 1 /\ r # <<>> /\ r[1] = n
      /\ \A i \in 1..Len(s) : r[i + 1] = s[i]
  BY <1>1
<1> HIDE DEF r
<1>3. \A i \in 1..Len(r) : i = 1 \/ (i - 1 \in 1..Len(s) /\ r[i] = s[i - 1])
  <2> SUFFICES ASSUME NEW i \in 1..Len(r), i # 1 PROVE i - 1 \in 1..Len(s) /\ r[i] = s[i - 1]
    OBVIOUS
  <2>1. i - 1 \in 1..Len(s) /\ i - 1 + 1 = i
    BY <1>1, <1>2
  <2> QED BY <2>1, <1>2
<1>4. \A b : On(r, b) <=> b = n \/ On(s, b)
  <2> SUFFICES ASSUME NEW b PROVE On(r, b) <=> b = n \/ On(s, b)
    OBVIOUS
  <2>1. On(r, b) => b = n \/ On(s, b)
    BY <1>2, <1>3 DEF On
  <2>2. b = n => On(r, b)
    BY <1>1, <1>2 DEF On
  <2>3. On(s, b) => On(r, b)
    <3> SUFFICES ASSUME NEW i \in 1..Len(s), s[i] = b PROVE On(r, b)
      BY DEF On
    <3>1. i + 1 \in 1..Len(r)
      BY <1>1, <1>2
    <3> QED BY <3>1, <1>2 DEF On
  <2> QED BY <2>1, <2>2, <2>3
<1>5. ASSUME NEW i \in 1..Len(r)
      PROVE  h[r[i]] # Free /\ h[r[i]].next = IF i = Len(r) THEN Null ELSE r[i + 1]
  <2>1. CASE i = 1
    <3>1. a = IF s = <<>> THEN Null ELSE s[1]
      BY DEF PathIn
    <3>2. s = <<>> <=> Len(s) = 0
      BY <1>1
    <3>3. CASE s = <<>>
      BY <2>1, <3>1, <3>2, <3>3, <1>1, <1>2
    <3>4. CASE s # <<>>
      <4>1. 1 \in 1..Len(s) /\ i # Len(r)
        BY <2>1, <3>2, <3>4, <1>1, <1>2
      <4> QED BY <2>1, <3>1, <3>4, <4>1, <1>1, <1>2
    <3> QED BY <3>3, <3>4
  <2>2. CASE i # 1
    <3>1. i - 1 \in 1..Len(s) /\ r[i] = s[i - 1]
      BY <2>2, <1>3
    <3>2. h[s[i - 1]] # Free /\ h[s[i - 1]].next = IF i - 1 = Len(s) THEN Null ELSE s[i - 1 + 1]
      BY <3>1 DEF PathIn
    <3>3. (i - 1 = Len(s)) <=> i = Len(r)
      BY <3>1, <1>1, <1>2
    <3>4. i # Len(r) => r[i + 1] = s[i - 1 + 1]
      <4> SUFFICES ASSUME i # Len(r) PROVE r[i + 1] = s[i - 1 + 1]
        OBVIOUS
      <4>1. i \in 1..Len(s) /\ i - 1 + 1 = i
        BY <3>1, <1>1, <1>2
      <4> QED BY <4>1, <1>2
    <3> QED BY <3>1, <3>2, <3>3, <3>4
  <2> QED BY <2>1, <2>2
<1>6. ASSUME NEW i \in 1..Len(r), NEW j \in 1..Len(r), r[i] = r[j] PROVE i = j
  <2>1. CASE i = 1 /\ j = 1
    BY <2>1
  <2>2. CASE i = 1 /\ j # 1
    BY <2>2, <1>2, <1>3, <1>6 DEF On
  <2>3. CASE i # 1 /\ j = 1
    BY <2>3, <1>2, <1>3, <1>6 DEF On
  <2>4. CASE i # 1 /\ j # 1
    <3>1. i - 1 \in 1..Len(s) /\ j - 1 \in 1..Len(s) /\ s[i - 1] = s[j - 1]
      BY <2>4, <1>3, <1>6
    <3>2. i - 1 = j - 1
      BY <3>1 DEF PathIn
    <3> QED BY <3>2, <1>1, <1>2
  <2> QED BY <2>1, <2>2, <2>3, <2>4
<1>7. PathIn(h, r, n)
  BY <1>2, <1>5, <1>6 DEF PathIn
<1>8. ValuesIn(h, r) = <<h[n].value>> \o ValuesIn(h, s)
  <2> DEFINE v == ValuesIn(h, s)
             U == {h[s[i]].value : i \in 1..Len(s)} \cup {h[n].value}
  <2>1. v \in Seq(U) /\ Len(v) = Len(s) /\ <<h[n].value>> \in Seq(U)
    BY <1>1 DEF ValuesIn
  <2>2. /\ <<h[n].value>> \o v \in Seq(U) /\ Len(<<h[n].value>> \o v) = Len(s) + 1
        /\ (<<h[n].value>> \o v)[1] = h[n].value
        /\ \A i \in 1..Len(s) : (<<h[n].value>> \o v)[i + 1] = v[i]
    <3> HIDE DEF v, U
    <3> QED BY <2>1, <1>1
  <2> DEFINE w == <<h[n].value>> \o v
  <2> HIDE DEF w
  <2>3. ASSUME NEW i \in 1..Len(r) PROVE w[i] = h[r[i]].value
    <3>1. CASE i = 1
      BY <3>1, <2>2, <1>2 DEF w
    <3>2. CASE i # 1
      <4>1. i - 1 \in 1..Len(s) /\ r[i] = s[i - 1] /\ i - 1 + 1 = i
        BY <3>2, <1>1, <1>2, <1>3
      <4>2. w[i] = v[i - 1]
        BY <4>1, <2>2 DEF w
      <4>3. v[i - 1] = h[s[i - 1]].value
        BY <4>1 DEF ValuesIn
      <4> QED BY <4>1, <4>2, <4>3
    <3> QED BY <3>1, <3>2
  <2>4. DOMAIN w = 1..Len(r) /\ w = [i \in 1..Len(r) |-> w[i]]
    <3>1. w \in Seq(U) /\ Len(w) = Len(r)
      BY <2>2, <1>2 DEF w
    <3> HIDE DEF U
    <3> QED BY <3>1
  <2>5. w = ValuesIn(h, r)
    BY <2>3, <2>4 DEF ValuesIn
  <2> QED BY <2>5 DEF w
<1> QED BY <1>4, <1>7, <1>8 DEF r

\* What is behind the front of a list is a list.
LEMMA PathPop ==
  ASSUME NEW h, NEW s, NEW a, PathIn(h, s, a), a # Null
  PROVE  /\ PathIn(h, Tail(s), h[a].next)
         /\ a \in Addrs /\ h[a] # Free /\ s # <<>>
         /\ \A b : On(s, b) <=> b = a \/ On(Tail(s), b)
         /\ ~On(Tail(s), a)
         /\ Head(ValuesIn(h, s)) = h[a].value
         /\ Tail(ValuesIn(h, s)) = ValuesIn(h, Tail(s))
<1> DEFINE r == Tail(s)
<1>1. s \in Seq(Addrs) /\ Len(s) \in Nat /\ s # <<>> /\ a = s[1] /\ Len(s) >= 1
  BY DEF PathIn
<1>2. /\ r \in Seq(Addrs) /\ Len(r) = Len(s) - 1
      /\ \A i \in 1..Len(r) : r[i] = s[i + 1] /\ i + 1 \in 1..Len(s)
  BY <1>1
<1> HIDE DEF r
<1>3. 1 \in 1..Len(s) /\ a \in Addrs /\ h[a] # Free
  BY <1>1 DEF PathIn
<1>4. h[a].next = IF r = <<>> THEN Null ELSE r[1]
  <2>1. h[a].next = IF 1 = Len(s) THEN Null ELSE s[1 + 1]
    BY <1>1, <1>3 DEF PathIn
  <2>2. (1 = Len(s)) <=> r = <<>>
    BY <1>1, <1>2
  <2>3. r # <<>> => 1 \in 1..Len(r)
    BY <1>1, <1>2
  <2> QED BY <2>1, <2>2, <2>3, <1>2
<1>5. ASSUME NEW i \in 1..Len(r)
      PROVE  h[r[i]] # Free /\ h[r[i]].next = IF i = Len(r) THEN Null ELSE r[i + 1]
  <2>1. /\ h[s[i + 1]] # Free
        /\ h[s[i + 1]].next = IF i + 1 = Len(s) THEN Null ELSE s[i + 1 + 1]
    BY <1>2 DEF PathIn
  <2>2. (i + 1 = Len(s)) <=> i = Len(r)
    BY <1>1, <1>2
  <2>3. i # Len(r) => r[i + 1] = s[i + 1 + 1]
    <3> SUFFICES ASSUME i # Len(r) PROVE r[i + 1] = s[i + 1 + 1]
      OBVIOUS
    <3>1. i + 1 \in 1..Len(r)
      BY <1>1, <1>2
    <3> QED BY <3>1, <1>2
  <2> QED BY <2>1, <2>2, <2>3, <1>2
<1>6. ASSUME NEW i \in 1..Len(r), NEW j \in 1..Len(r), r[i] = r[j] PROVE i = j
  <2>1. i + 1 \in 1..Len(s) /\ j + 1 \in 1..Len(s) /\ s[i + 1] = s[j + 1]
    BY <1>2, <1>6
  <2>2. i + 1 = j + 1
    BY <2>1 DEF PathIn
  <2> QED BY <2>2, <1>1, <1>2
<1>7. PathIn(h, r, h[a].next)
  BY <1>2, <1>4, <1>5, <1>6 DEF PathIn
<1>8. ASSUME NEW b PROVE On(s, b) <=> b = a \/ On(r, b)
  <2>1. ASSUME NEW i \in 1..Len(s), s[i] = b PROVE b = a \/ On(r, b)
    <3>1. CASE i = 1
      BY <2>1, <3>1, <1>1
    <3>2. CASE i # 1
      <4>1. i - 1 \in 1..Len(r) /\ i - 1 + 1 = i
        BY <3>2, <1>1, <1>2
      <4>2. r[i - 1] = s[i]
        BY <4>1, <1>2
      <4> QED BY <2>1, <4>1, <4>2 DEF On
    <3> QED BY <3>1, <3>2
  <2>2. b = a => On(s, b)
    BY <1>1, <1>3 DEF On
  <2>3. On(r, b) => On(s, b)
    BY <1>2 DEF On
  <2> QED BY <2>1, <2>2, <2>3 DEF On
<1>9. ~On(r, a)
  <2> SUFFICES ASSUME NEW i \in 1..Len(r), r[i] = a PROVE FALSE
    BY DEF On
  <2>1. i + 1 \in 1..Len(s) /\ s[i + 1] = s[1]
    BY <1>1, <1>2
  <2>2. i + 1 = 1
    BY <2>1, <1>3 DEF PathIn
  <2> QED BY <2>2, <1>1, <1>2
<1>10. Head(ValuesIn(h, s)) = h[a].value
  BY <1>1, <1>3 DEF ValuesIn
<1>11. Tail(ValuesIn(h, s)) = ValuesIn(h, r)
  <2> DEFINE v == ValuesIn(h, s)
             U == {h[s[i]].value : i \in 1..Len(s)}
  <2>1. v \in Seq(U) /\ Len(v) = Len(s) /\ \A i \in 1..Len(s) : v[i] = h[s[i]].value
    BY <1>1 DEF ValuesIn
  <2> HIDE DEF v, U
  <2>2. /\ Tail(v) \in Seq(U) /\ Len(Tail(v)) = Len(r)
        /\ \A i \in 1..Len(r) : Tail(v)[i] = v[i + 1]
    BY <2>1, <1>1, <1>2
  <2> DEFINE w == Tail(v)
  <2> HIDE DEF w
  <2>3. DOMAIN w = 1..Len(r) /\ w = [i \in 1..Len(r) |-> w[i]]
    <3>1. w \in Seq(U) /\ Len(w) = Len(r)
      BY <2>2 DEF w
    <3> QED BY <3>1
  <2>4. ASSUME NEW i \in 1..Len(r) PROVE w[i] = h[r[i]].value
    BY <2>1, <2>2, <1>2 DEF w
  <2>5. w = ValuesIn(h, r)
    BY <2>3, <2>4 DEF ValuesIn
  <2> QED BY <2>5 DEF w, v
<1> QED BY <1>1, <1>3, <1>7, <1>8, <1>9, <1>10, <1>11 DEF r

-----------------------------------------------------------------------------
(* The lists.                                                              *)

\* Every node is in one place: the list at head, the chain scheduleAll walks,
\* the node it deletes, or the node of one producer.
Disjoint(hs, ws) ==
  /\ \A a \in Addrs : ~(On(hs, a) /\ On(ws, a))
  /\ \A p \in Producers : ppc[p] # "idle" => ~On(hs, node[p]) /\ ~On(ws, node[p])
  /\ \A p \in Producers, q \in Producers :
       p # q /\ ppc[p] # "idle" /\ ppc[q] # "idle" => node[p] # node[q]
  /\ cpc = "delete" => /\ ~On(hs, temp) /\ ~On(ws, temp)
                       /\ \A p \in Producers : ppc[p] # "idle" => node[p] # temp

\* A node is allocated only while it is in one of these places.
Accounted(hs, ws) ==
  \A a \in Addrs : heap[a] # Free =>
    \/ On(hs, a) \/ On(ws, a)
    \/ cpc = "delete" /\ temp = a
    \/ \E p \in Producers : ppc[p] # "idle" /\ node[p] = a

\* Where the threads are tells what they hold.
Local ==
  /\ \A p \in Producers : ppc[p] # "idle" => node[p] \in Addrs /\ heap[node[p]] # Free
  /\ \A p \in Producers : ppc[p] = "cas" => heap[node[p]].next = old[p]
  /\ cpc \in {"add", "advance"} => walk \in Addrs /\ heap[walk] # Free
  /\ cpc = "exchange" => walk = Null
  /\ cpc = "delete" => temp \in Addrs /\ heap[temp] # Free

ListInv(hs, ws) ==
  /\ TypeOK
  /\ Local
  /\ Path(hs, head) /\ Path(ws, walk)
  /\ Disjoint(hs, ws)
  /\ Accounted(hs, ws)

LInv == \E hs \in Seq(Addrs), ws \in Seq(Addrs) : ListInv(hs, ws)

\* The list is empty at first.
LEMMA ListInit == Init => ListInv(<<>>, <<>>)
<1> SUFFICES ASSUME Init PROVE ListInv(<<>>, <<>>)
  OBVIOUS
<1>1. TypeOK
  BY DEF Init, TypeOK
<1>2. Local /\ Path(<<>>, head) /\ Path(<<>>, walk)
  BY DEF Init, Local, Path, PathIn
<1>3. Disjoint(<<>>, <<>>) /\ Accounted(<<>>, <<>>)
  BY DEF Init, Disjoint, Accounted, On
<1> QED BY <1>1, <1>2, <1>3 DEF ListInv

\* Types are kept: no thread dereferences a null or a freed address.
LEMMA TypeStep ==
  ASSUME TypeOK, Local, [Next]_vars
  PROVE  TypeOK'
<1> USE DEF TypeOK
<1>1. ASSUME NEW p \in Producers, NEW t \in Tasks, NewNode(p, t) PROVE TypeOK'
  <2>1. PICK a \in Addrs :
          /\ heap' = [heap EXCEPT ![a] = [value |-> t, next |-> Null]]
          /\ node' = [node EXCEPT ![p] = a]
    BY <1>1 DEF NewNode
  <2>2. [value |-> t, next |-> Null] \in Nodes
    BY DEF Nodes
  <2>3. heap' \in [Addrs -> Nodes \cup {Free}]
    BY <2>1, <2>2
  <2> QED BY <1>1, <2>1, <2>3 DEF NewNode, consumerVars
<1>2. ASSUME NEW p \in Producers, Link(p) PROVE TypeOK'
  <2>1. node[p] \in Addrs /\ heap[node[p]] \in Nodes /\ old[p] \in Addrs \cup {Null}
    BY <1>2 DEF Link, Local
  <2>2. heap' = [heap EXCEPT ![node[p]] = [heap[node[p]] EXCEPT !.next = old[p]]]
    BY <1>2 DEF Link
  <2>3. [heap[node[p]] EXCEPT !.next = old[p]] \in Nodes
    BY <2>1 DEF Nodes
  <2>4. heap' \in [Addrs -> Nodes \cup {Free}]
    BY <2>1, <2>2, <2>3
  <2> QED BY <1>2, <2>4 DEF Link, consumerVars
<1>3. ASSUME NEW p \in Producers, LoadHead(p) \/ CasSucceeds(p) \/ CasFails(p) PROVE TypeOK'
  BY <1>3 DEF LoadHead, CasSucceeds, CasFails, consumerVars
<1>4. CASE Exchange
  BY <1>4 DEF Exchange, producerVars
<1>5. CASE AddOne
  <2>1. walk \in Addrs /\ cpc \in {"add", "advance"}
    BY <1>5 DEF AddOne, Local
  <2>2. heap[walk].value \in Tasks
    BY <2>1, <1>5 DEF AddOne, Local, Nodes
  <2> QED BY <1>5, <2>2 DEF AddOne, producerVars
<1>6. CASE Advance
  <2>1. walk \in Addrs
    BY <1>6 DEF Advance, Local
  <2>2. heap[walk].next \in Addrs \cup {Null}
    BY <2>1, <1>6 DEF Advance, Local, Nodes
  <2> QED BY <1>6, <2>2 DEF Advance, producerVars
<1>7. CASE Delete
  BY <1>7 DEF Delete, producerVars
<1>8. CASE UNCHANGED vars
  BY <1>8 DEF vars, producerVars, consumerVars
<1> QED
  BY <1>1, <1>2, <1>3, <1>4, <1>5, <1>6, <1>7, <1>8 DEF Next, Produce, Consume

\* The steps that leave both lists as they are: the node they allocate, link
\* or free is on neither.
LEMMA QuietStep ==
  ASSUME NEW hs \in Seq(Addrs), NEW ws \in Seq(Addrs), ListInv(hs, ws),
         \/ \E p \in Producers : \/ \E t \in Tasks : NewNode(p, t)
                                 \/ LoadHead(p) \/ Link(p) \/ CasFails(p)
         \/ AddOne \/ Delete \/ UNCHANGED vars
  PROVE  /\ ListInv(hs, ws)' /\ head' = head /\ walk' = walk
         /\ ValuesIn(heap', hs) = ValuesIn(heap, hs)
         /\ ValuesIn(heap', ws) = ValuesIn(heap, ws)
<1> USE DEF ListInv
<1>0. TypeOK'
  BY TypeStep DEF Next, Produce, Consume
<1>1. \A b \in Addrs : On(hs, b) \/ On(ws, b) => heap[b] # Free
  BY DEF Path, PathIn, On
<1> DEFINE Kept == \A b \in Addrs : On(hs, b) \/ On(ws, b) => heap'[b] = heap[b]
<1>2. ASSUME Kept, head' = head, walk' = walk
      PROVE  /\ Path(hs, head)' /\ Path(ws, walk)'
             /\ ValuesIn(heap', hs) = ValuesIn(heap, hs)
             /\ ValuesIn(heap', ws) = ValuesIn(heap, ws)
  <2>1. PathIn(heap, hs, head) /\ PathIn(heap, ws, walk)
    BY DEF Path
  <2>2. PathIn(heap', hs, head) /\ ValuesIn(heap', hs) = ValuesIn(heap, hs)
    BY <1>2, <2>1, PathKept
  <2>3. PathIn(heap', ws, walk) /\ ValuesIn(heap', ws) = ValuesIn(heap, ws)
    BY <1>2, <2>1, PathKept
  <2> QED BY <1>2, <2>2, <2>3 DEF Path
<1>3. ASSUME NEW p \in Producers, NEW t \in Tasks, NewNode(p, t)
      PROVE  Kept /\ head' = head /\ walk' = walk /\ Local' /\ Disjoint(hs, ws)' /\ Accounted(hs, ws)'
  <2>1. PICK a \in Addrs :
          /\ heap[a] = Free
          /\ heap' = [heap EXCEPT ![a] = [value |-> t, next |-> Null]]
          /\ node' = [node EXCEPT ![p] = a]
    BY <1>3 DEF NewNode
  <2>2. /\ ppc[p] = "idle" /\ ppc' = [ppc EXCEPT ![p] = "load"]
        /\ UNCHANGED <<head, old, cpc, walk, temp>>
    BY <1>3 DEF NewNode, consumerVars
  <2>3. [value |-> t, next |-> Null] # Free
    BY FreeAssumption DEF Nodes
  <2>4. \A b \in Addrs : b # a => heap'[b] = heap[b]
    BY <2>1 DEF TypeOK
  <2>5. heap'[a] # Free
    BY <2>1, <2>3 DEF TypeOK
  <2>6. /\ node'[p] = a /\ ppc'[p] = "load"
        /\ \A q \in Producers : q # p => node'[q] = node[q] /\ ppc'[q] = ppc[q]
    BY <2>1, <2>2 DEF TypeOK
  <2>7. Kept
    BY <1>1, <2>1, <2>4
  <2>8. Local'
    BY <2>1, <2>2, <2>4, <2>5, <2>6 DEF Local
  <2>9. Disjoint(hs, ws)'
    BY <1>1, <2>1, <2>2, <2>6 DEF Disjoint, Local
  <2>10. Accounted(hs, ws)'
    BY <2>1, <2>2, <2>4, <2>6 DEF Accounted
  <2> QED BY <2>2, <2>7, <2>8, <2>9, <2>10
<1>4. ASSUME NEW p \in Producers, LoadHead(p) \/ CasFails(p)
      PROVE  Kept /\ head' = head /\ walk' = walk /\ Local' /\ Disjoint(hs, ws)' /\ Accounted(hs, ws)'
  <2>1. /\ UNCHANGED <<heap, head, node, cpc, walk, temp>>
        /\ ppc[p] # "idle" /\ ppc' = [ppc EXCEPT ![p] = "link"]
        /\ \A q \in Producers : q # p => old'[q] = old[q]
    BY <1>4 DEF LoadHead, CasFails, consumerVars, TypeOK
  <2>2. \A q \in Producers : ppc'[q] = "idle" <=> ppc[q] = "idle"
    BY <2>1 DEF TypeOK
  <2>3. \A q \in Producers : ppc'[q] = "cas" => q # p /\ ppc[q] = "cas"
    BY <2>1 DEF TypeOK
  <2>4. Local'
    BY <2>1, <2>2, <2>3 DEF Local
  <2>5. Disjoint(hs, ws)' /\ Accounted(hs, ws)'
    BY <2>1, <2>2 DEF Disjoint, Accounted
  <2> QED BY <2>1, <2>4, <2>5
<1>5. ASSUME NEW p \in Producers, Link(p)
      PROVE  Kept /\ head' = head /\ walk' = walk /\ Local' /\ Disjoint(hs, ws)' /\ Accounted(hs, ws)'
  <2>1. /\ UNCHANGED <<head, node, old, cpc, walk, temp>>
        /\ ppc[p] # "idle" /\ ppc' = [ppc EXCEPT ![p] = "cas"]
        /\ heap' = [heap EXCEPT ![node[p]] = [heap[node[p]] EXCEPT !.next = old[p]]]
    BY <1>5 DEF Link, consumerVars
  <2>2. node[p] \in Addrs /\ heap[node[p]] \in Nodes /\ old[p] \in Addrs \cup {Null}
    BY <2>1 DEF Local, TypeOK
  <2>3. /\ heap'[node[p]] = [heap[node[p]] EXCEPT !.next = old[p]]
        /\ \A b \in Addrs : b # node[p] => heap'[b] = heap[b]
    BY <2>1, <2>2 DEF TypeOK
  <2>4. heap'[node[p]].next = old[p] /\ heap'[node[p]] \in Nodes
    BY <2>2, <2>3 DEF Nodes
  <2>5. heap'[node[p]] # Free
    BY <2>4, FreeAssumption
  <2>6. \A q \in Producers : ppc'[q] = "idle" <=> ppc[q] = "idle"
    BY <2>1 DEF TypeOK
  <2>7. \A q \in Producers : q # p => ppc'[q] = ppc[q]
    BY <2>1 DEF TypeOK
  <2>8. \A q \in Producers : q # p /\ ppc[q] # "idle" => node[q] # node[p]
    BY <2>1 DEF Disjoint
  <2>9. Kept
    BY <2>1, <2>3 DEF Disjoint
  <2>10. Local'
    <3>1. \A q \in Producers : ppc'[q] # "idle" => node'[q] \in Addrs /\ heap'[node'[q]] # Free
      BY <2>1, <2>2, <2>3, <2>5, <2>6, <2>8 DEF Local
    <3>2. \A q \in Producers : ppc'[q] = "cas" => heap'[node'[q]].next = old'[q]
      BY <2>1, <2>3, <2>4, <2>7, <2>8 DEF Local
    <3>3. /\ cpc' \in {"add", "advance"} => walk' \in Addrs /\ heap'[walk'] # Free
          /\ cpc' = "exchange" => walk' = Null
          /\ cpc' = "delete" => temp' \in Addrs /\ heap'[temp'] # Free
      BY <2>1, <2>3, <2>5 DEF Local
    <3> QED BY <3>1, <3>2, <3>3 DEF Local
  <2>11. Disjoint(hs, ws)'
    BY <2>1, <2>6 DEF Disjoint
  <2>12. Accounted(hs, ws)'
    BY <2>1, <2>3, <2>6 DEF Accounted
  <2> QED BY <2>1, <2>9, <2>10, <2>11, <2>12
<1>6. ASSUME AddOne
      PROVE  Kept /\ head' = head /\ walk' = walk /\ Local' /\ Disjoint(hs, ws)' /\ Accounted(hs, ws)'
  <2>1. UNCHANGED <<heap, head, ppc, node, old, walk, temp>> /\ cpc = "add" /\ cpc' = "advance"
    BY <1>6 DEF AddOne, producerVars
  <2> QED BY <2>1 DEF Local, Disjoint, Accounted
<1>7. ASSUME Delete
      PROVE  Kept /\ head' = head /\ walk' = walk /\ Local' /\ Disjoint(hs, ws)' /\ Accounted(hs, ws)'
  <2>1. /\ UNCHANGED <<head, ppc, node, old, walk>> /\ cpc = "delete"
        /\ heap' = [heap EXCEPT ![temp] = Free]
        /\ cpc' = IF walk = Null THEN "exchange" ELSE "add"
    BY <1>7 DEF Delete, producerVars
  <2>2. temp \in Addrs /\ heap'[temp] = Free /\ \A b \in Addrs : b # temp => heap'[b] = heap[b]
    BY <2>1 DEF Local, TypeOK
  <2>3. Kept
    BY <2>1, <2>2 DEF Disjoint
  <2>4. \A q \in Producers : ppc[q] # "idle" => node[q] # temp
    BY <2>1 DEF Disjoint
  <2>5. walk # Null => walk \in Addrs /\ heap'[walk] # Free
    <3>1. walk # Null => walk \in Addrs /\ On(ws, walk)
      <4>1. PathIn(heap, ws, walk)
        BY DEF Path
      <4> QED BY <4>1, PathPop
    <3> QED BY <3>1, <2>3, <1>1
  <2>6. Local'
    <3>1. \A q \in Producers : ppc'[q] # "idle" => node'[q] \in Addrs /\ heap'[node'[q]] # Free
      BY <2>1, <2>2, <2>4 DEF Local
    <3>2. \A q \in Producers : ppc'[q] = "cas" => heap'[node'[q]].next = old'[q]
      BY <2>1, <2>2, <2>4 DEF Local
    <3> QED BY <3>1, <3>2, <2>1, <2>5 DEF Local
  <2>7. Disjoint(hs, ws)'
    BY <2>1 DEF Disjoint
  <2>8. Accounted(hs, ws)'
    BY <2>1, <2>2 DEF Accounted
  <2> QED BY <2>1, <2>3, <2>6, <2>7, <2>8
<1>8. ASSUME UNCHANGED vars
      PROVE  Kept /\ head' = head /\ walk' = walk /\ Local' /\ Disjoint(hs, ws)' /\ Accounted(hs, ws)'
  BY <1>8 DEF vars, producerVars, consumerVars, Local, Disjoint, Accounted
<1>9. Kept /\ head' = head /\ walk' = walk /\ Local' /\ Disjoint(hs, ws)' /\ Accounted(hs, ws)'
  <2> HIDE DEF Kept
  <2> QED BY <1>3, <1>4, <1>5, <1>6, <1>7, <1>8
<1> QED BY <1>0, <1>2, <1>9

\* A successful compare-exchange puts the node in front of the list it saw,
\* even if the head was taken and its address reused in between.
LEMMA PushStep ==
  ASSUME NEW hs \in Seq(Addrs), NEW ws \in Seq(Addrs), ListInv(hs, ws),
         NEW p \in Producers, CasSucceeds(p)
  PROVE  \E n \in Addrs :
           /\ ListInv(<<n>> \o hs, ws)'
           /\ heap' = heap /\ heap[n].value \in Tasks
           /\ ValuesIn(heap, <<n>> \o hs) = <<heap[n].value>> \o ValuesIn(heap, hs)
<1>n. node[p] \in Addrs
  BY DEF CasSucceeds, ListInv, Local
<1>p. PICK n \in Addrs : n = node[p]
  BY <1>n
<1> DEFINE gs == <<n>> \o hs
<1>1. /\ UNCHANGED <<heap, node, old, cpc, walk, temp>>
      /\ ppc[p] = "cas" /\ ppc' = [ppc EXCEPT ![p] = "idle"] /\ head = old[p] /\ head' = n
  BY <1>p DEF CasSucceeds, consumerVars
<1>2. n \in Addrs /\ heap[n] # Free /\ heap[n].next = head /\ ~On(hs, n) /\ ~On(ws, n)
  BY <1>1, <1>p DEF ListInv, Local, Disjoint
<1>3. PathIn(heap, hs, head)
  BY DEF ListInv, Path
<1>t. TypeOK' /\ heap[n].value \in Tasks
  <2>1. TypeOK'
    BY TypeStep DEF ListInv, Next, Produce
  <2>2. heap[n] \in Nodes
    BY <1>2 DEF ListInv, TypeOK
  <2> QED BY <2>1, <2>2 DEF Nodes
<1>4. /\ PathIn(heap, gs, n)
      /\ \A b : On(gs, b) <=> b = n \/ On(hs, b)
      /\ ValuesIn(heap, gs) = <<heap[n].value>> \o ValuesIn(heap, hs)
  BY <1>2, <1>3, PathPush
<1> HIDE DEF gs
<1>5. /\ ppc'[p] = "idle" /\ \A q \in Producers : q # p => ppc'[q] = ppc[q]
  BY <1>1 DEF ListInv, TypeOK
<1>6. Local'
  BY <1>1, <1>5 DEF Local, ListInv
<1>7. Disjoint(gs, ws)'
  <2>1. \A q \in Producers : ppc'[q] # "idle" => q # p /\ ppc[q] # "idle"
    BY <1>5
  <2>2. \A q \in Producers : q # p /\ ppc[q] # "idle" => node[q] # n
    BY <1>1, <1>p DEF ListInv, Disjoint
  <2>3. cpc = "delete" => temp # n
    BY <1>1, <1>p DEF ListInv, Disjoint
  <2> QED BY <1>1, <1>2, <1>4, <2>1, <2>2, <2>3 DEF ListInv, Disjoint
<1>8. Accounted(gs, ws)'
  <2> SUFFICES ASSUME NEW a \in Addrs, heap[a] # Free
               PROVE  \/ On(gs, a) \/ On(ws, a)
                      \/ cpc = "delete" /\ temp = a
                      \/ \E q \in Producers : ppc'[q] # "idle" /\ node[q] = a
    BY <1>1 DEF Accounted
  <2>1. CASE a = n
    BY <2>1, <1>4
  <2>2. CASE a # n
    BY <2>2, <1>4, <1>5, <1>p DEF ListInv, Accounted
  <2> QED BY <2>1, <2>2
<1>9. Path(gs, head)' /\ Path(ws, walk)'
  BY <1>1, <1>4 DEF ListInv, Path
<1>10. ListInv(gs, ws)'
  BY <1>t, <1>6, <1>7, <1>8, <1>9 DEF ListInv
<1> QED BY <1>1, <1>2, <1>t, <1>4, <1>10 DEF gs

\* scheduleAll takes the whole list.
LEMMA ExchangeStep ==
  ASSUME NEW hs \in Seq(Addrs), NEW ws \in Seq(Addrs), ListInv(hs, ws), Exchange
  PROVE  ListInv(<<>>, hs)' /\ heap' = heap /\ hs # <<>> /\ ws = <<>>
<1>1. /\ UNCHANGED <<heap, ppc, node, old, temp>> /\ cpc = "exchange" /\ cpc' = "add"
      /\ head # Null /\ walk' = head /\ head' = Null
  BY DEF Exchange, producerVars
<1>2. walk = Null /\ Path(hs, head) /\ Path(ws, walk)
  BY <1>1 DEF ListInv, Local
<1>3. ws = <<>> /\ hs # <<>>
  <2>1. ws # <<>> => walk \in Addrs
    BY <1>2 DEF Path, PathIn
  <2> QED BY <1>1, <1>2, <2>1, NullAssumption DEF Path, PathIn
<1>4. \A b : ~On(<<>>, b)
  BY DEF On
<1>5. TypeOK'
  BY TypeStep DEF ListInv, Next, Consume
<1>6. Path(<<>>, head)' /\ Path(hs, walk)'
  BY <1>1, <1>2 DEF Path, PathIn
<1>7. head \in Addrs /\ heap[head] # Free
  BY <1>1, <1>2, PathPop DEF Path
<1>8. Local'
  BY <1>1, <1>7 DEF ListInv, Local
<1>9. Disjoint(<<>>, hs)'
  BY <1>1, <1>4 DEF ListInv, Disjoint
<1>10. Accounted(<<>>, hs)'
  BY <1>1, <1>3, <1>4 DEF ListInv, Accounted
<1> QED BY <1>1, <1>3, <1>5, <1>6, <1>8, <1>9, <1>10 DEF ListInv

\* scheduleAll goes on to the next node before it deletes this one.
LEMMA AdvanceStep ==
  ASSUME NEW hs \in Seq(Addrs), NEW ws \in Seq(Addrs), ListInv(hs, ws), Advance
  PROVE  ListInv(hs, Tail(ws))' /\ heap' = heap /\ ws # <<>>
<1>1. /\ UNCHANGED <<heap, head, ppc, node, old>> /\ cpc = "advance" /\ cpc' = "delete"
      /\ temp' = walk /\ walk' = heap[walk].next
  BY DEF Advance, producerVars
<1>2. PathIn(heap, ws, walk) /\ walk # Null /\ walk \in Addrs
  BY <1>1, NullAssumption DEF ListInv, Local, Path
<1> DEFINE vs == Tail(ws)
<1>3. /\ PathIn(heap, vs, heap[walk].next)
      /\ walk \in Addrs /\ heap[walk] # Free /\ ws # <<>>
      /\ \A b : On(ws, b) <=> b = walk \/ On(vs, b)
      /\ ~On(vs, walk)
  BY <1>2, PathPop
<1> HIDE DEF vs
<1>4. TypeOK'
  BY TypeStep DEF ListInv, Next, Consume
<1>5. Path(hs, head)' /\ Path(vs, walk)'
  BY <1>1, <1>3 DEF ListInv, Path
<1>6. Local'
  BY <1>1, <1>3 DEF ListInv, Local
<1>7. Disjoint(hs, vs)'
  BY <1>1, <1>3 DEF ListInv, Disjoint
<1>8. Accounted(hs, vs)'
  BY <1>1, <1>3 DEF ListInv, Accounted
<1> QED BY <1>1, <1>3, <1>4, <1>5, <1>6, <1>7, <1>8 DEF ListInv, vs

\* The lists stay lists in every interleaving.
LEMMA ListStep == LInv /\ [Next]_vars => LInv'
<1> SUFFICES ASSUME NEW hs \in Seq(Addrs), NEW ws \in Seq(Addrs), ListInv(hs, ws), [Next]_vars
             PROVE  \E gs \in Seq(Addrs), vs \in Seq(Addrs) : ListInv(gs, vs)'
  BY DEF LInv
<1>1. ASSUME NEW p \in Producers, CasSucceeds(p)
      PROVE  \E gs \in Seq(Addrs), vs \in Seq(Addrs) : ListInv(gs, vs)'
  <2>1. PICK n \in Addrs : ListInv(<<n>> \o hs, ws)'
    BY <1>1, PushStep
  <2>2. <<n>> \o hs \in Seq(Addrs)
    OBVIOUS
  <2> QED BY <2>1, <2>2
<1>2. CASE Exchange
  <2>1. ListInv(<<>>, hs)' /\ <<>> \in Seq(Addrs)
    BY <1>2, ExchangeStep
  <2> QED BY <2>1
<1>3. CASE Advance
  <2>1. ListInv(hs, Tail(ws))' /\ Tail(ws) \in Seq(Addrs)
    BY <1>3, AdvanceStep
  <2> QED BY <2>1
<1>4. ASSUME \/ \E p \in Producers : \/ \E t \in Tasks : NewNode(p, t)
                                     \/ LoadHead(p) \/ Link(p) \/ CasFails(p)
             \/ AddOne \/ Delete \/ UNCHANGED vars
      PROVE  \E gs \in Seq(Addrs), vs \in Seq(Addrs) : ListInv(gs, vs)'
  BY <1>4, QuietStep
<1> QED BY <1>1, <1>2, <1>3, <1>4 DEF Next, Produce, Consume

\* The lists reached from head and walk, in terms of the recursive definitions.
LEMMA ListsOf ==
  ASSUME NEW hs \in Seq(Addrs), NEW ws \in Seq(Addrs), ListInv(hs, ws)
  PROVE  ListIs(hs, head) /\ ListIs(ws, walk)
<1>1. head \in Addrs \cup {Null} /\ walk \in Addrs \cup {Null} /\ Path(hs, head) /\ Path(ws, walk)
  BY DEF ListInv, TypeOK
<1> QED BY <1>1, PathIsList DEF PathsAreLists

\* The invariant holds at first.
LEMMA LInvInit == Init => LInv
<1>1. <<>> \in Seq(Addrs)
  OBVIOUS
<1> QED BY <1>1, ListInit DEF LInv

\* Every variable of the list keeps its type.
THEOREM ListTypeCorrect == Spec => []TypeOK
<1>1. LInv => TypeOK
  BY DEF LInv, ListInv
<1> QED BY LInvInit, ListStep, <1>1, PTL DEF Spec

\* No node that a thread may still read is freed, and the two lists stay
\* finite, disjoint and allocated: the compare-exchange of insertFront is
\* sound though addresses are reused while it runs.
THEOREM ListIsSound == Spec => []NoDangling
<1>1. LInv => NoDangling
  <2> SUFFICES ASSUME NEW hs \in Seq(Addrs), NEW ws \in Seq(Addrs), ListInv(hs, ws)
               PROVE  NoDangling
    BY DEF LInv
  <2>1. ListIs(hs, head) /\ ListIs(ws, walk)
    BY ListsOf
  <2>2. /\ \A a : a \in ListAddrs(head) <=> On(hs, a)
        /\ \A a : a \in ListAddrs(walk) <=> On(ws, a)
    BY <2>1 DEF ListIs, On
  <2>3. \A a : On(hs, a) => a \in Addrs
    BY DEF On
  <2>4. ListAddrs(head) \cap ListAddrs(walk) = {}
    BY <2>2, <2>3 DEF ListInv, Disjoint
  <2>5. \A p \in Producers : ppc[p] # "idle" =>
          heap[node[p]] # Free /\ node[p] \notin ListAddrs(head) \cup ListAddrs(walk)
    BY <2>2 DEF ListInv, Disjoint, Local
  <2>6. cpc = "delete" => heap[temp] # Free
    BY DEF ListInv, Local
  <2>7. WellFormedFrom(head) /\ WellFormedFrom(walk)
    BY <2>1 DEF ListIs
  <2> QED BY <2>4, <2>5, <2>6, <2>7 DEF NoDangling
<1> QED BY LInvInit, ListStep, <1>1, PTL DEF Spec

\* Every node insertFront allocated is on a list, about to be linked or about
\* to be deleted.
THEOREM NothingLeaks == Spec => []NoLeak
<1>1. LInv => NoLeak
  <2> SUFFICES ASSUME NEW hs \in Seq(Addrs), NEW ws \in Seq(Addrs), ListInv(hs, ws)
               PROVE  NoLeak
    BY DEF LInv
  <2>1. ListIs(hs, head) /\ ListIs(ws, walk)
    BY ListsOf
  <2>2. /\ \A a : a \in ListAddrs(head) <=> On(hs, a)
        /\ \A a : a \in ListAddrs(walk) <=> On(ws, a)
    BY <2>1 DEF ListIs, On
  <2> QED BY <2>2 DEF NoLeak, ListInv, Accounted
<1> QED BY LInvInit, ListStep, <1>1, PTL DEF Spec

-----------------------------------------------------------------------------
(* The list implements the atomic stack.                                   *)

\* What the stack and the batch are, in terms of the two lists.
LEMMA StackOf ==
  ASSUME NEW hs \in Seq(Addrs), NEW ws \in Seq(Addrs), ListInv(hs, ws)
  PROVE  /\ ListValues(head) = ValuesIn(heap, hs)
         /\ Batch = IF cpc = "advance" THEN Tail(ValuesIn(heap, ws)) ELSE ValuesIn(heap, ws)
  BY ListsOf DEF ListIs, Batch

\* The refinement mapping after a step, read off the two lists.
LEMMA StackOfNext ==
  ASSUME NEW hs \in Seq(Addrs), NEW ws \in Seq(Addrs), ListInv(hs, ws)'
  PROVE  /\ ListValues(head)' = ValuesIn(heap', hs)
         /\ Batch' = IF cpc' = "advance" THEN Tail(ValuesIn(heap', ws)) ELSE ValuesIn(heap', ws)
<1>1. /\ head' \in Addrs \cup {Null} /\ walk' \in Addrs \cup {Null}
      /\ Path(hs, head)' /\ Path(ws, walk)'
  BY DEF ListInv, TypeOK
<1>2. ListIs(hs, head)' /\ ListIs(ws, walk)'
  BY <1>1, PathIsListNext DEF PathsAreLists
<1> QED BY <1>2 DEF ListIs, Batch

\* Each step of the list is a step of the stack or leaves it as it is.
LEMMA RefinesStep == LInv /\ [Next]_vars => [Stack!Next]_(Stack!vars)
<1> SUFFICES ASSUME NEW hs \in Seq(Addrs), NEW ws \in Seq(Addrs), ListInv(hs, ws), [Next]_vars
             PROVE  [Stack!Next]_(Stack!vars)
  BY DEF LInv
<1> DEFINE H == ValuesIn(heap, hs)
           W == ValuesIn(heap, ws)
<1>0. ListValues(head) = H /\ Batch = IF cpc = "advance" THEN Tail(W) ELSE W
  BY StackOf
<1>e. ValuesIn(heap, <<>>) = <<>>
  BY DEF ValuesIn
<1>1. ASSUME NEW p \in Producers, CasSucceeds(p) PROVE \E t \in Tasks : Stack!Push(t)
  <2>1. PICK n \in Addrs : /\ ListInv(<<n>> \o hs, ws)'
                           /\ heap' = heap /\ heap[n].value \in Tasks
                           /\ ValuesIn(heap, <<n>> \o hs) = <<heap[n].value>> \o H
    BY <1>1, PushStep
  <2>2. <<n>> \o hs \in Seq(Addrs)
    OBVIOUS
  <2>3. /\ ListValues(head)' = ValuesIn(heap, <<n>> \o hs)
        /\ Batch' = IF cpc' = "advance" THEN Tail(W) ELSE W
    BY <2>1, <2>2, StackOfNext
  <2>4. cpc' = cpc /\ delivered' = delivered
    BY <1>1 DEF CasSucceeds, consumerVars
  <2> HIDE DEF H, W
  <2>5. ListValues(head)' = <<heap[n].value>> \o ListValues(head) /\ Batch' = Batch
    BY <1>0, <2>1, <2>3, <2>4
  <2>6. Stack!Push(heap[n].value)
    BY <2>4, <2>5 DEF Stack!Push
  <2> QED BY <2>1, <2>6
<1>2. ASSUME Exchange PROVE Stack!TakeAll
  <2>1. ListInv(<<>>, hs)' /\ heap' = heap /\ hs # <<>> /\ ws = <<>> /\ <<>> \in Seq(Addrs)
    BY <1>2, ExchangeStep
  <2>2. /\ ListValues(head)' = ValuesIn(heap', <<>>)
        /\ Batch' = IF cpc' = "advance" THEN Tail(ValuesIn(heap', hs)) ELSE ValuesIn(heap', hs)
    BY <2>1, StackOfNext
  <2>3. cpc = "exchange" /\ cpc' = "add" /\ delivered' = delivered
    BY <1>2 DEF Exchange
  <2>4. H # <<>> /\ W = <<>>
    <3>1. Len(hs) # 0 /\ Len(hs) \in Nat
      BY <2>1
    <3>2. 1 \in DOMAIN H
      BY <3>1 DEF ValuesIn
    <3> QED BY <2>1, <3>2, <1>e
  <2> HIDE DEF H, W
  <2>5. ListValues(head) # <<>> /\ Batch = <<>>
    BY <1>0, <2>3, <2>4
  <2>6. ListValues(head)' = <<>> /\ Batch' = ListValues(head)
    BY <1>0, <1>e, <2>1, <2>2, <2>3 DEF H
  <2> QED BY <2>3, <2>5, <2>6 DEF Stack!TakeAll
<1>3. ASSUME AddOne PROVE Stack!Deliver
  <2>1. /\ ListInv(hs, ws)' /\ ValuesIn(heap', hs) = H /\ ValuesIn(heap', ws) = W
    BY <1>3, QuietStep
  <2>2. ListValues(head)' = H /\ Batch' = IF cpc' = "advance" THEN Tail(W) ELSE W
    BY <2>1, StackOfNext
  <2>3. /\ cpc = "add" /\ cpc' = "advance"
        /\ delivered' = Append(delivered, heap[walk].value)
    BY <1>3 DEF AddOne
  <2>4. PathIn(heap, ws, walk) /\ walk # Null
    BY <2>3, NullAssumption DEF ListInv, Local, Path
  <2>5. ws # <<>> /\ Head(W) = heap[walk].value
    BY <2>4, PathPop
  <2>6. W # <<>>
    <3>1. Len(ws) # 0 /\ Len(ws) \in Nat
      BY <2>5
    <3>2. 1 \in DOMAIN W
      BY <3>1 DEF ValuesIn
    <3> QED BY <3>2
  <2> HIDE DEF H, W
  <2>7. /\ Batch # <<>> /\ Batch' = Tail(Batch) /\ ListValues(head)' = ListValues(head)
        /\ delivered' = Append(delivered, Head(Batch))
    BY <1>0, <2>2, <2>3, <2>5, <2>6
  <2> QED BY <2>7 DEF Stack!Deliver
<1>4. ASSUME Advance PROVE UNCHANGED Stack!vars
  <2>1. ListInv(hs, Tail(ws))' /\ heap' = heap /\ ws # <<>> /\ Tail(ws) \in Seq(Addrs)
    BY <1>4, AdvanceStep
  <2>2. /\ ListValues(head)' = ValuesIn(heap', hs)
        /\ Batch' = IF cpc' = "advance" THEN Tail(ValuesIn(heap', Tail(ws)))
                                        ELSE ValuesIn(heap', Tail(ws))
    BY <2>1, StackOfNext
  <2>3. cpc = "advance" /\ cpc' = "delete" /\ delivered' = delivered
    BY <1>4 DEF Advance
  <2>4. PathIn(heap, ws, walk) /\ walk # Null
    BY <2>3, NullAssumption DEF ListInv, Local, Path
  <2>5. Tail(W) = ValuesIn(heap, Tail(ws))
    BY <2>4, PathPop
  <2> HIDE DEF H, W
  <2>6. Batch' = Batch /\ ListValues(head)' = ListValues(head)
    BY <1>0, <2>1, <2>2, <2>3, <2>5 DEF H
  <2> QED BY <2>3, <2>6 DEF Stack!vars
<1>5. ASSUME \/ \E p \in Producers : \/ \E t \in Tasks : NewNode(p, t)
                                     \/ LoadHead(p) \/ Link(p) \/ CasFails(p)
             \/ Delete \/ UNCHANGED vars
      PROVE  UNCHANGED Stack!vars
  <2>1. ListInv(hs, ws)' /\ ValuesIn(heap', hs) = H /\ ValuesIn(heap', ws) = W
    BY <1>5, QuietStep
  <2>2. ListValues(head)' = H /\ Batch' = IF cpc' = "advance" THEN Tail(W) ELSE W
    BY <2>1, StackOfNext
  <2>3. (cpc' = "advance" <=> cpc = "advance") /\ delivered' = delivered
    BY <1>5 DEF NewNode, LoadHead, Link, CasFails, Delete, vars, consumerVars
  <2> HIDE DEF H, W
  <2>4. Batch' = Batch /\ ListValues(head)' = ListValues(head)
    BY <1>0, <2>2, <2>3
  <2> QED BY <2>3, <2>4 DEF Stack!vars
<1> QED BY <1>1, <1>2, <1>3, <1>4, <1>5 DEF Next, Produce, Consume, Stack!Next

\* The lock-free list is an atomic stack, whatever the number of producers and
\* however often an address is reused: insertFront takes effect at its
\* successful compare-exchange, scheduleAll at its exchange, and each task
\* taken is given to addExecutor once, newest first.
THEOREM ListIsAtomicStack == Spec => Stack!Safety
<1>1. Init => Stack!Init
  <2> SUFFICES ASSUME Init PROVE Stack!Init
    OBVIOUS
  <2>1. ListInv(<<>>, <<>>) /\ <<>> \in Seq(Addrs)
    BY ListInit
  <2>2. ValuesIn(heap, <<>>) = <<>>
    BY DEF ValuesIn
  <2>3. ListValues(head) = <<>> /\ Batch = <<>>
    <3>1. cpc # "advance"
      BY DEF Init
    <3> QED BY <2>1, <2>2, <3>1, StackOf
  <2> QED BY <2>3 DEF Init, Stack!Init
<1> QED BY <1>1, LInvInit, ListStep, RefinesStep, PTL DEF Spec, Stack!Safety
=============================================================================
