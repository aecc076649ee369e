--------------------------- MODULE AsyncLogProofs ---------------------------
(***************************************************************************)
(* The order of what AsyncFileLogFlusher writes, for every number of       *)
(* logging threads, every size of record and of buffer, and every way the  *)
(* system calls may write short or fail.                                   *)
(***************************************************************************)
EXTENDS AsyncLog, SequenceTheorems, WellFoundedInduction, TLAPS

-----------------------------------------------------------------------------
(* FlattenSeq.                                                             *)

\* A non-empty set of numbers has a least element.
LEMMA LeastOf ==
  ASSUME NEW T \in SUBSET Nat, T # {}
  PROVE  \E m \in T : \A n \in T : m <= n
<1> DEFINE R == OpToRel(<, Nat)
<1>1. IsWellFoundedOn(R, Nat)
  BY NatLessThanWellFounded
<1> HIDE DEF R
<1>2. PICK m \in T : \A n \in T : <<n, m>> \notin R
  BY <1>1, WFMin
<1>3. \A n \in T : ~(n < m)
  BY <1>2 DEF R, OpToRel
<1> QED BY <1>3

\* f joins the first n sequences of q.
Joins(f, q, n) == f = [i \in 1..n |-> IF i = 1 THEN q[i] ELSE f[i - 1] \o q[i]]

\* What a join is at each place.
LEMMA JoinsAt ==
  ASSUME NEW f, NEW q, NEW n, Joins(f, q, n)
  PROVE  \A i \in 1..n : f[i] = IF i = 1 THEN q[i] ELSE f[i - 1] \o q[i]
<1> DEFINE F(j) == IF j = 1 THEN q[j] ELSE f[j - 1] \o q[j]
<1>1. f = [j \in 1..n |-> F(j)]
  BY DEF Joins
<1> HIDE DEF F
<1>2. \A i \in 1..n : f[i] = F(i)
  BY <1>1
<1> QED BY <1>2 DEF F

\* Every sequence of sequences has a join.
LEMMA JoinsExists ==
  ASSUME NEW S, NEW q \in Seq(Seq(S))
  PROVE  \E f : Joins(f, q, Len(q))
<1> DEFINE T == {n \in 0..Len(q) : ~\E f : Joins(f, q, n)}
<1>1. Len(q) \in Nat
  OBVIOUS
<1> SUFFICES ASSUME T # {} PROVE FALSE
  BY <1>1
<1>2. PICK m \in T : \A n \in T : m <= n
  <2>1. T \in SUBSET Nat
    BY <1>1
  <2> QED BY <2>1, LeastOf
<1>3. m # 0
  <2>1. Joins([i \in 1..0 |-> q[i]], q, 0)
    BY DEF Joins
  <2> QED BY <2>1, <1>2
<1>4. m - 1 \in 0..Len(q) /\ m - 1 \notin T /\ m \in Nat
  <2>1. m \in 0..Len(q)
    OBVIOUS
  <2>2. m - 1 \in 0..Len(q) /\ ~(m <= m - 1) /\ m \in Nat
    BY <2>1, <1>1, <1>3
  <2> QED BY <2>2, <1>2
<1>5. PICK f : Joins(f, q, m - 1)
  BY <1>4
<1> DEFINE g == [i \in 1..m |-> IF i = m THEN (IF m = 1 THEN q[m] ELSE f[m - 1] \o q[m]) ELSE f[i]]
<1>6. ASSUME NEW i \in 1..m PROVE g[i] = IF i = 1 THEN q[i] ELSE g[i - 1] \o q[i]
  <2>1. CASE i = m
    <3>1. m # 1 => m - 1 \in 1..m /\ m - 1 # m
      BY <1>3, <1>4
    <3> QED BY <2>1, <3>1
  <2>2. CASE i # m
    <3>1. i \in 1..(m - 1)
      BY <2>2, <1>4
    <3>2. f[i] = IF i = 1 THEN q[i] ELSE f[i - 1] \o q[i]
      BY <3>1, <1>5 DEF Joins
    <3>3. i # 1 => i - 1 \in 1..m /\ i - 1 # m
      BY <3>1, <1>4
    <3> QED BY <2>2, <3>2, <3>3
  <2> QED BY <2>1, <2>2
<1>7. Joins(g, q, m)
  <2>1. g = [i \in 1..m |-> g[i]]
    OBVIOUS
  <2> HIDE DEF g
  <2> QED BY <2>1, <1>6 DEF Joins
<1> QED BY <1>2, <1>7

\* What FlattenSeq computes is the last of the joins.
LEMMA FlattenIs ==
  ASSUME NEW S, NEW q \in Seq(Seq(S))
  PROVE  \E f : /\ Joins(f, q, Len(q))
                /\ \A i \in 1..Len(q) : f[i] \in Seq(S)
                /\ FlattenSeq(q) = IF q = <<>> THEN <<>> ELSE f[Len(q)]
<1> DEFINE f == CHOOSE h : h = [i \in 1..Len(q) |-> IF i = 1 THEN q[i] ELSE h[i - 1] \o q[i]]
<1>1. FlattenSeq(q) = IF Len(q) = 0 THEN q ELSE f[Len(q)]
  BY DEF FlattenSeq
<1>2. Joins(f, q, Len(q))
  BY JoinsExists DEF Joins
<1> HIDE DEF f
<1>3. Len(q) \in Nat /\ (Len(q) = 0 <=> q = <<>>)
  OBVIOUS
<1>4. \A i \in 1..Len(q) : f[i] \in Seq(S)
  <2> DEFINE T == {i \in 1..Len(q) : f[i] \notin Seq(S)}
  <2> SUFFICES ASSUME T # {} PROVE FALSE
    OBVIOUS
  <2>1. PICK m \in T : \A n \in T : m <= n
    <3>1. T \in SUBSET Nat
      BY <1>3
    <3> QED BY <3>1, LeastOf
  <2>2. f[m] = IF m = 1 THEN q[m] ELSE f[m - 1] \o q[m]
    BY <1>2 DEF Joins
  <2>3. q[m] \in Seq(S)
    OBVIOUS
  <2>4. m # 1 => f[m - 1] \in Seq(S)
    <3> SUFFICES ASSUME m # 1 PROVE f[m - 1] \in Seq(S)
      OBVIOUS
    <3>1. m - 1 \in 1..Len(q) /\ ~(m <= m - 1)
      BY <1>3
    <3> QED BY <3>1, <2>1
  <2>5. f[m] \in Seq(S)
    BY <2>2, <2>3, <2>4
  <2> QED BY <2>5
<1> QED BY <1>1, <1>2, <1>3, <1>4

\* Appending a sequence appends its elements.
LEMMA FlattenAppend ==
  ASSUME NEW S, NEW q \in Seq(Seq(S)), NEW r \in Seq(S)
  PROVE  /\ FlattenSeq(q) \in Seq(S)
         /\ FlattenSeq(Append(q, r)) = FlattenSeq(q) \o r
<1> DEFINE p == Append(q, r)
           N == Len(q)
<1>1. N \in Nat /\ p \in Seq(Seq(S)) /\ Len(p) = N + 1 /\ p # <<>> /\ p[N + 1] = r
  <2>1. p \in Seq(Seq(S)) /\ p # <<>> /\ Len(p) = N + 1 /\ p[Len(q) + 1] = r
    BY AppendProperties
  <2> QED BY <2>1
<1>2. \A i \in 1..N : p[i] = q[i]
  OBVIOUS
<1>q. q = <<>> <=> N = 0
  OBVIOUS
<1> HIDE DEF p
<1>3. PICK f : /\ Joins(f, q, N)
               /\ \A i \in 1..N : f[i] \in Seq(S)
               /\ FlattenSeq(q) = IF q = <<>> THEN <<>> ELSE f[N]
  BY FlattenIs
<1>4. PICK g : /\ Joins(g, p, Len(p))
               /\ FlattenSeq(p) = IF p = <<>> THEN <<>> ELSE g[Len(p)]
  BY <1>1, FlattenIs
<1> HIDE DEF N
<1>5. \A i \in 1..N : g[i] = f[i]
  <2> DEFINE T == {i \in 1..N : g[i] # f[i]}
  <2> SUFFICES ASSUME T # {} PROVE FALSE
    OBVIOUS
  <2>1. PICK m \in T : \A n \in T : m <= n
    <3>1. T \in SUBSET Nat
      BY <1>1
    <3> QED BY <3>1, LeastOf
  <2>2. m \in 1..N /\ m \in 1..Len(p)
    BY <1>1
  <2>3. f[m] = IF m = 1 THEN q[m] ELSE f[m - 1] \o q[m]
    BY <1>3, <2>2 DEF Joins
  <2>4. g[m] = IF m = 1 THEN p[m] ELSE g[m - 1] \o p[m]
    BY <1>4, <2>2 DEF Joins
  <2>5. m # 1 => g[m - 1] = f[m - 1]
    <3> SUFFICES ASSUME m # 1 PROVE g[m - 1] = f[m - 1]
      OBVIOUS
    <3>1. m - 1 \in 1..N /\ ~(m <= m - 1)
      BY <1>1
    <3> QED BY <3>1, <2>1
  <2> QED BY <2>2, <2>3, <2>4, <2>5, <1>2
<1>6. g[N + 1] = IF N = 0 THEN p[N + 1] ELSE g[N] \o p[N + 1]
  <2>1. PICK k \in 1..Len(p) : k = N + 1
    BY <1>1
  <2>2. g[k] = IF k = 1 THEN p[k] ELSE g[k - 1] \o p[k]
    BY <1>4, JoinsAt
  <2>3. k - 1 = N /\ (k = 1 <=> N = 0)
    BY <2>1, <1>1
  <2>4. g[k] = IF N = 0 THEN p[k] ELSE g[N] \o p[k]
    BY <2>2, <2>3
  <2> QED BY <2>1, <2>4
<1>7. FlattenSeq(p) = g[N + 1]
  BY <1>1, <1>4
<1>8. CASE N = 0
  <2>1. FlattenSeq(p) = r /\ FlattenSeq(q) = <<>>
    BY <1>1, <1>3, <1>6, <1>7, <1>8, <1>q
  <2> QED BY <2>1 DEF p
<1>9. CASE N # 0
  <2>1. N \in 1..N /\ N + 1 - 1 = N /\ N + 1 # 1
    BY <1>1, <1>9
  <2>2. FlattenSeq(p) = f[N] \o r
    <3>1. g[N] = f[N] /\ p[N + 1] = r
      BY <1>1, <1>5, <2>1
    <3> QED BY <3>1, <1>6, <1>7, <1>9
  <2>3. FlattenSeq(q) = f[N] /\ f[N] \in Seq(S)
    BY <1>3, <1>9, <1>q, <2>1
  <2> QED BY <2>2, <2>3 DEF p
<1> QED BY <1>8, <1>9

\* The elements of the first sequence come first.
LEMMA FlattenHead ==
  ASSUME NEW S, NEW q \in Seq(Seq(S)), q # <<>>
  PROVE  FlattenSeq(q) = Head(q) \o FlattenSeq(Tail(q))
<1> DEFINE p == Tail(q)
           h == Head(q)
           N == Len(p)
<1>1. N \in Nat /\ p \in Seq(Seq(S)) /\ Len(q) = N + 1 /\ h \in Seq(S) /\ q[1] = h
  OBVIOUS
<1>2. \A i \in 1..N : p[i] = q[i + 1] /\ p[i] \in Seq(S)
  OBVIOUS
<1> HIDE DEF p, h
<1>p. p = <<>> <=> N = 0
  BY <1>1
<1>3. PICK f : /\ Joins(f, q, Len(q))
               /\ FlattenSeq(q) = IF q = <<>> THEN <<>> ELSE f[Len(q)]
  BY FlattenIs
<1>4. PICK g : /\ Joins(g, p, N)
               /\ \A i \in 1..N : g[i] \in Seq(S)
               /\ FlattenSeq(p) = IF p = <<>> THEN <<>> ELSE g[N]
  BY <1>1, FlattenIs
<1> HIDE DEF N
<1>5. f[1] = h
  <2>1. 1 \in 1..Len(q)
    BY <1>1
  <2> QED BY <2>1, <1>1, <1>3 DEF Joins
<1>a. \A x \in Seq(S), y \in Seq(S) : (h \o x) \o y = h \o (x \o y)
  <2>1. h \in Seq(S)
    BY <1>1
  <2> QED BY <2>1, ConcatAssociative, SMTT(60)
<1>6. \A i \in 1..N : f[i + 1] = h \o g[i]
  <2> DEFINE T == {i \in 1..N : f[i + 1] # h \o g[i]}
  <2> SUFFICES ASSUME T # {} PROVE FALSE
    OBVIOUS
  <2>1. PICK m \in T : \A n \in T : m <= n
    <3>1. T \in SUBSET Nat
      BY <1>1
    <3> QED BY <3>1, LeastOf
  <2>2. m \in 1..N /\ m + 1 \in 1..Len(q) /\ m + 1 # 1 /\ m + 1 - 1 = m
    BY <1>1
  <2>3. f[m + 1] = f[m] \o q[m + 1]
    <3>1. PICK k \in 1..Len(q) : k = m + 1
      BY <2>2
    <3>2. f[k] = IF k = 1 THEN q[k] ELSE f[k - 1] \o q[k]
      BY <1>3 DEF Joins
    <3>3. k - 1 = m /\ k # 1
      BY <3>1, <2>2
    <3>4. f[k] = f[m] \o q[k]
      BY <3>2, <3>3
    <3> QED BY <3>1, <3>4
  <2>4. g[m] = IF m = 1 THEN p[m] ELSE g[m - 1] \o p[m]
    BY <1>4, <2>2 DEF Joins
  <2>5. p[m] = q[m + 1] /\ p[m] \in Seq(S)
    BY <1>2, <2>2
  <2>6. CASE m = 1
    BY <2>1, <2>3, <2>4, <2>5, <2>6, <1>5
  <2>7. CASE m # 1
    <3>1. m - 1 \in 1..N /\ ~(m <= m - 1) /\ m - 1 + 1 = m
      BY <2>2, <2>7, <1>1
    <3>2. m - 1 \notin T
      BY <3>1, <2>1
    <3>3. f[m - 1 + 1] = h \o g[m - 1]
      BY <3>1, <3>2
    <3>4. f[m] = h \o g[m - 1]
      BY <3>1, <3>3, Zenon
    <3>5. g[m - 1] \in Seq(S)
      BY <3>1, <1>4
    <3>6. (h \o g[m - 1]) \o p[m] = h \o (g[m - 1] \o p[m])
      BY <3>5, <2>5, <1>a
    <3> QED BY <2>1, <2>3, <2>4, <2>5, <2>7, <3>4, <3>6
  <2> QED BY <2>6, <2>7
<1>7. FlattenSeq(q) = f[N + 1]
  BY <1>1, <1>3
<1>8. CASE N = 0
  <2>1. FlattenSeq(q) = h /\ FlattenSeq(p) = <<>>
    BY <1>4, <1>5, <1>7, <1>8, <1>p
  <2>2. h \o <<>> = h
    BY <1>1, ConcatEmptySeq
  <2> QED BY <2>1, <2>2 DEF p, h
<1>9. CASE N # 0
  <2>1. N \in 1..N
    BY <1>1, <1>9
  <2>2. FlattenSeq(q) = h \o g[N] /\ FlattenSeq(p) = g[N]
    BY <2>1, <1>4, <1>6, <1>7, <1>9, <1>p
  <2> QED BY <2>2 DEF p, h
<1> QED BY <1>8, <1>9

-----------------------------------------------------------------------------
(* Sorted sequences of bytes.                                              *)

Bytes == Nat \X Nat

Before(a, b) == a[1] < b[1] \/ (a[1] = b[1] /\ a[2] < b[2])

\* In the order of the pushes and, within a record, of its bytes; and of
\* records before the n-th.
SortedTo(s, n) ==
  /\ \A i \in 1..Len(s), j \in 1..Len(s) : i < j => Before(s[i], s[j])
  /\ \A i \in 1..Len(s) : s[i][1] < n

\* Two parts in their order.
Both(a, c) == a \o c

\* Concatenation of bytes is associative.
LEMMA BothAssociate ==
  \A a, b, c \in Seq(Bytes) : Both(Both(a, b), c) = Both(a, Both(b, c))
  BY ConcatAssociative DEF Both

\* The bytes in the order in which they reach the disk.
Five(d, w, b, x, t) == d \o w \o b \o x \o t

\* Taking a part out leaves the others in order.
LEMMA SortedWithout ==
  ASSUME NEW a \in Seq(Bytes), NEW b \in Seq(Bytes), NEW c \in Seq(Bytes), NEW n \in Nat,
         SortedTo(a \o b \o c, n)
  PROVE  SortedTo(a \o c, n)
<1> DEFINE s == a \o b \o c
           r == a \o c
           at(i) == IF i <= Len(a) THEN i ELSE i + Len(b)
<1>1. /\ Len(a) \in Nat /\ Len(b) \in Nat /\ Len(c) \in Nat
      /\ Len(s) = Len(a) + Len(b) + Len(c) /\ Len(r) = Len(a) + Len(c)
  OBVIOUS
<1>2. ASSUME NEW i \in 1..Len(r) PROVE at(i) \in 1..Len(s) /\ r[i] = s[at(i)]
  <2>1. CASE i <= Len(a)
    BY <2>1, <1>1
  <2>2. CASE ~(i <= Len(a))
    BY <2>2, <1>1
  <2> QED BY <2>1, <2>2
<1>3. ASSUME NEW i \in 1..Len(r), NEW j \in 1..Len(r), i < j PROVE at(i) < at(j)
  BY <1>1, <1>3
<1> HIDE DEF s, r, at
<1>4. SortedTo(s, n)
  BY DEF s
<1>5. SortedTo(r, n)
  BY <1>2, <1>3, <1>4 DEF SortedTo
<1> QED BY <1>5 DEF r

\* What comes first of a sorted sequence is sorted.
LEMMA SortedFront ==
  ASSUME NEW a \in Seq(Bytes), NEW c \in Seq(Bytes), NEW n \in Nat, SortedTo(a \o c, n)
  PROVE  SortedTo(a, n)
<1>1. /\ Len(a) \in Nat /\ Len(c) \in Nat /\ Len(a \o c) = Len(a) + Len(c)
      /\ \A i \in 1..Len(a) : (a \o c)[i] = a[i]
  OBVIOUS
<1> DEFINE s == a \o c
<1> HIDE DEF s
<1>2. /\ \A i \in 1..Len(a) : i \in 1..Len(s) /\ s[i] = a[i]
      /\ SortedTo(s, n)
  BY <1>1 DEF s
<1> QED BY <1>2 DEF SortedTo

\* The next record goes behind all before it.
LEMMA SortedPush ==
  ASSUME NEW a \in Seq(Bytes), NEW n \in Nat, SortedTo(a, n), NEW size \in Nat
  PROVE  Record(n, size) \in Seq(Bytes) /\ SortedTo(a \o Record(n, size), n + 1)
<1> DEFINE r == Record(n, size)
           s == a \o r
<1>1. r \in Seq(Bytes) /\ Len(r) = size /\ \A i \in 1..size : r[i] = <<n, i>>
  <2>1. r = [i \in 1..size |-> <<n, i>>]
    BY DEF Record
  <2>2. \A i \in 1..size : <<n, i>> \in Bytes
    BY DEF Bytes
  <2> QED BY <2>1, <2>2
<1> HIDE DEF r
<1>2. /\ Len(a) \in Nat /\ Len(s) = Len(a) + size
      /\ \A i \in 1..Len(a) : s[i] = a[i]
      /\ \A i \in (Len(a) + 1)..Len(s) : s[i] = r[i - Len(a)]
  <2>1. r \in Seq(Bytes) /\ Len(r) = size
    BY <1>1
  <2>2. Len(a) \in Nat /\ Len(s) = Len(a) + size
    BY <2>1
  <2>3. \A i \in 1..Len(a) : s[i] = a[i]
    BY <2>1
  <2>4. \A i \in (Len(a) + 1)..Len(s) : s[i] = r[i - Len(a)]
    BY <2>1
  <2> QED BY <2>2, <2>3, <2>4
<1> HIDE DEF s
<1>3. ASSUME NEW i \in 1..Len(s), ~(i \in 1..Len(a)) PROVE s[i] = <<n, i - Len(a)>>
  <2>1. i \in (Len(a) + 1)..Len(s) /\ i - Len(a) \in 1..size
    BY <1>2, <1>3
  <2> QED BY <2>1, <1>1, <1>2
<1>t. ASSUME NEW i \in 1..Len(s) PROVE s[i][1] \in Nat /\ s[i][1] <= n /\ (i \in 1..Len(a) => s[i][1] < n)
  <2>1. CASE i \in 1..Len(a)
    <3>1. a[i] \in Bytes
      BY <2>1
    <3>2. a[i][1] \in Nat /\ a[i][1] < n
      BY <2>1, <3>1 DEF SortedTo, Bytes
    <3> QED BY <2>1, <3>2, <1>2
  <2>2. CASE ~(i \in 1..Len(a))
    BY <2>2, <1>3
  <2> QED BY <2>1, <2>2
<1>4. ASSUME NEW i \in 1..Len(s), NEW j \in 1..Len(s), i < j PROVE Before(s[i], s[j])
  <2>1. CASE i \in 1..Len(a) /\ j \in 1..Len(a)
    BY <2>1, <1>2, <1>4 DEF SortedTo
  <2>2. CASE i \in 1..Len(a) /\ ~(j \in 1..Len(a))
    <3>1. s[j][1] = n /\ s[i][1] < n
      BY <2>2, <1>3, <1>t
    <3> QED BY <3>1 DEF Before
  <2>3. CASE ~(i \in 1..Len(a)) /\ ~(j \in 1..Len(a))
    <3>1. s[i] = <<n, i - Len(a)>> /\ s[j] = <<n, j - Len(a)>>
      BY <2>3, <1>3
    <3>2. i - Len(a) < j - Len(a)
      BY <1>4, <1>2
    <3> QED BY <3>1, <3>2 DEF Before
  <2>4. ~(i \in 1..Len(a)) => ~(j \in 1..Len(a))
    BY <1>2, <1>4
  <2> QED BY <2>1, <2>2, <2>3, <2>4
<1>5. \A i \in 1..Len(s) : s[i][1] < n + 1
  BY <1>t
<1> QED BY <1>1, <1>4, <1>5 DEF SortedTo, r, s

\* The bytes of every place are bytes.
LEMMA FiveType ==
  ASSUME NEW d \in Seq(Bytes), NEW w \in Seq(Bytes), NEW b \in Seq(Bytes),
         NEW x \in Seq(Bytes), NEW t \in Seq(Bytes)
  PROVE  Five(d, w, b, x, t) \in Seq(Bytes)
  BY DEF Five

\* Moving bytes from one place to the next does not change their order: a
\* record that fits goes to the buffer;
LEMMA MoveFits ==
  ASSUME NEW d \in Seq(Bytes), NEW b \in Seq(Bytes), NEW r \in Seq(Bytes), NEW t \in Seq(Bytes)
  PROVE  Five(d, <<>>, b, <<>>, r \o t) = Five(d, <<>>, b \o r, <<>>, t)
  BY SMTT(40) DEF Five

\* one that does not is cut, and the full buffer written;
LEMMA MoveCut ==
  ASSUME NEW d \in Seq(Bytes), NEW b \in Seq(Bytes), NEW a \in Seq(Bytes),
         NEW c \in Seq(Bytes), NEW t \in Seq(Bytes)
  PROVE  Five(d, <<>>, b, <<>>, (a \o c) \o t) = Five(d, b \o a, <<>>, c, t)
<1> DEFINE p == d \o b
           u == p \o a
<1>1. p \in Seq(Bytes) /\ u \in Seq(Bytes) /\ a \o c \in Seq(Bytes)
  OBVIOUS
<1>2. Five(d, <<>>, b, <<>>, (a \o c) \o t) = p \o ((a \o c) \o t)
  BY DEF Five
<1>3. d \o (b \o a) = u
  <2>1. Both(d, Both(b, a)) = Both(Both(d, b), a)
    BY BothAssociate
  <2> QED BY <2>1 DEF Both
<1>4. Five(d, b \o a, <<>>, c, t) = (u \o c) \o t
  <2>1. Five(d, b \o a, <<>>, c, t) = d \o (b \o a) \o <<>> \o c \o t
    BY DEF Five
  <2> HIDE DEF u
  <2>2. u \o <<>> = u
    BY <1>1, ConcatEmptySeq
  <2> QED BY <2>1, <2>2, <1>3
<1>5. p \o ((a \o c) \o t) = (p \o (a \o c)) \o t
  <2> DEFINE m == a \o c
  <2>1. p \in Seq(Bytes) /\ m \in Seq(Bytes)
    BY <1>1
  <2> HIDE DEF p, u, m
  <2>2. Both(p, Both(m, t)) = Both(Both(p, m), t)
    BY <2>1, BothAssociate
  <2> QED BY <2>2 DEF m, Both
<1>6. p \o (a \o c) = u \o c
  <2>1. p \in Seq(Bytes) /\ u = p \o a
    BY <1>1
  <2> HIDE DEF p, u
  <2>2. Both(p, Both(a, c)) = Both(Both(p, a), c)
    BY <2>1, BothAssociate
  <2> QED BY <2>1, <2>2 DEF Both
<1> QED BY <1>2, <1>4, <1>5, <1>6

\* the rest of it goes to the buffer or to the disk;
LEMMA MoveRest ==
  ASSUME NEW d \in Seq(Bytes), NEW x \in Seq(Bytes), NEW t \in Seq(Bytes)
  PROVE  /\ Five(d, <<>>, <<>>, x, t) = Five(d, <<>>, x, <<>>, t)
         /\ Five(d, <<>>, <<>>, x, t) = Five(d, x, <<>>, <<>>, t)
  BY DEF Five

\* ::write writes some bytes;
LEMMA MoveWritten ==
  ASSUME NEW d \in Seq(Bytes), NEW a \in Seq(Bytes), NEW c \in Seq(Bytes), NEW b \in Seq(Bytes),
         NEW x \in Seq(Bytes), NEW t \in Seq(Bytes)
  PROVE  Five(d, a \o c, b, x, t) = Five(d \o a, c, b, x, t)
  BY DEF Five

\* closeFile writes what the buffer still holds;
LEMMA MoveClose ==
  ASSUME NEW d \in Seq(Bytes), NEW b \in Seq(Bytes), NEW x \in Seq(Bytes), NEW t \in Seq(Bytes)
  PROVE  Five(d, <<>>, b, x, t) = Five(d, b, <<>>, x, t)
  BY DEF Five

\* and a new record comes last.
LEMMA MoveNew ==
  ASSUME NEW d \in Seq(Bytes), NEW w \in Seq(Bytes), NEW b \in Seq(Bytes),
         NEW x \in Seq(Bytes), NEW t \in Seq(Bytes), NEW r \in Seq(Bytes)
  PROVE  Five(d, w, b, x, t \o r) = Both(Five(d, w, b, x, t), r)
<1> DEFINE p == d \o w \o b \o x
<1>1. p \in Seq(Bytes)
  OBVIOUS
<1>2. Five(d, w, b, x, t \o r) = p \o (t \o r) /\ Five(d, w, b, x, t) \o r = (p \o t) \o r
  BY DEF Five
<1> HIDE DEF p
<1>3. (p \o t) \o r = p \o (t \o r)
  <2>1. Both(Both(p, t), r) = Both(p, Both(t, r))
    BY <1>1, BothAssociate
  <2> QED BY <2>1 DEF Both
<1> QED BY <1>2, <1>3 DEF Both

\* What is on the disk comes first.
LEMMA FiveFront ==
  ASSUME NEW d \in Seq(Bytes), NEW w \in Seq(Bytes), NEW b \in Seq(Bytes),
         NEW x \in Seq(Bytes), NEW t \in Seq(Bytes)
  PROVE  Five(d, w, b, x, t) = Both(d, w \o (b \o (x \o t)))
<1> DEFINE p == d \o w
           q == p \o b
           u == x \o t
           v == b \o u
<1>1. p \in Seq(Bytes) /\ q \in Seq(Bytes) /\ u \in Seq(Bytes) /\ v \in Seq(Bytes)
  OBVIOUS
<1>2. Five(d, w, b, x, t) = (q \o x) \o t
  BY DEF Five
<1>3. d \o (w \o v) = p \o v
  <2> HIDE DEF v
  <2>1. Both(d, Both(w, v)) = Both(Both(d, w), v)
    BY <1>1, BothAssociate
  <2> QED BY <2>1 DEF Both
<1> HIDE DEF p
<1>4. p \o v = q \o u
  <2> HIDE DEF u
  <2>1. Both(p, Both(b, u)) = Both(Both(p, b), u)
    BY <1>1, BothAssociate
  <2> QED BY <2>1 DEF Both
<1> HIDE DEF q, v
<1>5. q \o u = (q \o x) \o t
  <2>1. Both(q, Both(x, t)) = Both(Both(q, x), t)
    BY <1>1, BothAssociate
  <2> QED BY <2>1 DEF Both
<1> QED BY <1>2, <1>3, <1>4, <1>5 DEF v, Both

\* A sequence is its first n elements and the others.
LEMMA SplitAt ==
  ASSUME NEW S, NEW r \in Seq(S), NEW n \in 0..Len(r)
  PROVE  /\ SubSeq(r, 1, n) \in Seq(S) /\ SubSeq(r, n + 1, Len(r)) \in Seq(S)
         /\ r = SubSeq(r, 1, n) \o SubSeq(r, n + 1, Len(r))
<1> DEFINE a == SubSeq(r, 1, n)
           c == SubSeq(r, n + 1, Len(r))
           L == Len(r)
<1>0. L \in Nat /\ n \in Nat /\ n <= L
  OBVIOUS
<1>1. a \in Seq(S) /\ Len(a) = n /\ \A i \in 1..n : a[i] = r[i]
  BY <1>0
<1>2. c \in Seq(S) /\ Len(c) = L - n /\ \A i \in 1..(L - n) : c[i] = r[n + i]
  <2>1. c \in Seq(S)
    BY <1>0
  <2>2. Len(c) = L - n
    BY <1>0
  <2>3. \A i \in 1..(L - n) : c[i] = r[n + i]
    BY <1>0
  <2> QED BY <2>1, <2>2, <2>3
<1> HIDE DEF a, c
<1>3. a \o c \in Seq(S) /\ Len(a \o c) = L
  BY <1>0, <1>1, <1>2
<1>4. ASSUME NEW i \in 1..L PROVE (a \o c)[i] = r[i]
  <2>1. CASE i <= n
    BY <2>1, <1>0, <1>1, <1>2
  <2>2. CASE ~(i <= n)
    <3>1. i - n \in 1..(L - n) /\ n + (i - n) = i
      BY <2>2, <1>0
    <3>2. (a \o c)[i] = c[i - n]
      BY <2>2, <1>0, <1>1, <1>2
    <3>3. c[i - n] = r[n + (i - n)]
      BY <3>1, <1>2
    <3> QED BY <3>1, <3>2, <3>3
  <2> QED BY <2>1, <2>2
<1>5. r = a \o c
  <2> DEFINE s == a \o c
  <2>1. s \in Seq(S) /\ Len(s) = Len(r) /\ \A i \in 1..Len(r) : s[i] = r[i]
    BY <1>3, <1>4
  <2> HIDE DEF s
  <2>2. s = r
    BY <2>1
  <2> QED BY <2>2 DEF s
<1> QED BY <1>1, <1>2, <1>5 DEF a, c

-----------------------------------------------------------------------------
(* The inductive invariant.                                                *)

\* Every byte between flush() and the disk, in the order it will be written.
Stream == Five(disk, out, buf, rest, FlattenSeq(Untouched))

LogTypes ==
  /\ TypeOK /\ failed \in BOOLEAN
  /\ pool \in Seq(Seq(Bytes)) /\ pushed \in Seq(Seq(Bytes))
  /\ buf \in Seq(Bytes) /\ rest \in Seq(Bytes) /\ out \in Seq(Bytes) /\ disk \in Seq(Bytes)

\* What append() and closeFile() hold at each of their steps.
LogPhases ==
  /\ tpc = "append" <=> wpc \in {"flush", "direct"}
  /\ tpc = "append" => pool # <<>>
  /\ wpc = "idle" => out = <<>> /\ rest = <<>>
  /\ wpc = "flush" => buf = <<>>
  /\ wpc = "direct" => buf = <<>> /\ rest = <<>>
  /\ wpc = "close" => buf = <<>> /\ rest = <<>> /\ tpc = "ended"
  /\ wpc = "close" <=> dpc = "close"

LogInv ==
  /\ LogTypes /\ LogPhases
  /\ Len(buf) <= BufSize
  /\ SortedTo(Stream, Len(pushed))
  /\ ~failed => Stream = FlattenSeq(pushed)

\* Records joined are bytes.
LEMMA FlattenType ==
  ASSUME NEW q \in Seq(Seq(Bytes))
  PROVE  FlattenSeq(q) \in Seq(Bytes)
<1>1. <<>> \in Seq(Bytes)
  OBVIOUS
<1> QED BY <1>1, FlattenAppend

\* The types of what is on its way to the file.
LEMMA StreamType ==
  ASSUME LogTypes, LogPhases
  PROVE  /\ Untouched \in Seq(Seq(Bytes))
         /\ FlattenSeq(Untouched) \in Seq(Bytes)
         /\ Stream \in Seq(Bytes)
<1>1. Untouched \in Seq(Seq(Bytes))
  BY DEF LogTypes, LogPhases, Untouched
<1>2. FlattenSeq(Untouched) \in Seq(Bytes)
  BY <1>1, FlattenType
<1> HIDE DEF Untouched
<1>3. Stream \in Seq(Bytes)
  BY <1>2, FiveType DEF LogTypes, Stream
<1> QED BY <1>1, <1>2, <1>3

\* The invariant holds at first.
LEMMA LogStart == Init => LogInv
<1> SUFFICES ASSUME Init PROVE LogInv
  OBVIOUS
<1>1. LogTypes /\ LogPhases /\ Len(buf) <= BufSize
  <2>1. LogTypes
    <3>1. <<>> \in Seq(Bytes) /\ <<>> \in Seq(Seq(Bytes))
      OBVIOUS
    <3>2. TypeOK
      BY DEF Init, TypeOK
    <3> QED BY <3>1, <3>2, Zenon DEF Init, LogTypes
  <2>2. LogPhases
    BY DEF Init, LogPhases
  <2>3. Len(buf) = 0 /\ 0 <= BufSize
    BY LogAssumption DEF Init
  <2> QED BY <2>1, <2>2, <2>3
<1>2. FlattenSeq(<<>>) = <<>>
  BY DEF FlattenSeq
<1>3. Untouched = <<>> /\ Len(pushed) = 0
  BY DEF Init, Untouched
<1>4. Stream = <<>>
  BY <1>2, <1>3 DEF Init, Stream, Five
<1> QED BY <1>1, <1>2, <1>3, <1>4 DEF LogInv, SortedTo, Init

\* A step that only moves bytes along keeps the invariant.
LEMMA MoveKeeps ==
  ASSUME LogInv, LogTypes', LogPhases', (Len(buf) <= BufSize)',
         Stream' = Stream, pushed' = pushed, failed' = failed
  PROVE  LogInv'
  BY DEF LogInv

\* Signals, checks and the destructor's flags do not touch the records.
LEMMA IdleKeeps ==
  ASSUME LogInv, LogTypes', LogPhases', UNCHANGED <<pool, pushed, fileVars>>,
         tpc' = "append" <=> tpc = "append"
  PROVE  LogInv'
<1>1. Untouched' = Untouched
  BY DEF Untouched
<1> HIDE DEF Untouched
<1>2. Stream' = Stream
  BY <1>1 DEF Stream, fileVars
<1> HIDE DEF Stream
<1> QED BY <1>2, MoveKeeps DEF LogInv, fileVars

\* flush: a record enters the pool, behind all others.
LEMMA PushStep ==
  ASSUME LogInv, NEW p \in Loggers, Push(p)
  PROVE  LogInv'
<1>1. PICK size \in Sizes : /\ pool' = Append(pool, Record(Len(pushed), size))
                            /\ pushed' = Append(pushed, Record(Len(pushed), size))
  BY DEF Push
<1> DEFINE r == Record(Len(pushed), size)
           t == FlattenSeq(Untouched)
<1>2. size \in Nat /\ Len(pushed) \in Nat /\ Stream \in Seq(Bytes)
  BY StreamType, LogAssumption DEF LogInv, LogTypes
<1>3. r \in Seq(Bytes) /\ SortedTo(Stream \o r, Len(pushed) + 1)
  BY <1>2, SortedPush DEF LogInv
<1> HIDE DEF r
<1>4. LogTypes' /\ LogPhases'
  <2>1. UNCHANGED <<stop, tpc, dpc, buf, rest, out, wpc, disk, failed>>
    BY DEF Push, fileVars
  <2>2. pool' \in Seq(Seq(Bytes)) /\ pushed' \in Seq(Seq(Bytes)) /\ pool' # <<>>
    <3>1. /\ pool \in Seq(Seq(Bytes)) /\ pushed \in Seq(Seq(Bytes))
          /\ pool' = Append(pool, r) /\ pushed' = Append(pushed, r)
      BY <1>1 DEF LogInv, LogTypes, r
    <3>2. /\ Append(pool, r) \in Seq(Seq(Bytes)) /\ Append(pool, r) # <<>>
          /\ Append(pushed, r) \in Seq(Seq(Bytes))
      BY <3>1, <1>3
    <3> QED BY <3>1, <3>2
  <2>3. lpc' \in [Loggers -> {"idle", "notify"}]
    BY DEF Push, LogInv, LogTypes, TypeOK
  <2>4. LogTypes'
    BY <2>1, <2>2, <2>3 DEF LogInv, LogTypes, TypeOK
  <2>5. LogPhases'
    BY <2>1, <2>2 DEF LogInv, LogPhases
  <2> QED BY <2>4, <2>5
<1>5. Untouched = pool /\ Untouched' = pool'
  BY DEF Push, MutexFree, Untouched
<1>6. t \in Seq(Bytes) /\ FlattenSeq(Untouched') = t \o r
  <2>1. pool \in Seq(Seq(Bytes)) /\ pool' = Append(pool, r)
    BY <1>1 DEF LogInv, LogTypes, r
  <2> QED BY <2>1, <1>3, <1>5, FlattenAppend
<1>7. FlattenSeq(pushed') = FlattenSeq(pushed) \o r
  <2>1. pushed \in Seq(Seq(Bytes)) /\ pushed' = Append(pushed, r)
    BY <1>1 DEF LogInv, LogTypes, r
  <2> QED BY <2>1, <1>3, FlattenAppend
<1>8. Stream' = Stream \o r
  <2>1. Stream' = Five(disk, out, buf, rest, t \o r)
    BY <1>6 DEF Stream, Push, fileVars
  <2> HIDE DEF t
  <2>2. Five(disk, out, buf, rest, t \o r) = Both(Five(disk, out, buf, rest, t), r)
    <3>1. /\ disk \in Seq(Bytes) /\ out \in Seq(Bytes) /\ buf \in Seq(Bytes) /\ rest \in Seq(Bytes)
          /\ t \in Seq(Bytes) /\ r \in Seq(Bytes)
      BY <1>3, <1>6 DEF LogInv, LogTypes
    <3> QED BY <3>1, MoveNew
  <2> QED BY <2>1, <2>2 DEF Stream, t, Both
<1>9. Len(pushed') = Len(pushed) + 1
  BY <1>1 DEF LogInv, LogTypes
<1> HIDE DEF Stream
<1> QED BY <1>3, <1>4, <1>7, <1>8, <1>9 DEF LogInv, Push, fileVars

\* append: what fits goes to the buffer, which is then written if the record does not.
LEMMA FillStep ==
  ASSUME LogInv, Fill
  PROVE  LogInv'
<1> DEFINE r == Head(pool)
           t == FlattenSeq(Tail(pool))
           room == BufSize - Len(buf)
           n == IF Len(r) < room THEN Len(r) ELSE room
           a == SubSeq(r, 1, n)
           c == SubSeq(r, n + 1, Len(r))
<1>1. /\ pool \in Seq(Seq(Bytes)) /\ pool # <<>> /\ r \in Seq(Bytes)
      /\ Tail(pool) \in Seq(Seq(Bytes))
  BY DEF LogInv, LogTypes, Fill
<1>2. t \in Seq(Bytes) /\ FlattenSeq(pool) = r \o t
  BY <1>1, FlattenType, FlattenHead
<1>3. /\ tpc = "drain" /\ wpc = "idle" /\ out = <<>> /\ rest = <<>>
      /\ buf \in Seq(Bytes) /\ disk \in Seq(Bytes) /\ dpc # "close"
  BY DEF LogInv, LogTypes, LogPhases, TypeOK, Fill
<1>4. /\ Len(r) \in Nat /\ room \in Nat /\ n \in Nat /\ n <= Len(r) /\ Len(buf) + n <= BufSize
      /\ Len(buf) \in Nat
  BY <1>1, <1>3, LogAssumption DEF LogInv
<1>5. Stream = Five(disk, <<>>, buf, <<>>, r \o t)
  BY <1>2, <1>3 DEF Stream, Untouched
<1>6. CASE n = Len(r)
  <2>1. /\ buf' = buf \o a /\ pool' = Tail(pool)
        /\ UNCHANGED <<tpc, rest, out, wpc, pushed, stop, lpc, dpc, disk, failed>>
    BY <1>6 DEF Fill
  <2>2. a = r
    BY <1>1, <1>4, <1>6
  <2> HIDE DEF r, n, a, c, room
  <2>3. buf' \in Seq(Bytes) /\ Len(buf') <= BufSize
    BY <2>1, <2>2, <1>1, <1>3, <1>4, <1>6
  <2>4. LogTypes' /\ LogPhases'
    BY <2>1, <2>3, <1>1, <1>3 DEF LogInv, LogTypes, LogPhases, TypeOK
  <2>5. Stream' = Five(disk, <<>>, buf \o r, <<>>, t)
    BY <2>1, <2>2, <1>3 DEF Stream, Untouched
  <2>6. Stream' = Stream
    <3> HIDE DEF t
    <3> QED BY <2>5, <1>1, <1>2, <1>3, <1>5, MoveFits
  <2> QED BY <2>1, <2>3, <2>4, <2>6, MoveKeeps
<1>7. CASE n # Len(r)
  <2>1. /\ rest' = c /\ out' = buf \o a /\ buf' = <<>> /\ wpc' = "flush" /\ tpc' = "append"
        /\ UNCHANGED <<pool, pushed, stop, lpc, dpc, disk, failed>>
    BY <1>7 DEF Fill
  <2>2. a \in Seq(Bytes) /\ c \in Seq(Bytes) /\ r = a \o c
    <3>1. r \in Seq(Bytes) /\ n \in 0..Len(r)
      BY <1>1, <1>4
    <3> HIDE DEF r, n
    <3> QED BY <3>1, SplitAt
  <2> HIDE DEF r, n, a, c, room
  <2>3. out' \in Seq(Bytes) /\ buf' \in Seq(Bytes) /\ Len(buf') <= BufSize
    BY <2>1, <2>2, <1>3, LogAssumption
  <2>4. LogTypes' /\ LogPhases'
    BY <2>1, <2>2, <2>3, <1>1, <1>3 DEF LogInv, LogTypes, LogPhases, TypeOK
  <2>5. Stream' = Five(disk, buf \o a, <<>>, c, t)
    BY <2>1 DEF Stream, Untouched
  <2>6. Stream' = Stream
    <3> HIDE DEF t
    <3> QED BY <2>2, <2>5, <1>2, <1>3, <1>5, MoveCut
  <2> QED BY <2>1, <2>3, <2>4, <2>6, MoveKeeps
<1> QED BY <1>6, <1>7

\* The buffer has been written; the rest of the record takes its place or is written.
LEMMA FlushedStep ==
  ASSUME LogInv, Flushed
  PROVE  LogInv'
<1> DEFINE t == FlattenSeq(Tail(pool))
<1>1. /\ wpc = "flush" /\ tpc = "append" /\ out = <<>> /\ buf = <<>> /\ pool # <<>>
      /\ rest \in Seq(Bytes) /\ disk \in Seq(Bytes) /\ dpc # "close"
      /\ Tail(pool) \in Seq(Seq(Bytes)) /\ <<>> \in Seq(Bytes)
  BY DEF LogInv, LogTypes, LogPhases, Flushed
<1>2. t \in Seq(Bytes)
  BY <1>1, FlattenType
<1>3. Stream = Five(disk, <<>>, <<>>, rest, t)
  BY <1>1 DEF Stream, Untouched
<1>4. /\ Five(disk, <<>>, <<>>, rest, t) = Five(disk, <<>>, rest, <<>>, t)
      /\ Five(disk, <<>>, <<>>, rest, t) = Five(disk, rest, <<>>, <<>>, t)
  <2> HIDE DEF t
  <2> QED BY <1>1, <1>2, MoveRest
<1>5. CASE Len(rest) < BufSize
  <2>1. /\ buf' = rest /\ rest' = <<>> /\ wpc' = "idle" /\ tpc' = "drain" /\ pool' = Tail(pool)
        /\ UNCHANGED <<out, pushed, stop, lpc, dpc, disk, failed>>
    BY <1>5 DEF Flushed, AppendReturns
  <2>2. LogTypes' /\ LogPhases' /\ Len(buf') <= BufSize
    <3>1. LogTypes'
      BY <2>1, <1>1, Zenon DEF LogInv, LogTypes, TypeOK
    <3>2. LogPhases'
      BY <2>1, <1>1 DEF LogInv, LogPhases
    <3>3. Len(buf') <= BufSize
      BY <2>1, <1>1, <1>5, LogAssumption
    <3> QED BY <3>1, <3>2, <3>3
  <2>3. Stream' = Five(disk, <<>>, rest, <<>>, t)
    BY <2>1, <1>1 DEF Stream, Untouched
  <2> QED BY <2>1, <2>2, <2>3, <1>3, <1>4, MoveKeeps
<1>6. CASE ~(Len(rest) < BufSize)
  <2>1. /\ out' = rest /\ rest' = <<>> /\ wpc' = "direct"
        /\ UNCHANGED <<pool, tpc, buf, pushed, stop, lpc, dpc, disk, failed>>
    BY <1>6 DEF Flushed
  <2>2. LogTypes' /\ LogPhases' /\ Len(buf') <= BufSize
    <3>1. LogTypes'
      BY <2>1, <1>1, Zenon DEF LogInv, LogTypes, TypeOK
    <3>2. LogPhases'
      BY <2>1, <1>1 DEF LogInv, LogPhases
    <3>3. Len(buf') <= BufSize
      BY <2>1 DEF LogInv
    <3> QED BY <3>1, <3>2, <3>3
  <2>3. Stream' = Five(disk, rest, <<>>, <<>>, t)
    BY <2>1, <1>1 DEF Stream, Untouched
  <2> QED BY <2>1, <2>2, <2>3, <1>3, <1>4, MoveKeeps
<1> QED BY <1>5, <1>6

\* What was larger than the buffer has been written past it.
LEMMA DirectDoneStep ==
  ASSUME LogInv, DirectDone
  PROVE  LogInv'
<1>1. /\ wpc = "direct" /\ tpc = "append" /\ out = <<>> /\ buf = <<>> /\ rest = <<>> /\ pool # <<>>
      /\ dpc # "close" /\ Tail(pool) \in Seq(Seq(Bytes)) /\ <<>> \in Seq(Bytes)
  BY DEF LogInv, LogTypes, LogPhases, DirectDone
<1>2. /\ rest' = <<>> /\ wpc' = "idle" /\ tpc' = "drain" /\ pool' = Tail(pool)
      /\ UNCHANGED <<pushed, stop, lpc, dpc, buf, out, disk, failed>>
  BY DEF DirectDone, AppendReturns
<1>3. LogTypes'
  BY <1>1, <1>2, Zenon DEF LogInv, LogTypes, TypeOK
<1>4. LogPhases'
  BY <1>1, <1>2 DEF LogInv, LogPhases
<1>5. Stream' = Stream
  BY <1>1, <1>2 DEF Stream, Untouched
<1>6. Len(buf') <= BufSize
  BY <1>2 DEF LogInv
<1> QED BY <1>2, <1>3, <1>4, <1>5, <1>6, MoveKeeps

\* ::write takes some bytes off the front of what it is given.
LEMMA WriteSomeStep ==
  ASSUME LogInv, WriteSome
  PROVE  LogInv'
<1>1. PICK n \in 1..Len(out) : disk' = disk \o SubSeq(out, 1, n) /\ out' = SubSeq(out, n + 1, Len(out))
  BY DEF WriteSome
<1>2. UNCHANGED <<pool, pushed, stop, lpc, tpc, dpc, buf, rest, wpc, failed>>
  BY DEF WriteSome, queueVars
<1> DEFINE a == SubSeq(out, 1, n)
           c == SubSeq(out, n + 1, Len(out))
           t == FlattenSeq(Untouched)
<1>3. a \in Seq(Bytes) /\ c \in Seq(Bytes) /\ out = a \o c
  <2>1. out \in Seq(Bytes) /\ n \in 0..Len(out)
    BY DEF LogInv, LogTypes
  <2> QED BY <2>1, SplitAt
<1> HIDE DEF a, c
<1>4. /\ disk \in Seq(Bytes) /\ buf \in Seq(Bytes) /\ rest \in Seq(Bytes) /\ t \in Seq(Bytes)
  BY StreamType DEF LogInv, LogTypes
<1>5. disk' = disk \o a /\ out' = c
  BY <1>1 DEF a, c
<1>6. LogTypes'
  <2>1. disk' \in Seq(Bytes)
    BY <1>3, <1>4, <1>5
  <2> QED BY <2>1, <1>2, <1>3, <1>5, Zenon DEF LogInv, LogTypes, TypeOK
<1>7. LogPhases'
  <2>1. wpc # "idle"
    BY DEF LogInv, LogPhases, WriteSome
  <2> QED BY <2>1, <1>2 DEF LogInv, LogPhases
<1>8. Stream' = Stream
  <2>1. Stream' = Five(disk \o a, c, buf, rest, t)
    BY <1>2, <1>5 DEF Stream, Untouched
  <2>2. Stream = Five(disk, a \o c, buf, rest, t)
    BY <1>3 DEF Stream
  <2> HIDE DEF t
  <2> QED BY <2>1, <2>2, <1>3, <1>4, MoveWritten
<1>9. Len(buf') <= BufSize
  BY <1>2 DEF LogInv
<1> QED BY <1>2, <1>6, <1>7, <1>8, <1>9, MoveKeeps

\* A failed write loses what it had to write, and the rest of the record.
LEMMA WriteFailsStep ==
  ASSUME LogInv, WriteFails
  PROVE  LogInv'
<1> DEFINE t == FlattenSeq(Untouched)
<1>1. /\ out' = <<>> /\ failed' = TRUE /\ UNCHANGED <<pushed, stop, lpc, dpc, buf, disk>>
      /\ out # <<>> /\ <<>> \in Seq(Bytes) /\ wpc # "idle"
      /\ disk \in Seq(Bytes) /\ buf \in Seq(Bytes) /\ rest \in Seq(Bytes) /\ out \in Seq(Bytes)
      /\ t \in Seq(Bytes) /\ Len(pushed) \in Nat
  BY StreamType DEF LogInv, LogTypes, LogPhases, WriteFails
<1>2. buf = <<>> /\ rest' = <<>>
  BY DEF LogInv, LogTypes, TypeOK, LogPhases, WriteFails, AppendReturns
<1>3. /\ pool' \in Seq(Seq(Bytes)) /\ Untouched' = Untouched
      /\ tpc' \in {"ended", "drain"} /\ wpc' \in {"idle", "close"} /\ (wpc' = "close" <=> dpc' = "close")
      /\ (wpc' = "close" => tpc' = "ended")
  <2>1. CASE wpc = "close"
    BY <2>1, <1>1 DEF LogInv, LogTypes, LogPhases, WriteFails, Untouched
  <2>2. CASE wpc # "close"
    <3>1. tpc = "append" /\ pool # <<>> /\ dpc # "close"
      BY <2>2, <1>1 DEF LogInv, LogTypes, TypeOK, LogPhases
    <3>2. wpc' = "idle" /\ tpc' = "drain" /\ pool' = Tail(pool)
      BY <2>2 DEF WriteFails, AppendReturns
    <3> QED BY <3>1, <3>2, <1>1 DEF LogInv, LogTypes, Untouched
  <2> QED BY <2>1, <2>2
<1>4. LogTypes'
  BY <1>1, <1>2, <1>3 DEF LogInv, LogTypes, TypeOK
<1>5. LogPhases'
  BY <1>1, <1>2, <1>3 DEF LogPhases
<1>6. Stream' = disk \o t
  <2>1. Stream' = Five(disk, <<>>, <<>>, <<>>, t)
    BY <1>1, <1>2, <1>3 DEF Stream
  <2> HIDE DEF t
  <2> QED BY <2>1, <1>1 DEF Five
<1>7. Stream = disk \o (out \o rest) \o t
  <2>1. Stream = Five(disk, out, <<>>, rest, t)
    BY <1>2 DEF Stream
  <2> HIDE DEF t
  <2>2. Five(disk, out, <<>>, rest, t) = disk \o out \o <<>> \o rest \o t
    BY DEF Five
  <2>3. disk \o out \o <<>> = disk \o out
    BY <1>1
  <2>4. (disk \o out) \o rest = disk \o (out \o rest)
    <3>1. Both(Both(disk, out), rest) = Both(disk, Both(out, rest))
      BY <1>1, BothAssociate
    <3> QED BY <3>1 DEF Both
  <2> QED BY <2>1, <2>2, <2>3, <2>4
<1>8. SortedTo(Stream', Len(pushed'))
  <2>1. out \o rest \in Seq(Bytes) /\ SortedTo(disk \o (out \o rest) \o t, Len(pushed))
    BY <1>1, <1>7 DEF LogInv
  <2> HIDE DEF t
  <2>2. SortedTo(disk \o t, Len(pushed))
    BY <2>1, <1>1, SortedWithout
  <2> QED BY <2>2, <1>1, <1>6
<1> QED BY <1>1, <1>4, <1>5, <1>8 DEF LogInv

\* The destructor joins the thread.
LEMMA JoinStep ==
  ASSUME LogInv, Join
  PROVE  LogInv'
<1> DEFINE t == FlattenSeq(Untouched)
<1>1. /\ tpc = "ended" /\ dpc = "join" /\ dpc' = "close" /\ wpc' = "close" /\ out' = buf /\ buf' = <<>>
      /\ UNCHANGED <<pool, pushed, stop, lpc, tpc, rest, disk, failed>>
  BY DEF Join, queueVars
<1>2. /\ wpc = "idle" /\ out = <<>> /\ rest = <<>> /\ <<>> \in Seq(Bytes)
      /\ buf \in Seq(Bytes) /\ disk \in Seq(Bytes) /\ t \in Seq(Bytes)
  BY <1>1, StreamType DEF LogInv, LogTypes, TypeOK, LogPhases
<1>3. LogTypes'
  BY <1>1, <1>2, Zenon DEF LogInv, LogTypes, TypeOK
<1>4. LogPhases'
  BY <1>1, <1>2 DEF LogPhases
<1>5. Stream' = Stream
  <2>1. Stream' = Five(disk, buf, <<>>, <<>>, t)
    BY <1>1, <1>2 DEF Stream, Untouched
  <2>2. Stream = Five(disk, <<>>, buf, <<>>, t)
    BY <1>2 DEF Stream
  <2> HIDE DEF t
  <2> QED BY <2>1, <2>2, <1>2, MoveClose, ZenonT(30)
<1>6. Len(buf') <= BufSize
  BY <1>1, LogAssumption
<1> QED BY <1>1, <1>3, <1>4, <1>5, <1>6, MoveKeeps

\* The file is closed.
LEMMA CloseFdStep ==
  ASSUME LogInv, CloseFd
  PROVE  LogInv'
<1>1. /\ dpc = "close" /\ out = <<>> /\ dpc' = "closed" /\ wpc' = "idle"
      /\ UNCHANGED <<pool, pushed, stop, lpc, tpc, buf, rest, out, disk, failed>>
  BY DEF CloseFd, queueVars
<1>2. rest = <<>> /\ tpc = "ended" /\ wpc = "close"
  BY <1>1 DEF LogInv, LogPhases
<1>3. LogTypes'
  BY <1>1, <1>2, Zenon DEF LogInv, LogTypes, TypeOK
<1>4. LogPhases'
  BY <1>1, <1>2 DEF LogPhases
<1>5. Stream' = Stream
  BY <1>1 DEF Stream, Untouched
<1>6. Len(buf') <= BufSize
  BY <1>1 DEF LogInv
<1> QED BY <1>1, <1>3, <1>4, <1>5, <1>6, MoveKeeps

\* Every step keeps the invariant.
LEMMA LogStep == LogInv /\ [Next]_vars => LogInv'
<1> SUFFICES ASSUME LogInv, [Next]_vars PROVE LogInv'
  OBVIOUS
<1>1. ASSUME NEW p \in Loggers, Push(p) PROVE LogInv'
  BY <1>1, PushStep
<1>2. CASE CheckStop \/ Wait \/ SpuriousWakeup \/ DoFlush \/ DrainDone
  <2>1. LogTypes'
    BY <1>2 DEF LogInv, LogTypes, TypeOK, CheckStop, Wait, SpuriousWakeup, DoFlush, DrainDone, queueVars, fileVars
  <2>2. LogPhases'
    BY <1>2 DEF LogInv, LogPhases, CheckStop, Wait, SpuriousWakeup, DoFlush, DrainDone, queueVars, fileVars
  <2>3. UNCHANGED <<pool, pushed, fileVars>> /\ (tpc' = "append" <=> tpc = "append")
    BY <1>2 DEF CheckStop, Wait, SpuriousWakeup, DoFlush, DrainDone, queueVars, fileVars
  <2> QED BY <2>1, <2>2, <2>3, IdleKeeps
<1>3. CASE SetStop \/ NotifyStop \/ \E p \in Loggers : NotifyOne(p)
  <2>1. LogTypes'
    BY <1>3, ZenonT(30) DEF LogInv, LogTypes, TypeOK, SetStop, NotifyStop, NotifyOne, Notified, queueVars, fileVars
  <2>2. LogPhases'
    BY <1>3 DEF LogInv, LogPhases, SetStop, NotifyStop, NotifyOne, Notified, queueVars, fileVars
  <2>3. UNCHANGED <<pool, pushed, fileVars>> /\ (tpc' = "append" <=> tpc = "append")
    BY <1>3 DEF SetStop, NotifyStop, NotifyOne, Notified, queueVars, fileVars
  <2> QED BY <2>1, <2>2, <2>3, IdleKeeps
<1>4. CASE UNCHANGED vars
  <2>1. LogTypes'
    BY <1>4 DEF LogInv, LogTypes, TypeOK, vars, queueVars, fileVars
  <2>2. LogPhases'
    BY <1>4 DEF LogInv, LogPhases, vars, queueVars, fileVars
  <2>3. UNCHANGED <<pool, pushed, fileVars>> /\ (tpc' = "append" <=> tpc = "append")
    BY <1>4 DEF vars, queueVars, fileVars
  <2> QED BY <2>1, <2>2, <2>3, IdleKeeps
<1> QED
  BY <1>1, <1>2, <1>3, <1>4, FillStep, FlushedStep, DirectDoneStep, WriteSomeStep, WriteFailsStep,
     JoinStep, CloseFdStep DEF Next, ThreadStep, FileStep, DestroyStep

\* Until a write fails, every byte logged is on the disk, on its way or in the
\* pool, once and in the order of the pushes; even when writes fail, no byte
\* reaches the disk twice or out of order, and append() never runs past the end
\* of the buffer (AsyncFileLogFlusher::doFlush, WritableFile::append and write).
THEOREM LogInOrder == Spec => []InOrder
<1>1. LogInv => InOrder
  <2> SUFFICES ASSUME LogInv PROVE InOrder
    OBVIOUS
  <2> DEFINE t == FlattenSeq(Untouched)
             c == out \o (buf \o (rest \o t))
  <2>1. /\ disk \in Seq(Bytes) /\ out \in Seq(Bytes) /\ buf \in Seq(Bytes) /\ rest \in Seq(Bytes)
        /\ t \in Seq(Bytes) /\ Len(pushed) \in Nat
    BY StreamType DEF LogInv, LogTypes
  <2>2. c \in Seq(Bytes) /\ Stream = disk \o c
    <3> HIDE DEF t
    <3>1. c \in Seq(Bytes)
      BY <2>1
    <3>2. Stream = Five(disk, out, buf, rest, t)
      BY DEF Stream, t
    <3>3. Five(disk, out, buf, rest, t) = Both(disk, out \o (buf \o (rest \o t)))
      BY <2>1, FiveFront
    <3> QED BY <3>1, <3>2, <3>3 DEF Both
  <2> HIDE DEF c, t
  <2>3. SortedTo(disk, Len(pushed))
    BY <2>1, <2>2, SortedFront DEF LogInv
  <2>4. \A i, j \in 1..Len(disk) :
          i < j => \/ disk[i][1] < disk[j][1]
                   \/ disk[i][1] = disk[j][1] /\ disk[i][2] < disk[j][2]
    BY <2>3 DEF SortedTo, Before
  <2> QED BY <2>4 DEF LogInv, InOrder, Stream, Five
<1> QED BY <1>1, LogStart, LogStep, PTL DEF Spec
=============================================================================
