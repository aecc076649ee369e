--------------------------- MODULE IoManagerProofs ---------------------------
(***************************************************************************)
(* The event table, the timers and the suspended coroutines of IOManager,  *)
(* for every number of coroutines, descriptors, calls and ticks, when no   *)
(* I/O timeout is set (Timeout = 0), no descriptor is closed while a       *)
(* coroutine waits on it (~CloseBusy), and EPOLLHUP or EPOLLERR comes with *)
(* EPOLLIN and EPOLLOUT, as for a TCP socket (HangUps within {Events}).    *)
(* Without any one of the three the table and epoll come apart; the run    *)
(* io_timeout shows the first.                                             *)
(***************************************************************************)
EXTENDS IoManager, FiniteSetTheorems, SequenceTheorems, WellFoundedInduction, TLAPS

-----------------------------------------------------------------------------
(* The inductive invariant.                                                *)

Timer  == [stamp : Nat, owner : Coroutines, id : Nat]
Entry  == [run : {"executor"}, who : Coroutines \cup {None}] \cup [run : {"timer"}, timer : Timer]
Event  == [fd : Fds, es : SUBSET (Events \cup {Hup})]
Frame  == [at : {"user", "io", "sleep", "connect", "done"}, fd : Fds \cup {None}, ev : Events,
           until : Nat, id : Nat, flag : BOOLEAN]

IoTypes ==
  /\ reg \in [Fds -> SUBSET Events]
  /\ exec \in [Fds -> [Events -> Coroutines \cup {None}]]
  /\ ep \in [Fds -> (SUBSET Events) \cup {Absent}]
  /\ open \in SUBSET Fds /\ avail \in [Fds -> SUBSET (Events \cup {Hup})]
  /\ conn \in [Fds -> {"no", "pending", "done"}] /\ now \in 0..MaxTime
  /\ timers \in Seq(Timer) /\ limit \in Nat /\ ready \in Seq(Entry)
  /\ pc \in Places /\ cur \in Coroutines \cup {None}
  /\ evq \in Seq(Event)
  /\ co \in [Coroutines -> Frame] /\ calls \in [Coroutines -> 0..MaxCalls]

Waits(c) == co[c].at \in {"io", "connect"}

\* The executors in the table are those of the coroutines that wait there.
TableOK ==
  \A fd \in Fds, e \in Events :
    IF e \in reg[fd]
    THEN exec[fd][e] \in Coroutines /\ Waits(exec[fd][e])
           /\ co[exec[fd][e]].fd = fd /\ co[exec[fd][e]].ev = e
    ELSE exec[fd][e] = None

\* What a suspended coroutine has left on its stack.
FramesOK ==
  /\ \A c \in Coroutines :
       /\ Waits(c) => co[c].fd \in Fds
       /\ co[c].at = "connect" => co[c].ev = Write
       /\ co[c].at = "io" => co[c].until = Forever /\ ~co[c].flag
  /\ \A c, d \in Coroutines :
       Waits(c) /\ Waits(d) /\ co[c].fd = co[d].fd /\ co[c].ev = co[d].ev => c = d

\* A hang-up makes a descriptor ready for everything; a connect in progress
\* is not writable.
KernelOK ==
  \A fd \in Fds :
    /\ Hup \in avail[fd] => Events \subseteq avail[fd]
    /\ conn[fd] = "pending" => Write \notin avail[fd]

\* Events still to be handled are events the table has asked for.
EventsOK ==
  /\ pc # "events" => evq = <<>>
  /\ \A i \in 1..Len(evq) :
       LET fd == evq[i].fd
           es == evq[i].es
       IN  /\ reg[fd] # {} /\ es # {} /\ es \cap Events \subseteq reg[fd]
           /\ Hup \in es => reg[fd] \subseteq es
           /\ es \cap {Write, Hup} # {} => conn[fd] # "pending"
  /\ \A i, j \in 1..Len(evq) : i # j => evq[i].fd # evq[j].fd

\* Whom an entry of the ready list will resume.
Owner(r) == IF r.run = "timer" THEN r.timer.owner ELSE r.who

\* What c waits for has happened.
Returnable(c) ==
  /\ co[c].at = "sleep" => co[c].until <= now
  /\ co[c].at = "connect" => conn[co[c].fd] # "pending"

\* The five places where a coroutine can be.
InTable(c)  == Waits(c) /\ co[c].ev \in reg[co[c].fd]
InReady(c)  == \E r \in Range(ready) : Owner(r) = c
Sleeping(t) == t.stamp # Forever
InTimers(c) == \E t \in Range(timers) : Sleeping(t) /\ t.owner = c
Running(c)  == pc = "run" /\ cur = c
Done(c)     == co[c].at = "done"

\* No two entries, and no two timers that can expire, have the same owner.
DistinctEntries(s) ==
  \A i, j \in 1..Len(s) : i # j /\ Owner(s[i]) # None => Owner(s[i]) # Owner(s[j])
DistinctTimers(s) ==
  \A i, j \in 1..Len(s) : i # j /\ Sleeping(s[i]) /\ Sleeping(s[j]) => s[i].owner # s[j].owner

\* Why an entry is in the list, and a timer in the manager.
EntryOK(r) ==
  IF r.run = "timer"
  THEN /\ co[r.timer.owner].at = "sleep"
       /\ co[r.timer.owner].until = r.timer.stamp /\ r.timer.stamp <= now
  ELSE r.who # None => Returnable(r.who)

TimerOK(t) == Sleeping(t) => co[t.owner].at = "sleep" /\ co[t.owner].until = t.stamp

WakesOK ==
  /\ DistinctEntries(ready) /\ \A r \in Range(ready) : EntryOK(r)
  /\ DistinctTimers(timers) /\ \A t \in Range(timers) : TimerOK(t)

\* A coroutine is in exactly one of its places.
PlaceOK(c) ==
  /\ InTable(c) => ~InReady(c) /\ ~Running(c)
  /\ InReady(c) => ~InTimers(c) /\ ~Running(c) /\ ~Done(c)
  /\ InTimers(c) => ~Running(c)
  /\ Running(c) => ~Done(c) /\ Returnable(c)
  /\ InTable(c) \/ InReady(c) \/ InTimers(c) \/ Running(c) \/ Done(c)
PlacesOK == \A c \in Coroutines : PlaceOK(c)

ThreadOK == (pc = "run" => cur \in Coroutines) /\ pc # "crashed"

IoInv ==
  /\ IoTypes /\ TableMatchesEpoll /\ TableOK /\ FramesOK /\ KernelOK /\ EventsOK
  /\ WakesOK /\ PlacesOK /\ ThreadOK /\ NoTimerLeak

-----------------------------------------------------------------------------
(* Sequences of entries and of timers.                                     *)

\* A non-empty set of numbers has a least element.
LEMMA LeastOf ==
  ASSUME NEW T \in SUBSET Nat, T # {}
  PROVE  \E m \in T : \A n \in T : m <= n
<1> DEFINE R == OpToRel(<, Nat)
<1>1. IsWellFoundedOn(R, Nat)
  BY NatLessThanWellFounded
<1> HIDE DEF R
<1>2. PICK m \in T : \A n \in T : <<n, m>> \notin R
  BY <1>1, WFMin
<1>3. \A n \in T : ~(n < m)
  BY <1>2 DEF R, OpToRel
<1> QED BY <1>3

\* A sequence is its first n elements and the others.
LEMMA Split ==
  ASSUME NEW S, NEW s \in Seq(S), NEW n \in 0..Len(s)
  PROVE  /\ SubSeq(s, 1, n) \in Seq(S) /\ SubSeq(s, n + 1, Len(s)) \in Seq(S)
         /\ Len(SubSeq(s, 1, n)) = n /\ \A i \in 1..n : SubSeq(s, 1, n)[i] = s[i]
         /\ s = SubSeq(s, 1, n) \o SubSeq(s, n + 1, Len(s))
<1> DEFINE a == SubSeq(s, 1, n)
           b == SubSeq(s, n + 1, Len(s))
           L == Len(s)
<1>0. L \in Nat /\ n \in Nat /\ n <= L
  OBVIOUS
<1>1. a \in Seq(S) /\ Len(a) = n /\ \A i \in 1..n : a[i] = s[i]
  BY <1>0
<1>2. b \in Seq(S) /\ Len(b) = L - n /\ \A i \in 1..(L - n) : b[i] = s[n + i]
  <2>1. b \in Seq(S)
    BY <1>0
  <2>2. Len(b) = L - n
    BY <1>0
  <2>3. \A i \in 1..(L - n) : b[i] = s[n + i]
    BY <1>0
  <2> QED BY <2>1, <2>2, <2>3
<1> HIDE DEF a, b
<1>3. a \o b \in Seq(S) /\ Len(a \o b) = L
  BY <1>0, <1>1, <1>2
<1>4. ASSUME NEW i \in 1..L PROVE (a \o b)[i] = s[i]
  <2>1. CASE i <= n
    BY <2>1, <1>0, <1>1, <1>2
  <2>2. CASE ~(i <= n)
    <3>1. i - n \in 1..(L - n) /\ n + (i - n) = i
      BY <2>2, <1>0
    <3>2. (a \o b)[i] = b[i - n]
      BY <2>2, <1>0, <1>1, <1>2
    <3>3. b[i - n] = s[n + (i - n)]
      BY <3>1, <1>2
    <3> QED BY <3>1, <3>2, <3>3
  <2> QED BY <2>1, <2>2
<1>5. s = a \o b
  <2> DEFINE u == a \o b
  <2>1. u \in Seq(S) /\ Len(u) = Len(s) /\ \A i \in 1..Len(s) : u[i] = s[i]
    BY <1>3, <1>4
  <2> HIDE DEF u
  <2>2. u = s
    BY <2>1
  <2> QED BY <2>2 DEF u
<1> QED BY <1>1, <1>2, <1>5 DEF a, b

\* What Range is of a sequence.
LEMMA RangeIs ==
  ASSUME NEW S, NEW s \in Seq(S)
  PROVE  Range(s) = {s[i] : i \in 1..Len(s)} /\ Range(s) \subseteq S
  BY DEF Range

\* The indices of a concatenation are those of its two parts.
LEMMA ConcatAt ==
  ASSUME NEW S, NEW a \in Seq(S), NEW b \in Seq(S)
  PROVE  /\ a \o b \in Seq(S) /\ Len(a) \in Nat /\ Len(b) \in Nat /\ Len(a \o b) = Len(a) + Len(b)
         /\ \A i \in 1..Len(a) : i \in 1..Len(a \o b) /\ (a \o b)[i] = a[i]
         /\ \A i \in 1..Len(b) : Len(a) + i \in 1..Len(a \o b) /\ (a \o b)[Len(a) + i] = b[i]
         /\ \A i \in 1..Len(a \o b) : i \in 1..Len(a) \/ (i - Len(a) \in 1..Len(b) /\ i = Len(a) + (i - Len(a)))
<1>1. a \o b \in Seq(S) /\ Len(a) \in Nat /\ Len(b) \in Nat /\ Len(a \o b) = Len(a) + Len(b)
  OBVIOUS
<1>2. \A i \in 1..Len(a) : i \in 1..Len(a \o b) /\ (a \o b)[i] = a[i]
  BY <1>1
<1>3. \A i \in 1..Len(b) : Len(a) + i \in 1..Len(a \o b) /\ (a \o b)[Len(a) + i] = b[i]
  BY <1>1
<1>4. \A i \in 1..Len(a \o b) : i \in 1..Len(a) \/ (i - Len(a) \in 1..Len(b) /\ i = Len(a) + (i - Len(a)))
  BY <1>1
<1> QED BY <1>1, <1>2, <1>3, <1>4

\* Range of a concatenation.
LEMMA RangeConcat ==
  ASSUME NEW S, NEW a \in Seq(S), NEW b \in Seq(S)
  PROVE  Range(a \o b) = Range(a) \cup Range(b)
<1> DEFINE s == a \o b
<1>1. s \in Seq(S) /\ Range(s) = {s[i] : i \in 1..Len(s)}
  BY ConcatAt, RangeIs
<1>2. Range(a) = {a[i] : i \in 1..Len(a)} /\ Range(b) = {b[i] : i \in 1..Len(b)}
  BY RangeIs
<1>3. /\ \A i \in 1..Len(a) : i \in 1..Len(s) /\ s[i] = a[i]
      /\ \A i \in 1..Len(b) : Len(a) + i \in 1..Len(s) /\ s[Len(a) + i] = b[i]
      /\ \A i \in 1..Len(s) : i \in 1..Len(a) \/ (i - Len(a) \in 1..Len(b) /\ i = Len(a) + (i - Len(a)))
  BY ConcatAt
<1> HIDE DEF s
<1>4. Range(a) \cup Range(b) \subseteq Range(s)
  BY <1>1, <1>2, <1>3
<1>5. Range(s) \subseteq Range(a) \cup Range(b)
  <2> SUFFICES ASSUME NEW i \in 1..Len(s) PROVE s[i] \in Range(a) \cup Range(b)
    BY <1>1
  <2>1. CASE i \in 1..Len(a)
    BY <2>1, <1>2, <1>3
  <2>2. CASE i - Len(a) \in 1..Len(b) /\ i = Len(a) + (i - Len(a))
    <3>1. PICK j \in 1..Len(b) : i = Len(a) + j
      BY <2>2
    <3>2. s[i] = b[j]
      BY <3>1, <1>3
    <3> QED BY <3>2, <1>2
  <2> QED BY <2>1, <2>2, <1>3
<1> QED BY <1>4, <1>5 DEF s

\* Range of one element and of none.
LEMMA RangeOne ==
  ASSUME NEW x
  PROVE  Range(<<x>>) = {x} /\ Range(<<>>) = {}
  BY DEF Range

\* Entries of two lists that resume different coroutines.
ApartE(A, B) == \A x \in A, y \in B : Owner(x) = Owner(y) => Owner(x) = None

\* When a concatenation has no entry twice.
LEMMA DistinctConcatE ==
  ASSUME NEW a \in Seq(Entry), NEW b \in Seq(Entry)
  PROVE  DistinctEntries(a \o b) <=> DistinctEntries(a) /\ DistinctEntries(b) /\ ApartE(Range(a), Range(b))
<1> DEFINE s == a \o b
<1>1. /\ Range(a) = {a[i] : i \in 1..Len(a)} /\ Range(b) = {b[i] : i \in 1..Len(b)}
      /\ Len(a) \in Nat /\ Len(b) \in Nat
  BY RangeIs
<1>2. /\ \A i \in 1..Len(a) : i \in 1..Len(s) /\ s[i] = a[i]
      /\ \A i \in 1..Len(b) : Len(a) + i \in 1..Len(s) /\ s[Len(a) + i] = b[i]
      /\ \A i \in 1..Len(s) : i \in 1..Len(a) \/ (i - Len(a) \in 1..Len(b) /\ i = Len(a) + (i - Len(a)))
  BY ConcatAt
<1> HIDE DEF s
<1>3. ASSUME DistinctEntries(s)
      PROVE  DistinctEntries(a) /\ DistinctEntries(b) /\ ApartE(Range(a), Range(b))
  <2>1. DistinctEntries(a)
    BY <1>2, <1>3 DEF DistinctEntries
  <2>2. DistinctEntries(b)
    <3> SUFFICES ASSUME NEW i \in 1..Len(b), NEW j \in 1..Len(b), i # j, Owner(b[i]) # None
                 PROVE  Owner(b[i]) # Owner(b[j])
      BY DEF DistinctEntries
    <3>1. Len(a) + i # Len(a) + j
      BY <1>1
    <3> QED BY <3>1, <1>2, <1>3 DEF DistinctEntries
  <2>3. ApartE(Range(a), Range(b))
    <3> SUFFICES ASSUME NEW i \in 1..Len(a), NEW j \in 1..Len(b), Owner(a[i]) = Owner(b[j])
                 PROVE  Owner(a[i]) = None
      BY <1>1 DEF ApartE
    <3>1. i # Len(a) + j
      BY <1>1
    <3> QED BY <3>1, <1>2, <1>3 DEF DistinctEntries
  <2> QED BY <2>1, <2>2, <2>3
<1>4. ASSUME DistinctEntries(a), DistinctEntries(b), ApartE(Range(a), Range(b))
      PROVE  DistinctEntries(s)
  <2> SUFFICES ASSUME NEW i \in 1..Len(s), NEW j \in 1..Len(s), i # j, Owner(s[i]) # None
               PROVE  Owner(s[i]) # Owner(s[j])
    BY DEF DistinctEntries
  <2>1. CASE i \in 1..Len(a) /\ j \in 1..Len(a)
    BY <2>1, <1>2, <1>4 DEF DistinctEntries
  <2>2. ASSUME NEW k \in 1..Len(b), i \in 1..Len(a), j = Len(a) + k PROVE Owner(s[i]) # Owner(s[j])
    BY <2>2, <1>1, <1>2, <1>4 DEF ApartE
  <2>3. ASSUME NEW k \in 1..Len(b), j \in 1..Len(a), i = Len(a) + k PROVE Owner(s[i]) # Owner(s[j])
    BY <2>3, <1>1, <1>2, <1>4 DEF ApartE
  <2>4. ASSUME NEW k \in 1..Len(b), NEW l \in 1..Len(b), i = Len(a) + k, j = Len(a) + l
        PROVE  Owner(s[i]) # Owner(s[j])
    <3>1. k # l
      BY <2>4
    <3> QED BY <3>1, <2>4, <1>2, <1>4 DEF DistinctEntries
  <2>5. /\ i \in 1..Len(a) \/ \E k \in 1..Len(b) : i = Len(a) + k
        /\ j \in 1..Len(a) \/ \E k \in 1..Len(b) : j = Len(a) + k
    BY <1>2
  <2> QED BY <2>1, <2>2, <2>3, <2>4, <2>5
<1> QED BY <1>3, <1>4 DEF s

\* The same of timers that can expire.
ApartT(A, B) == \A x \in A, y \in B : Sleeping(x) /\ Sleeping(y) => x.owner # y.owner

\* When a concatenation has no timer twice.
LEMMA DistinctConcatT ==
  ASSUME NEW a \in Seq(Timer), NEW b \in Seq(Timer)
  PROVE  DistinctTimers(a \o b) <=> DistinctTimers(a) /\ DistinctTimers(b) /\ ApartT(Range(a), Range(b))
<1> DEFINE s == a \o b
<1>1. /\ Range(a) = {a[i] : i \in 1..Len(a)} /\ Range(b) = {b[i] : i \in 1..Len(b)}
      /\ Len(a) \in Nat /\ Len(b) \in Nat
  BY RangeIs
<1>2. /\ \A i \in 1..Len(a) : i \in 1..Len(s) /\ s[i] = a[i]
      /\ \A i \in 1..Len(b) : Len(a) + i \in 1..Len(s) /\ s[Len(a) + i] = b[i]
      /\ \A i \in 1..Len(s) : i \in 1..Len(a) \/ (i - Len(a) \in 1..Len(b) /\ i = Len(a) + (i - Len(a)))
  BY ConcatAt
<1> HIDE DEF s
<1>3. ASSUME DistinctTimers(s)
      PROVE  DistinctTimers(a) /\ DistinctTimers(b) /\ ApartT(Range(a), Range(b))
  <2>1. DistinctTimers(a)
    BY <1>2, <1>3 DEF DistinctTimers
  <2>2. DistinctTimers(b)
    <3> SUFFICES ASSUME NEW i \in 1..Len(b), NEW j \in 1..Len(b), i # j, Sleeping(b[i]), Sleeping(b[j])
                 PROVE  b[i].owner # b[j].owner
      BY DEF DistinctTimers
    <3>1. PICK k \in 1..Len(s), l \in 1..Len(s) : k = Len(a) + i /\ l = Len(a) + j
      BY <1>2
    <3>2. k # l
      BY <3>1, <1>1
    <3>3. s[k] = b[i] /\ s[l] = b[j]
      BY <3>1, <1>2
    <3>4. s[k].owner # s[l].owner
      BY <3>2, <3>3, <1>3 DEF DistinctTimers
    <3> QED BY <3>3, <3>4
  <2>3. ApartT(Range(a), Range(b))
    <3> SUFFICES ASSUME NEW i \in 1..Len(a), NEW j \in 1..Len(b), Sleeping(a[i]), Sleeping(b[j])
                 PROVE  a[i].owner # b[j].owner
      BY <1>1 DEF ApartT
    <3>1. PICK l \in 1..Len(s) : l = Len(a) + j
      BY <1>2
    <3>2. i \in 1..Len(s) /\ i # l
      BY <3>1, <1>1, <1>2
    <3>3. s[i] = a[i] /\ s[l] = b[j]
      BY <3>1, <1>2
    <3>4. s[i].owner # s[l].owner
      BY <3>2, <3>3, <1>3 DEF DistinctTimers
    <3> QED BY <3>3, <3>4
  <2> QED BY <2>1, <2>2, <2>3
<1>4. ASSUME DistinctTimers(a), DistinctTimers(b), ApartT(Range(a), Range(b))
      PROVE  DistinctTimers(s)
  <2> SUFFICES ASSUME NEW i \in 1..Len(s), NEW j \in 1..Len(s), i # j, Sleeping(s[i]), Sleeping(s[j])
               PROVE  s[i].owner # s[j].owner
    BY DEF DistinctTimers
  <2>1. CASE i \in 1..Len(a) /\ j \in 1..Len(a)
    BY <2>1, <1>2, <1>4 DEF DistinctTimers
  <2>2. ASSUME NEW k \in 1..Len(b), i \in 1..Len(a), j = Len(a) + k PROVE s[i].owner # s[j].owner
    <3>1. s[i] = a[i] /\ s[j] = b[k]
      BY <2>2, <1>2
    <3>2. a[i] \in Range(a) /\ b[k] \in Range(b)
      BY <2>2, <1>1
    <3> QED BY <3>1, <3>2, <1>4 DEF ApartT
  <2>3. ASSUME NEW k \in 1..Len(b), j \in 1..Len(a), i = Len(a) + k PROVE s[i].owner # s[j].owner
    <3>1. s[j] = a[j] /\ s[i] = b[k]
      BY <2>3, <1>2
    <3>2. a[j] \in Range(a) /\ b[k] \in Range(b)
      BY <2>3, <1>1
    <3> QED BY <3>1, <3>2, <1>4 DEF ApartT
  <2>4. ASSUME NEW k \in 1..Len(b), NEW l \in 1..Len(b), i = Len(a) + k, j = Len(a) + l
        PROVE  s[i].owner # s[j].owner
    <3>1. k # l
      BY <2>4
    <3>2. s[i] = b[k] /\ s[j] = b[l]
      BY <2>4, <1>2
    <3> QED BY <3>1, <3>2, <1>4 DEF DistinctTimers
  <2>5. /\ i \in 1..Len(a) \/ \E k \in 1..Len(b) : i = Len(a) + k
        /\ j \in 1..Len(a) \/ \E k \in 1..Len(b) : j = Len(a) + k
    BY <1>2
  <2> QED BY <2>1, <2>2, <2>3, <2>4, <2>5
<1> QED BY <1>3, <1>4 DEF s

\* The timers of size_t(-1) in a list.
Endless(s) == Cardinality({i \in 1..Len(s) : s[i].stamp = Forever})

\* The timers without end are finitely many.
LEMMA EndlessNat ==
  ASSUME NEW s \in Seq(Timer)
  PROVE  /\ IsFiniteSet({i \in 1..Len(s) : s[i].stamp = Forever})
         /\ Endless(s) \in Nat
<1>1. IsFiniteSet(1..Len(s))
  BY FS_Interval
<1>2. {i \in 1..Len(s) : s[i].stamp = Forever} \in SUBSET (1..Len(s))
  OBVIOUS
<1>3. IsFiniteSet({i \in 1..Len(s) : s[i].stamp = Forever})
  BY <1>1, <1>2, FS_Subset
<1> QED BY <1>3, FS_CardinalityType DEF Endless

\* The timers without end of a concatenation.
LEMMA EndlessConcat ==
  ASSUME NEW a \in Seq(Timer), NEW b \in Seq(Timer)
  PROVE  Endless(a \o b) = Endless(a) + Endless(b)
<1> DEFINE A == {i \in 1..Len(a) : a[i].stamp = Forever}
           B == {i \in 1..Len(b) : b[i].stamp = Forever}
           n == Len(a)
           s == a \o b
           D == {i \in 1..Len(s) : s[i].stamp = Forever}
           C == {i \in D : i \notin 1..n}
           f == [i \in B |-> n + i]
<1>1. IsFiniteSet(A) /\ IsFiniteSet(B)
  BY EndlessNat
<1>2. /\ n \in Nat /\ Len(b) \in Nat
      /\ \A i \in 1..n : i \in 1..Len(s) /\ s[i] = a[i]
      /\ \A i \in 1..Len(b) : n + i \in 1..Len(s) /\ s[n + i] = b[i]
      /\ \A i \in 1..Len(s) : i \in 1..n \/ (i - n \in 1..Len(b) /\ i = n + (i - n))
  BY ConcatAt
<1> HIDE DEF s
<1>3. D = A \cup C /\ A \cap C = {}
  BY <1>2
<1>4. ExistsBijection(B, C)
  <2>1. f \in [B -> C]
    <3> SUFFICES ASSUME NEW i \in B PROVE n + i \in C
      OBVIOUS
    <3>1. n + i \notin 1..n
      BY <1>2
    <3> QED BY <3>1, <1>2
  <2>2. \A i, j \in B : f[i] = f[j] => i = j
    BY <1>2
  <2>3. ASSUME NEW c \in C PROVE \E i \in B : f[i] = c
    <3>1. c - n \in 1..Len(b) /\ c = n + (c - n)
      BY <1>2
    <3>2. PICK j \in 1..Len(b) : c = n + j
      BY <3>1
    <3>3. s[n + j] = b[j] /\ s[c].stamp = Forever
      BY <1>2
    <3>4. j \in B /\ f[j] = c
      BY <3>2, <3>3
    <3> QED BY <3>4
  <2>4. f \in Injection(B, C)
    BY <2>1, <2>2 DEF Injection, IsInjective
  <2>5. f \in Surjection(B, C)
    BY <2>1, <2>3 DEF Surjection
  <2> QED BY <2>4, <2>5 DEF ExistsBijection, Bijection
<1>5. IsFiniteSet(C) /\ Cardinality(C) = Cardinality(B)
  BY <1>1, <1>4, FS_Bijection
<1>6. Cardinality(A) \in Nat /\ Cardinality(C) \in Nat
  BY <1>1, <1>5, FS_CardinalityType
<1> HIDE DEF A, B, C, D
<1>7. Cardinality(A \cup C) = Cardinality(A) + Cardinality(C)
  <2>1. Cardinality(A \cup C) = Cardinality(A) + Cardinality(C) - Cardinality(A \cap C)
    BY <1>1, <1>5, FS_Union
  <2>2. Cardinality(A \cap C) = 0
    BY <1>3, FS_EmptySet
  <2> QED BY <2>1, <2>2, <1>6
<1>8. Cardinality(D) = Cardinality(A) + Cardinality(B)
  BY <1>3, <1>5, <1>7
<1> QED BY <1>8 DEF Endless, A, B, D, s

\* The timers without end among one.
LEMMA EndlessOne ==
  ASSUME NEW t
  PROVE  Endless(<<t>>) = IF Sleeping(t) THEN 0 ELSE 1
<1>1. {i \in 1..Len(<<t>>) : <<t>>[i].stamp = Forever} = IF Sleeping(t) THEN {} ELSE {1}
  BY DEF Sleeping
<1> QED BY <1>1, FS_EmptySet, FS_Singleton DEF Endless

\* Timers of sleepers all end.
LEMMA EndlessNone ==
  ASSUME NEW s \in Seq(Timer), \A t \in Range(s) : Sleeping(t)
  PROVE  Endless(s) = 0
<1>1. {i \in 1..Len(s) : s[i].stamp = Forever} = {}
  BY RangeIs DEF Sleeping
<1> QED BY <1>1, FS_EmptySet DEF Endless

\* Where std::multiset inserts, and where the timers that are due end.
LEMMA UpperBoundIs ==
  ASSUME NEW s \in Seq(Timer), NEW x \in Nat
  PROVE  /\ UpperBound(s, x) \in 0..Len(s)
         /\ \A i \in 1..UpperBound(s, x) : s[i].stamp <= x
         /\ UpperBound(s, x) = Len(s) \/ s[UpperBound(s, x) + 1].stamp > x
<1> DEFINE P(n) == /\ \A i \in 1..n : s[i].stamp <= x
                   /\ n = Len(s) \/ s[n + 1].stamp > x
           T == {i \in 1..Len(s) : ~(s[i].stamp <= x)}
<1>0. Len(s) \in Nat /\ \A i \in 1..Len(s) : s[i] \in Timer
  OBVIOUS
<1>1. Len(s) \in Nat /\ \A i \in 1..Len(s) : s[i].stamp \in Nat
  BY <1>0 DEF Timer
<1>2. \E n \in 0..Len(s) : P(n)
  <2>1. CASE T = {}
    <3>1. P(Len(s)) /\ Len(s) \in 0..Len(s)
      BY <2>1, <1>1
    <3> QED BY <3>1
  <2>2. CASE T # {}
    <3>1. T \in SUBSET Nat
      BY <1>1
    <3>2. PICK m \in T : \A k \in T : m <= k
      BY <3>1, <2>2, LeastOf
    <3>3. m \in 1..Len(s) /\ s[m].stamp > x
      BY <1>1
    <3>4. PICK n \in 0..Len(s) : m = n + 1
      <4>1. m - 1 \in 0..Len(s) /\ m = (m - 1) + 1
        BY <3>3, <1>1
      <4> QED BY <4>1
    <3>5. ASSUME NEW i \in 1..n PROVE s[i].stamp <= x
      <4>1. i \in 1..Len(s) /\ ~(m <= i)
        BY <3>3, <3>4, <1>1
      <4> QED BY <4>1, <3>2
    <3> QED BY <3>3, <3>4, <3>5
  <2> QED BY <2>1, <2>2
<1>3. UpperBound(s, x) = CHOOSE n \in 0..Len(s) : P(n)
  BY DEF UpperBound
<1> HIDE DEF P
<1>4. UpperBound(s, x) \in 0..Len(s) /\ P(UpperBound(s, x))
  BY <1>2, <1>3
<1> QED BY <1>4 DEF P

\* addTimer.
LEMMA AddTimerIs ==
  ASSUME NEW s \in Seq(Timer), NEW t \in Timer
  PROVE  /\ AddTimer(s, t) \in Seq(Timer)
         /\ Range(AddTimer(s, t)) = Range(s) \cup {t}
         /\ DistinctTimers(s) /\ ApartT(Range(s), {t}) => DistinctTimers(AddTimer(s, t))
         /\ Endless(AddTimer(s, t)) = Endless(s) + (IF Sleeping(t) THEN 0 ELSE 1)
<1> DEFINE n == UpperBound(s, t.stamp)
           a == SubSeq(s, 1, n)
           b == SubSeq(s, n + 1, Len(s))
           c == a \o <<t>>
<1>1. n \in 0..Len(s)
  BY UpperBoundIs DEF Timer
<1> HIDE DEF n
<1>2. a \in Seq(Timer) /\ b \in Seq(Timer) /\ s = a \o b /\ <<t>> \in Seq(Timer)
  <2>1. <<t>> \in Seq(Timer)
    OBVIOUS
  <2>2. a \in Seq(Timer) /\ b \in Seq(Timer) /\ s = a \o b
    BY <1>1, Split
  <2> QED BY <2>1, <2>2
<1>3. AddTimer(s, t) = c \o b
  <2>1. (n + 1) - 1 = n
    BY <1>1
  <2> QED BY <2>1 DEF AddTimer, InsertAt, n
<1> HIDE DEF a, b
<1>4. c \in Seq(Timer)
  BY <1>2
<1>5. Range(c) = Range(a) \cup {t} /\ Range(s) = Range(a) \cup Range(b)
  <2>1. Range(s) = Range(a) \cup Range(b)
    <3>1. Range(a \o b) = Range(a) \cup Range(b)
      BY <1>2, RangeConcat
    <3> QED BY <3>1, <1>2, Zenon
  <2>2. Range(a \o <<t>>) = Range(a) \cup Range(<<t>>)
    BY <1>2, RangeConcat, ZenonT(30)
  <2>3. Range(<<t>>) = {t}
    BY RangeOne
  <2> QED BY <2>1, <2>2, <2>3, Zenon
<1>6. Endless(c) = Endless(a) + (IF Sleeping(t) THEN 0 ELSE 1) /\ Endless(s) = Endless(a) + Endless(b)
  <2>1. Endless(a \o <<t>>) = Endless(a) + Endless(<<t>>)
    BY <1>2, EndlessConcat, ZenonT(30)
  <2>2. Endless(a \o b) = Endless(a) + Endless(b)
    BY <1>2, EndlessConcat, ZenonT(30)
  <2>3. Endless(<<t>>) = IF Sleeping(t) THEN 0 ELSE 1
    BY EndlessOne
  <2> QED BY <2>1, <2>2, <2>3, <1>2
<1>7. DistinctTimers(<<t>>)
  BY DEF DistinctTimers
<1>8. DistinctTimers(s) => DistinctTimers(a) /\ DistinctTimers(b) /\ ApartT(Range(a), Range(b))
  BY <1>2, DistinctConcatT
<1>9. DistinctTimers(a) /\ ApartT(Range(a), {t}) => DistinctTimers(c)
  BY <1>2, <1>7, DistinctConcatT, RangeOne
<1> HIDE DEF c
<1>10. c \o b \in Seq(Timer) /\ Range(c \o b) = Range(c) \cup Range(b) /\ Endless(c \o b) = Endless(c) + Endless(b)
  BY <1>2, <1>4, RangeConcat, EndlessConcat, ConcatAt
<1>11. DistinctTimers(c) /\ DistinctTimers(b) /\ ApartT(Range(c), Range(b)) => DistinctTimers(c \o b)
  BY <1>2, <1>4, DistinctConcatT
<1>12. ApartT(Range(s), {t}) /\ ApartT(Range(a), Range(b)) => ApartT(Range(a), {t}) /\ ApartT(Range(c), Range(b))
  BY <1>5 DEF ApartT
<1>13. Endless(a) \in Nat /\ Endless(b) \in Nat
  BY <1>2, EndlessNat
<1>14. Endless(c \o b) = Endless(s) + (IF Sleeping(t) THEN 0 ELSE 1)
  BY <1>6, <1>10, <1>13
<1>15. Range(c \o b) = Range(s) \cup {t}
  BY <1>5, <1>10
<1>16. DistinctTimers(s) /\ ApartT(Range(s), {t}) => DistinctTimers(c \o b)
  BY <1>8, <1>9, <1>11, <1>12
<1> QED BY <1>3, <1>10, <1>14, <1>15, <1>16

\* cancelTimer of a timer of size_t(-1): removeTimer erases one of them.
LEMMA RemoveTimerIs ==
  ASSUME NEW s \in Seq(Timer), HasStamp(s, Forever)
  PROVE  /\ RemoveTimer(s, Forever) \in Seq(Timer)
         /\ Range(RemoveTimer(s, Forever)) \subseteq Range(s)
         /\ \A t \in Range(s) : Sleeping(t) => t \in Range(RemoveTimer(s, Forever))
         /\ DistinctTimers(s) => DistinctTimers(RemoveTimer(s, Forever))
         /\ Endless(s) = Endless(RemoveTimer(s, Forever)) + 1
<1> DEFINE T == {i \in 1..Len(s) : s[i].stamp = Forever}
           k == Min(T)
<1>0. Len(s) \in Nat /\ Forever \in Nat
  BY IoAssumption DEF Forever
<1>1. T # {} /\ T \in SUBSET Nat
  BY <1>0 DEF HasStamp
<1>2. k \in T
  BY <1>1, LeastOf DEF Min
<1>3. RemoveTimer(s, Forever) = SubSeq(s, 1, k - 1) \o SubSeq(s, k + 1, Len(s))
  BY <1>1 DEF RemoveTimer, RemoveAt, SelectInSeq
<1> HIDE DEF k
<1>4. PICK n \in 0..Len(s) : k = n + 1
  <2>1. k - 1 \in 0..Len(s) /\ k = (k - 1) + 1
    BY <1>2, <1>0
  <2> QED BY <2>1
<1> DEFINE a == SubSeq(s, 1, n)
           d == SubSeq(s, n + 1, Len(s))
           t == s[k]
           b == SubSeq(s, k + 1, Len(s))
<1>5. a \in Seq(Timer) /\ d \in Seq(Timer) /\ s = a \o d
  BY Split
<1>6. k \in 1..Len(s) /\ t \in Timer /\ ~Sleeping(t)
  BY <1>2 DEF Sleeping
<1>7. b \in Seq(Timer) /\ d = <<t>> \o b
  <2>1. k \in 1..Len(s) /\ n \in Nat /\ k = n + 1
    BY <1>4, <1>6
  <2>2. b \in Seq(Timer) /\ Len(b) = Len(s) - k /\ \A i \in 1..(Len(s) - k) : b[i] = s[k + i]
    <3>1. b \in Seq(Timer)
      BY <1>0, <2>1
    <3>2. Len(b) = Len(s) - k
      BY <1>0, <2>1
    <3>3. \A i \in 1..(Len(s) - k) : b[i] = s[k + i]
      BY <1>0, <2>1
    <3> QED BY <3>1, <3>2, <3>3
  <2>3. Len(d) = Len(s) - n /\ \A i \in 1..(Len(s) - n) : d[i] = s[n + i]
    <3>2. Len(d) = Len(s) - n
      BY <1>0, <2>1
    <3>3. \A i \in 1..(Len(s) - n) : d[i] = s[n + i]
      BY <1>0, <2>1
    <3> QED BY <3>2, <3>3
  <2> DEFINE u == <<t>> \o b
  <2> HIDE DEF b, d, t
  <2>4. u \in Seq(Timer) /\ Len(u) = Len(b) + 1 /\ u[1] = t /\ \A i \in 1..Len(b) : u[i + 1] = b[i]
    <3>1. <<t>> \in Seq(Timer) /\ Len(<<t>>) = 1 /\ <<t>>[1] = t
      BY <1>6
    <3> DEFINE o == <<t>>
    <3>2. o \in Seq(Timer) /\ Len(o) = 1 /\ o[1] = t /\ u = o \o b /\ Len(b) \in Nat
      BY <3>1, <2>2
    <3> HIDE DEF o, u
    <3>3. /\ o \o b \in Seq(Timer) /\ Len(o \o b) = Len(o) + Len(b)
          /\ \A i \in 1..Len(o) : (o \o b)[i] = o[i]
          /\ \A i \in 1..Len(b) : (o \o b)[Len(o) + i] = b[i]
      <4>1. o \in Seq(Timer)
        BY <3>2, Zenon
      <4>2. b \in Seq(Timer)
        BY <2>2, Zenon
      <4> QED BY <4>1, <4>2, ConcatAt
    <3>4. /\ u \in Seq(Timer) /\ Len(u) = Len(o) + Len(b)
          /\ \A i \in 1..Len(o) : u[i] = o[i]
          /\ \A i \in 1..Len(b) : u[Len(o) + i] = b[i]
      BY <3>2, <3>3, Zenon
    <3>5. \A i \in 1..Len(b) : u[1 + i] = b[i] /\ 1 + i = i + 1
      BY <3>2, <3>4
    <3>6. 1 \in 1..Len(o)
      BY <3>2
    <3>7. u[1] = t
      BY <3>2, <3>4, <3>6, Zenon
    <3>8. Len(u) = Len(b) + 1
      <4>1. Len(u) = 1 + Len(b)
        BY <3>2, <3>4, Zenon
      <4> QED BY <4>1, <3>2
    <3> QED BY <3>4, <3>5, <3>7, <3>8, Zenon
  <2> HIDE DEF u
  <2>5. Len(u) = Len(d)
    BY <2>1, <2>2, <2>3, <2>4, <1>0
  <2>6. ASSUME NEW i \in 1..Len(d) PROVE u[i] = d[i]
    <3>1. CASE i = 1
      <4>1. 1 \in 1..(Len(s) - n) /\ n + 1 = k
        BY <2>1, <2>3, <1>0
      <4>2. d[1] = s[n + 1]
        BY <4>1, <2>3
      <4> QED BY <3>1, <4>1, <4>2, <2>4 DEF t
    <3>2. CASE i # 1
      <4>1. PICK j \in 1..Len(b) : i = j + 1
        <5>1. i - 1 \in 1..Len(b) /\ i = (i - 1) + 1
          BY <3>2, <2>1, <2>2, <2>3, <1>0
        <5> QED BY <5>1
      <4>2. u[i] = b[j] /\ b[j] = s[k + j] /\ d[i] = s[n + i]
        BY <4>1, <2>2, <2>3, <2>4
      <4>3. k + j = n + i
        BY <4>1, <2>1, <2>2, <1>0
      <4> QED BY <4>2, <4>3
    <3> QED BY <3>1, <3>2
  <2>7. u = d
    <3>1. u \in Seq(Timer) /\ d \in Seq(Timer) /\ Len(u) = Len(d) /\ \A i \in 1..Len(u) : u[i] = d[i]
      BY <2>4, <2>5, <2>6, <1>5
    <3> QED BY <3>1, SeqEqual
  <2> QED BY <2>2, <2>7 DEF u
<1>8. RemoveTimer(s, Forever) = a \o b
  <2>1. k - 1 = n
    BY <1>4
  <2> QED BY <2>1, <1>3
<1> HIDE DEF a, b, d, t
<1>9. <<t>> \in Seq(Timer) /\ Range(<<t>>) = {t} /\ Endless(<<t>>) = 1
  BY <1>6, RangeOne, EndlessOne
<1>10. Range(s) = Range(a) \cup Range(d) /\ Range(d) = {t} \cup Range(b)
  <2>1. Range(a \o d) = Range(a) \cup Range(d)
    BY <1>5, RangeConcat
  <2> DEFINE o == <<t>>
  <2> HIDE DEF o
  <2>2. Range(o \o b) = Range(o) \cup Range(b)
    <3>1. o \in Seq(Timer)
      BY <1>9 DEF o
    <3>2. b \in Seq(Timer)
      BY <1>7, Zenon
    <3> QED BY <3>1, <3>2, RangeConcat
  <2> USE DEF o
  <2> QED BY <2>1, <2>2, <1>5, <1>7, <1>9, Zenon
<1>11. Endless(s) = Endless(a) + Endless(d) /\ Endless(d) = 1 + Endless(b)
  BY <1>5, <1>7, <1>9, EndlessConcat
<1>12. DistinctTimers(s) => DistinctTimers(a) /\ DistinctTimers(d) /\ ApartT(Range(a), Range(d))
  BY <1>5, DistinctConcatT
<1>13. DistinctTimers(d) => DistinctTimers(b)
  BY <1>7, <1>9, DistinctConcatT
<1>14. /\ a \o b \in Seq(Timer) /\ Range(a \o b) = Range(a) \cup Range(b)
       /\ Endless(a \o b) = Endless(a) + Endless(b)
       /\ DistinctTimers(a) /\ DistinctTimers(b) /\ ApartT(Range(a), Range(b)) => DistinctTimers(a \o b)
  BY <1>5, <1>7, RangeConcat, EndlessConcat, DistinctConcatT, ConcatAt
<1>15. ApartT(Range(a), Range(d)) => ApartT(Range(a), Range(b))
  BY <1>10 DEF ApartT
<1>16. Endless(a) \in Nat /\ Endless(b) \in Nat
  BY <1>5, <1>7, EndlessNat
<1>17. Endless(s) = Endless(a \o b) + 1
  BY <1>11, <1>14, <1>16
<1>18. /\ Range(a \o b) \subseteq Range(s)
       /\ \A x \in Range(s) : Sleeping(x) => x \in Range(a \o b)
  BY <1>6, <1>10, <1>14
<1>19. DistinctTimers(s) => DistinctTimers(a \o b)
  BY <1>12, <1>13, <1>14, <1>15
<1> QED BY <1>8, <1>14, <1>17, <1>18, <1>19

\* takeExpiredTimers takes timers that are due, and leaves the others.
LEMMA TakeExpiredIs ==
  ASSUME NEW s \in Seq(Timer), NEW x \in 0..MaxTime
  PROVE  LET n == UpperBound(s, x)
             a == SubSeq(s, 1, n)
             b == SubSeq(s, n + 1, Len(s))
         IN  /\ a \in Seq(Timer) /\ b \in Seq(Timer) /\ Len(a) = n
             /\ \A t \in Range(a) : Sleeping(t) /\ t.stamp <= x
             /\ Range(s) = Range(a) \cup Range(b)
             /\ DistinctTimers(s) => DistinctTimers(a) /\ DistinctTimers(b) /\ ApartT(Range(a), Range(b))
             /\ Endless(b) = Endless(s)
<1> DEFINE n == UpperBound(s, x)
           a == SubSeq(s, 1, n)
           b == SubSeq(s, n + 1, Len(s))
<1>1. MaxTime \in Nat /\ x \in Nat /\ ~(Forever <= x)
  BY IoAssumption DEF Forever
<1>2. n \in 0..Len(s) /\ \A i \in 1..n : s[i].stamp <= x
  BY <1>1, UpperBoundIs
<1> HIDE DEF n
<1>3. a \in Seq(Timer) /\ b \in Seq(Timer) /\ Len(a) = n /\ s = a \o b /\ \A i \in 1..n : a[i] = s[i]
  BY <1>2, Split
<1> HIDE DEF a, b
<1>4. \A t \in Range(a) : Sleeping(t) /\ t.stamp <= x
  BY <1>1, <1>2, <1>3, RangeIs DEF Sleeping
<1>5. Range(s) = Range(a) \cup Range(b) /\ Endless(s) = Endless(a) + Endless(b)
  BY <1>3, RangeConcat, EndlessConcat
<1>6. DistinctTimers(s) => DistinctTimers(a) /\ DistinctTimers(b) /\ ApartT(Range(a), Range(b))
  BY <1>3, DistinctConcatT
<1>7. Endless(a) = 0 /\ Endless(b) \in Nat
  BY <1>3, <1>4, EndlessNone, EndlessNat
<1>8. Endless(b) = Endless(s)
  BY <1>5, <1>7
<1> QED BY <1>3, <1>4, <1>5, <1>6, <1>8 DEF a, b, n

-----------------------------------------------------------------------------
(* The ready list.                                                         *)

\* Entries of the ready list and their owners.
LEMMA EntryIs ==
  /\ \A c \in Coroutines \cup {None} : Resume(c) \in Entry /\ Owner(Resume(c)) = c
  /\ \A t \in Timer : Expired(t) \in Entry /\ Owner(Expired(t)) = t.owner
  /\ \A c, d : Resume(c) = Resume(d) => c = d
<1>1. \A c \in Coroutines \cup {None} : Resume(c) \in Entry /\ Owner(Resume(c)) = c
  BY DEF Resume, Entry, Owner
<1>2. ASSUME NEW t \in Timer PROVE Expired(t) \in Entry /\ Owner(Expired(t)) = t.owner
  <2>1. Expired(t) \in [run : {"timer"}, timer : Timer]
    BY DEF Expired
  <2>2. Owner(Expired(t)) = t.owner
    BY DEF Expired, Owner
  <2> QED BY <2>1, <2>2 DEF Entry
<1>3. \A c, d : Resume(c) = Resume(d) => c = d
  <2> SUFFICES ASSUME NEW c, NEW d, Resume(c) = Resume(d) PROVE c = d
    OBVIOUS
  <2>1. Resume(c).who = c /\ Resume(d).who = d
    BY DEF Resume
  <2> QED BY <2>1
<1> QED BY <1>1, <1>2, <1>3

\* A non-empty list is its front and the others.
LEMMA FrontAndRest ==
  ASSUME NEW S, NEW s \in Seq(S), s # <<>>
  PROVE  /\ Head(s) \in S /\ Tail(s) \in Seq(S) /\ <<Head(s)>> \in Seq(S)
         /\ s = <<Head(s)>> \o Tail(s)
<1> DEFINE h == Head(s)
           q == Tail(s)
<1>1. Len(s) \in Nat /\ Len(s) # 0 /\ h = s[1]
  OBVIOUS
<1>2. h \in S /\ <<h>> \in Seq(S)
  BY <1>1
<1>3. q \in Seq(S) /\ Len(q) = Len(s) - 1 /\ \A i \in 1..(Len(s) - 1) : q[i] = s[i + 1]
  BY <1>1
<1> DEFINE o == <<h>>
           u == o \o q
<1>4. o \in Seq(S) /\ Len(o) = 1 /\ o[1] = s[1]
  BY <1>1, <1>2
<1> HIDE DEF h, q, o
<1>5. /\ u \in Seq(S) /\ Len(u) = Len(o) + Len(q)
      /\ \A i \in 1..Len(o) : u[i] = o[i]
      /\ \A i \in 1..Len(q) : u[Len(o) + i] = q[i]
  <2>1. o \in Seq(S)
    BY <1>4, Zenon
  <2>2. q \in Seq(S)
    BY <1>3, Zenon
  <2> QED BY <2>1, <2>2, ConcatAt
<1> HIDE DEF u
<1>6. Len(u) = Len(s)
  BY <1>1, <1>3, <1>4, <1>5
<1>7. ASSUME NEW i \in 1..Len(u) PROVE u[i] = s[i]
  <2>1. CASE i = 1
    BY <2>1, <1>4, <1>5
  <2>2. CASE i # 1
    <3>1. PICK j \in 1..(Len(s) - 1) : i = j + 1
      <4>1. i - 1 \in 1..(Len(s) - 1) /\ i = (i - 1) + 1
        BY <2>2, <1>1, <1>6
      <4> QED BY <4>1
    <3>2. u[1 + j] = q[j] /\ 1 + j = j + 1
      BY <3>1, <1>3, <1>4, <1>5
    <3>3. q[j] = s[j + 1]
      BY <1>3
    <3> QED BY <3>1, <3>2, <3>3
  <2> QED BY <2>1, <2>2
<1>8. s = u
  BY <1>5, <1>6, <1>7, SeqEqual
<1> QED BY <1>2, <1>3, <1>4, <1>8 DEF u, o, h, q

\* ready_executors_.pop_front().
LEMMA PopIs ==
  ASSUME NEW s \in Seq(Entry), s # <<>>
  PROVE  /\ Head(s) \in Entry /\ Tail(s) \in Seq(Entry)
         /\ Range(s) = {Head(s)} \cup Range(Tail(s))
         /\ DistinctEntries(s) => DistinctEntries(Tail(s)) /\ ApartE({Head(s)}, Range(Tail(s)))
<1> DEFINE h == Head(s)
           q == Tail(s)
           o == <<h>>
<1>1. h \in Entry /\ q \in Seq(Entry) /\ o \in Seq(Entry) /\ s = o \o q
  BY FrontAndRest
<1>2. Range(o) = {h}
  BY RangeOne
<1> HIDE DEF h, q, o
<1>3. o \in Seq(Entry) /\ q \in Seq(Entry)
  BY <1>1, Zenon
<1>4. Range(o \o q) = Range(o) \cup Range(q)
  BY <1>3, RangeConcat
<1>5. DistinctEntries(o \o q) => DistinctEntries(q) /\ ApartE(Range(o), Range(q))
  BY <1>3, DistinctConcatE
<1>6. Range(s) = {h} \cup Range(q)
  BY <1>1, <1>2, <1>4, Zenon
<1>7. DistinctEntries(s) => DistinctEntries(q) /\ ApartE({h}, Range(q))
  BY <1>1, <1>2, <1>5, Zenon
<1> QED BY <1>1, <1>6, <1>7, Zenon DEF h, q

\* ready_executors_.push_back().
LEMMA PushIs ==
  ASSUME NEW s \in Seq(Entry), NEW r \in Entry
  PROVE  /\ s \o <<r>> \in Seq(Entry)
         /\ Range(s \o <<r>>) = Range(s) \cup {r}
         /\ DistinctEntries(s) /\ ApartE(Range(s), {r}) => DistinctEntries(s \o <<r>>)
<1> DEFINE o == <<r>>
<1>1. o \in Seq(Entry) /\ Range(o) = {r}
  BY RangeOne
<1>2. DistinctEntries(o)
  BY DEF DistinctEntries
<1> HIDE DEF o
<1>3. o \in Seq(Entry)
  BY <1>1, Zenon
<1>4. s \o o \in Seq(Entry)
  BY <1>3, ConcatAt
<1>5. Range(s \o o) = Range(s) \cup Range(o)
  BY <1>3, RangeConcat
<1>6. DistinctEntries(s) /\ DistinctEntries(o) /\ ApartE(Range(s), Range(o)) => DistinctEntries(s \o o)
  BY <1>3, DistinctConcatE
<1>7. Range(s \o o) = Range(s) \cup {r}
  BY <1>1, <1>5, Zenon
<1>8. DistinctEntries(s) /\ ApartE(Range(s), {r}) => DistinctEntries(s \o o)
  BY <1>1, <1>2, <1>6, Zenon
<1> QED BY <1>4, <1>7, <1>8, Zenon DEF o

\* Append as a concatenation.
LEMMA AppendIs ==
  ASSUME NEW s \in Seq(Entry), NEW r \in Entry
  PROVE  Append(s, r) = s \o <<r>>
<1> DEFINE u == Append(s, r)
           v == s \o <<r>>
<1>1. u \in Seq(Entry) /\ Len(u) = Len(s) + 1 /\ u[Len(s) + 1] = r /\ \A i \in 1..Len(s) : u[i] = s[i]
  OBVIOUS
<1>2. v \in Seq(Entry) /\ Len(v) = Len(s) + 1 /\ v[Len(s) + 1] = r /\ \A i \in 1..Len(s) : v[i] = s[i]
  <2> DEFINE o == <<r>>
  <2>1. o \in Seq(Entry) /\ Len(o) = 1 /\ o[1] = r
    OBVIOUS
  <2> HIDE DEF o
  <2>2. o \in Seq(Entry)
    BY <2>1, Zenon
  <2>3. /\ s \o o \in Seq(Entry) /\ Len(s \o o) = Len(s) + Len(o)
        /\ \A i \in 1..Len(s) : (s \o o)[i] = s[i]
        /\ \A i \in 1..Len(o) : (s \o o)[Len(s) + i] = o[i]
    BY <2>2, ConcatAt
  <2>4. 1 \in 1..Len(o)
    BY <2>1
  <2>5. Len(s \o o) = Len(s) + 1 /\ (s \o o)[Len(s) + 1] = r
    BY <2>1, <2>3, <2>4, Zenon
  <2> QED BY <2>3, <2>5, Zenon DEF o
<1>3. Len(s) \in Nat
  OBVIOUS
<1> HIDE DEF u, v
<1>4. ASSUME NEW i \in 1..Len(u) PROVE u[i] = v[i]
  <2>1. i \in 1..Len(s) \/ i = Len(s) + 1
    BY <1>1, <1>3
  <2> QED BY <2>1, <1>1, <1>2, Zenon
<1>5. u = v
  <2>1. u \in Seq(Entry) /\ v \in Seq(Entry) /\ Len(u) = Len(v)
    BY <1>1, <1>2, Zenon
  <2> QED BY <2>1, <1>4, SeqEqual
<1> QED BY <1>5 DEF u, v

\* The executors made for a list of timers.
LEMMA ExpiredAll ==
  ASSUME NEW a \in Seq(Timer), DistinctTimers(a), \A t \in Range(a) : Sleeping(t)
  PROVE  LET m == [i \in 1..Len(a) |-> Expired(a[i])]
         IN  /\ m \in Seq(Entry) /\ DistinctEntries(m)
             /\ Range(m) = {Expired(t) : t \in Range(a)}
<1> DEFINE m == [i \in 1..Len(a) |-> Expired(a[i])]
<1>1. Len(a) \in Nat /\ \A i \in 1..Len(a) : a[i] \in Timer /\ a[i] \in Range(a)
  BY RangeIs
<1>2. \A i \in 1..Len(a) : Expired(a[i]) \in Entry /\ Owner(Expired(a[i])) = a[i].owner
  BY <1>1, EntryIs
<1>3. m \in Seq(Entry) /\ Len(m) = Len(a) /\ \A i \in 1..Len(a) : m[i] = Expired(a[i])
  BY <1>1, <1>2
<1> HIDE DEF m
<1>4. DistinctEntries(m)
  <2> SUFFICES ASSUME NEW i \in 1..Len(a), NEW j \in 1..Len(a), i # j
               PROVE  Owner(m[i]) # Owner(m[j])
    BY <1>3 DEF DistinctEntries
  <2>1. a[i].owner # a[j].owner
    BY <1>1 DEF DistinctTimers
  <2> QED BY <2>1, <1>2, <1>3
<1>5. Range(m) = {Expired(t) : t \in Range(a)}
  <2>1. Range(m) = {m[i] : i \in 1..Len(m)} /\ Range(a) = {a[i] : i \in 1..Len(a)}
    BY <1>3, RangeIs
  <2>2. \A i \in 1..Len(m) : m[i] \in {Expired(t) : t \in Range(a)}
    BY <1>1, <1>3
  <2>3. \A i \in 1..Len(a) : Expired(a[i]) \in Range(m)
    BY <2>1, <1>3
  <2> QED BY <2>1, <2>2, <2>3
<1> QED BY <1>3, <1>4, <1>5 DEF m

-----------------------------------------------------------------------------
(* Orders of a finite set, and identities that are free.                   *)

\* An order in which a set is listed has each element once.
LEMMA OrdersOf ==
  ASSUME NEW A, IsFiniteSet(A), NEW s \in SetToSeqs(A)
  PROVE  /\ s \in Seq(A) /\ Range(s) = A
         /\ \A i, j \in 1..Len(s) : i # j => s[i] # s[j]
<1> DEFINE n == Cardinality(A)
           D == 1..n
<1>1. n \in Nat
  BY FS_CardinalityType
<1>2. s \in [D -> A] /\ \A i, j \in D : i # j => s[i] # s[j]
  BY DEF SetToSeqs
<1>3. IsFiniteSet(D) /\ Cardinality(D) = n
  <2> HIDE DEF n
  <2>1. 1 \in Int /\ n \in Int
    BY <1>1
  <2>2. IsFiniteSet(D) /\ Cardinality(D) = IF 1 > n THEN 0 ELSE n - 1 + 1
    BY <2>1, FS_Interval
  <2> QED BY <2>2, <1>1
<1> HIDE DEF n
<1>4. s \in Seq(A) /\ Len(s) = n
  BY <1>1, <1>2
<1> HIDE DEF D
<1>5. s \in Injection(D, A)
  BY <1>2 DEF Injection, IsInjective
<1>6. s \in Surjection(D, A)
  BY <1>3, <1>5, FS_Injection DEF n
<1>7. Range(s) = A
  BY <1>2, <1>6 DEF Surjection, Range
<1> QED BY <1>2, <1>4, <1>7 DEF D

\* A finite set leaves a number free.
LEMMA FreeNumber ==
  ASSUME NEW A, IsFiniteSet(A)
  PROVE  (CHOOSE i \in 0..Cardinality(A) : i \notin A) \in Nat
<1> DEFINE n == Cardinality(A)
           D == 0..n
<1>1. n \in Nat
  BY FS_CardinalityType
<1>2. \E i \in D : i \notin A
  <2> SUFFICES ASSUME D \subseteq A PROVE FALSE
    OBVIOUS
  <2>1. D \in SUBSET A
    OBVIOUS
  <2> HIDE DEF D
  <2>2. Cardinality(D) <= n
    BY <2>1, FS_Subset
  <2>3. Cardinality(D) = n + 1
    <3> HIDE DEF n
    <3>1. 0 \in Int /\ n \in Int /\ ~(0 > n)
      BY <1>1
    <3>2. Cardinality(0..n) = IF 0 > n THEN 0 ELSE n - 0 + 1
      BY <3>1, FS_Interval
    <3> QED BY <3>1, <3>2, <1>1 DEF D
  <2> HIDE DEF n
  <2> QED BY <2>2, <2>3, <1>1
<1> HIDE DEF n
<1>3. (CHOOSE i \in D : i \notin A) \in D
  BY <1>2
<1> QED BY <1>1, <1>3 DEF n

\* The image of an interval under a function is finite.
LEMMA ImageFinite ==
  ASSUME NEW D, IsFiniteSet(D), NEW f, f = [x \in D |-> f[x]]
  PROVE  IsFiniteSet({f[x] : x \in D})
<1> DEFINE T == {f[x] : x \in D}
<1>1. f \in Surjection(D, T)
  BY DEF Surjection
<1> QED BY <1>1, FS_Surjection

\* A fresh identity is a number.
LEMMA FreshIdNat ==
  ASSUME IoTypes, NEW c
  PROVE  FreshId(c) \in Nat
<1> DEFINE J == {j \in 1..Len(ready) : ready[j].run = "timer"}
           f == [j \in J |-> ready[j].timer]
           W == {u \in Range(timers) \cup Queued : u.owner = c}
           g == [u \in W |-> u.id]
           used == {t.id : t \in W}
<1>1. timers \in Seq(Timer) /\ ready \in Seq(Entry) /\ Len(timers) \in Int /\ Len(ready) \in Int
  BY DEF IoTypes
<1>2. IsFiniteSet(1..Len(timers)) /\ IsFiniteSet(1..Len(ready))
  BY <1>1, FS_Interval
<1>3. IsFiniteSet(Range(timers))
  <2>1. timers = [x \in 1..Len(timers) |-> timers[x]]
    BY <1>1
  <2>2. IsFiniteSet({timers[x] : x \in 1..Len(timers)})
    BY <1>2, <2>1, ImageFinite
  <2> QED BY <2>2, <1>1, RangeIs
<1>4. IsFiniteSet(Queued)
  <2>1. IsFiniteSet(J)
    BY <1>2, FS_Subset
  <2>2. f = [x \in J |-> f[x]]
    OBVIOUS
  <2>3. Queued = {f[x] : x \in J}
    BY DEF Queued
  <2> HIDE DEF f, J
  <2>4. IsFiniteSet({f[x] : x \in J})
    BY <2>1, <2>2, ImageFinite
  <2> QED BY <2>3, <2>4
<1>5. IsFiniteSet(W)
  <2>1. IsFiniteSet(Range(timers) \cup Queued)
    BY <1>3, <1>4, FS_Union
  <2> QED BY <2>1, FS_Subset
<1>6. IsFiniteSet(used)
  <2>1. g = [x \in W |-> g[x]] /\ used = {g[x] : x \in W}
    OBVIOUS
  <2> HIDE DEF g, W
  <2>2. IsFiniteSet({g[x] : x \in W})
    BY <2>1, <1>5, ImageFinite
  <2> QED BY <2>1, <2>2
<1>7. FreshId(c) = CHOOSE i \in 0..Cardinality(used) : i \notin used
  BY DEF FreshId
<1> HIDE DEF used
<1> QED BY <1>6, <1>7, FreeNumber

-----------------------------------------------------------------------------
(* Every step preserves the invariant.                                     *)

\* Time does not go back, and a connect that is over stays over.
Later == now <= now' /\ \A fd \in Fds : conn[fd] # "pending" => conn'[fd] # "pending"

\* The constants: no coroutine is None, no time is Forever.
LEMMA Apart ==
  /\ None \notin Coroutines /\ None \notin Fds /\ IsFiniteSet(Coroutines) /\ IsFiniteSet(Fds)
  /\ MaxTime \in Nat /\ MaxCalls \in Nat /\ Forever \in Nat /\ Naps \subseteq Nat
  /\ \A n \in 0..MaxTime : n \in Nat /\ n # Forever
<1>1. /\ None \notin Coroutines /\ None \notin Fds /\ MaxTime \in Nat /\ MaxCalls \in Nat
      /\ Naps \subseteq Nat /\ IsFiniteSet(Coroutines \cup Fds)
  BY IoAssumption
<1>2. IsFiniteSet(Coroutines) /\ IsFiniteSet(Fds)
  <2>1. Coroutines \in SUBSET (Coroutines \cup Fds) /\ Fds \in SUBSET (Coroutines \cup Fds)
    OBVIOUS
  <2> QED BY <1>1, <2>1, FS_Subset
<1> QED BY <1>1, <1>2 DEF Forever

\* What a coroutine waits for stays true once it has happened.
LEMMA ReturnableKept ==
  ASSUME IoTypes, IoTypes', FramesOK, Later, NEW c \in Coroutines, co'[c] = co[c], Returnable(c)
  PROVE  Returnable(c)'
<1>1. now \in Nat /\ now' \in Nat /\ co[c] \in Frame
  BY Apart DEF IoTypes
<1>2. co[c].until \in Nat
  BY <1>1 DEF Frame
<1>3. co[c].at = "connect" => co[c].fd \in Fds
  BY DEF FramesOK, Waits
<1> QED BY <1>1, <1>2, <1>3 DEF Later, Returnable

\* An entry stays right while its owner stays where it is.
LEMMA EntryKept ==
  ASSUME IoTypes, IoTypes', FramesOK, Later, NEW r \in Entry, EntryOK(r),
         Owner(r) # None => co'[Owner(r)] = co[Owner(r)]
  PROVE  EntryOK(r)'
<1>0. now \in Nat /\ now' \in Nat
  BY Apart DEF IoTypes
<1>1. CASE r \in [run : {"timer"}, timer : Timer]
  <2>1. /\ r.run = "timer" /\ r.timer \in Timer /\ r.timer.owner \in Coroutines
        /\ r.timer.stamp \in Nat /\ Owner(r) = r.timer.owner
    BY <1>1 DEF Timer, Owner
  <2>2. Owner(r) # None
    BY <2>1, Apart
  <2>3. co'[r.timer.owner] = co[r.timer.owner]
    BY <2>1, <2>2
  <2> QED BY <2>1, <2>3, <1>0 DEF EntryOK, Later
<1>2. CASE r \in [run : {"executor"}, who : Coroutines \cup {None}]
  <2>1. r.run = "executor" /\ r.who \in Coroutines \cup {None} /\ Owner(r) = r.who
    BY <1>2 DEF Owner
  <2>2. r.who # None => Returnable(r.who)
    BY <2>1 DEF EntryOK
  <2>3. r.who # None => Returnable(r.who)'
    BY <2>1, <2>2, ReturnableKept
  <2> QED BY <2>1, <2>3 DEF EntryOK
<1> QED BY <1>1, <1>2 DEF Entry

\* Steps of the peers and of the clock.
LEMMA EnvironmentStep ==
  ASSUME IoInv, UNCHANGED <<fdEvents, loop, co>>, IoTypes', KernelOK', Later
  PROVE  IoInv'
<1> USE DEF table, fdEvents, loop
<1>1. TableMatchesEpoll' /\ TableOK' /\ FramesOK' /\ ThreadOK' /\ NoTimerLeak'
  BY DEF IoInv, TableMatchesEpoll, TableOK, FramesOK, ThreadOK, NoTimerLeak, Waits
<1>2. EventsOK'
  <2>1. \A i \in 1..Len(evq) : evq[i].fd \in Fds
    <3>1. \A i \in 1..Len(evq) : evq[i] \in Event
      BY DEF IoInv, IoTypes
    <3> QED BY <3>1 DEF Event
  <2> QED BY <2>1 DEF IoInv, EventsOK, Later
<1>3. WakesOK'
  <2>1. \A r \in Range(ready) : r \in Entry
    BY RangeIs DEF IoInv, IoTypes
  <2>2. \A r \in Range(ready) : EntryOK(r)'
    BY <2>1, EntryKept DEF IoInv, WakesOK
  <2>3. \A t \in Range(timers) : TimerOK(t)'
    BY DEF IoInv, WakesOK, TimerOK
  <2> QED BY <2>2, <2>3 DEF IoInv, WakesOK
<1>4. PlacesOK'
  <2> SUFFICES ASSUME NEW c \in Coroutines PROVE PlaceOK(c)'
    BY DEF PlacesOK
  <2>1. Returnable(c) => Returnable(c)'
    BY ReturnableKept DEF IoInv
  <2>2. PlaceOK(c)
    BY DEF IoInv, PlacesOK
  <2> QED BY <2>1, <2>2 DEF PlaceOK, InTable, InReady, InTimers, Running, Done, Waits
<1> QED BY <1>1, <1>2, <1>3, <1>4 DEF IoInv

\* Steps of the loop thread between two coroutines.
LEMMA LoopTurn ==
  ASSUME IoInv, UNCHANGED <<table, kernel, timers, ready, cur, co>>,
         IoTypes', EventsOK', pc # "run", pc' # "run", pc' # "crashed"
  PROVE  IoInv'
<1> USE DEF table, fdEvents, kernel
<1>1. TableMatchesEpoll' /\ TableOK' /\ FramesOK' /\ ThreadOK' /\ NoTimerLeak' /\ KernelOK'
  BY DEF IoInv, TableMatchesEpoll, TableOK, FramesOK, ThreadOK, NoTimerLeak, Waits, KernelOK
<1>3. WakesOK'
  BY DEF IoInv, WakesOK, TimerOK, EntryOK, Returnable
<1>4. PlacesOK'
  BY DEF IoInv, PlacesOK, PlaceOK, InTable, InReady, InTimers, Running, Done, Waits, Returnable
<1> QED BY <1>1, <1>3, <1>4 DEF IoInv

\* Time passes.
LEMMA TickStep ==
  ASSUME IoInv, Tick
  PROVE  IoInv'
<1>1. IoTypes'
  BY Apart DEF IoInv, IoTypes, Tick, table, fdEvents, loop
<1>2. Later
  BY Apart DEF IoInv, IoTypes, Tick, Later
<1>3. KernelOK'
  BY DEF IoInv, KernelOK, Tick
<1> QED BY <1>1, <1>2, <1>3, EnvironmentStep DEF Tick, table

\* The kernel makes a descriptor ready.
LEMMA BecomesReadyStep ==
  ASSUME IoInv, NEW fd \in Fds, NEW ev \in Events, BecomesReady(fd, ev)
  PROVE  IoInv'
<1>1. avail' \in [Fds -> SUBSET (Events \cup {Hup})]
  BY DEF IoInv, IoTypes, BecomesReady
<1>2. IoTypes'
  BY <1>1 DEF IoInv, IoTypes, BecomesReady, table, fdEvents, loop
<1>3. Later
  BY Apart DEF IoInv, IoTypes, BecomesReady, Later
<1>4. KernelOK'
  BY DEF IoInv, IoTypes, KernelOK, BecomesReady, Events, Hup, Read, Write
<1> QED BY <1>2, <1>3, <1>4, EnvironmentStep DEF BecomesReady

\* The kernel completes a connect.
LEMMA ConnectCompletesStep ==
  ASSUME IoInv, NEW fd \in Fds, ConnectCompletes(fd)
  PROVE  IoInv'
<1>1. avail' \in [Fds -> SUBSET (Events \cup {Hup})] /\ conn' \in [Fds -> {"no", "pending", "done"}]
  BY DEF IoInv, IoTypes, ConnectCompletes, Events
<1>2. IoTypes'
  BY <1>1 DEF IoInv, IoTypes, ConnectCompletes, table, fdEvents, loop
<1>3. Later
  BY Apart DEF IoInv, IoTypes, ConnectCompletes, Later
<1>4. KernelOK'
  BY DEF IoInv, IoTypes, KernelOK, ConnectCompletes, Events, Hup, Read, Write
<1> QED BY <1>2, <1>3, <1>4, EnvironmentStep DEF ConnectCompletes

\* A peer hangs up.
LEMMA HangUpStep ==
  ASSUME IoInv, NEW fd \in Fds, HangUp(fd), HangUps \subseteq {Events}
  PROVE  IoInv'
<1>1. avail' \in [Fds -> SUBSET (Events \cup {Hup})] /\ conn' \in [Fds -> {"no", "pending", "done"}]
  BY DEF IoInv, IoTypes, HangUp, Events
<1>2. IoTypes'
  BY <1>1 DEF IoInv, IoTypes, HangUp, table, fdEvents, loop
<1>3. Later
  BY Apart DEF IoInv, IoTypes, HangUp, Later
<1>4. KernelOK'
  BY DEF IoInv, IoTypes, KernelOK, HangUp, Events, Hup, Read, Write
<1> QED BY <1>2, <1>3, <1>4, EnvironmentStep DEF HangUp

\* socket: a descriptor that was closed is open again.
LEMMA SocketStep ==
  ASSUME IoInv, NEW c \in Coroutines, Socket(c)
  PROVE  IoInv'
<1>1. open' \in SUBSET Fds /\ calls' \in [Coroutines -> 0..MaxCalls]
  BY Apart DEF IoInv, IoTypes, Socket, Calls
<1>2. IoTypes'
  BY <1>1 DEF IoInv, IoTypes, Socket, table, fdEvents, loop
<1>3. Later
  BY Apart DEF IoInv, IoTypes, Socket, Later
<1>4. KernelOK'
  BY DEF IoInv, KernelOK, Socket
<1> QED BY <1>2, <1>3, <1>4, EnvironmentStep DEF Socket, table

\* getNextInterval.
LEMMA GetNextIntervalStep ==
  ASSUME IoInv, GetNextInterval
  PROVE  IoInv'
<1>1. limit' \in Nat
  <2>1. now \in Nat /\ Forever \in Nat
    BY Apart DEF IoInv, IoTypes
  <2>2. timers # <<>> => Head(timers) \in Timer
    BY DEF IoInv, IoTypes
  <2>3. timers # <<>> => Head(timers).stamp \in Nat
    BY <2>2 DEF Timer
  <2> QED BY <2>1, <2>3 DEF GetNextInterval
<1>2. pc = "poll" /\ pc' \in {"wait", "interval"}
  BY DEF GetNextInterval
<1>3. IoTypes'
  BY <1>1, <1>2 DEF IoInv, IoTypes, GetNextInterval, table, fdEvents, kernel, Places
<1>4. EventsOK'
  BY <1>2 DEF IoInv, EventsOK, GetNextInterval, table, fdEvents, kernel
<1> QED BY <1>2, <1>3, <1>4, LoopTurn DEF GetNextInterval

\* The second clock read of blockPending.
LEMMA SecondClockReadStep ==
  ASSUME IoInv, SecondClockRead
  PROVE  IoInv'
<1>1. limit' \in Nat
  BY Apart DEF IoInv, IoTypes, SecondClockRead, Interval
<1>2. pc = "interval" /\ pc' = "wait"
  BY DEF SecondClockRead
<1>3. IoTypes'
  BY <1>1, <1>2 DEF IoInv, IoTypes, SecondClockRead, table, fdEvents, kernel, Places
<1>4. EventsOK'
  BY <1>2 DEF IoInv, EventsOK, SecondClockRead, table, fdEvents, kernel
<1> QED BY <1>2, <1>3, <1>4, LoopTurn DEF SecondClockRead

\* The round over epoll's results ends.
LEMMA EventsDoneStep ==
  ASSUME IoInv, EventsDone
  PROVE  IoInv'
<1>2. pc = "events" /\ pc' = "pop"
  BY DEF EventsDone
<1>3. IoTypes'
  BY <1>2 DEF IoInv, IoTypes, EventsDone, table, fdEvents, kernel, Places
<1>4. EventsOK'
  BY <1>2 DEF IoInv, EventsOK, EventsDone, table, fdEvents, kernel
<1> QED BY <1>2, <1>3, <1>4, LoopTurn DEF EventsDone

\* The ready list is empty, or its head is null.
LEMMA PopNothingStep ==
  ASSUME IoInv, PopNothing
  PROVE  IoInv'
<1> USE DEF table, fdEvents, kernel
<1>0. ready \in Seq(Entry) /\ pc = "pop" /\ pc' = "poll"
  BY DEF IoInv, IoTypes, PopNothing
<1>1. /\ ready' \in Seq(Entry) /\ DistinctEntries(ready') /\ Range(ready') \subseteq Range(ready)
      /\ \A r \in Range(ready) : r \in Range(ready') \/ Owner(r) = None
  <2>1. CASE ready = <<>>
    BY <2>1, <1>0 DEF IoInv, WakesOK, PopNothing
  <2>2. CASE ready # <<>>
    <3>1. ready' = Tail(ready) /\ Head(ready) = Resume(None)
      BY <2>2 DEF PopNothing
    <3>2. Owner(Resume(None)) = None
      BY EntryIs
    <3>3. /\ Tail(ready) \in Seq(Entry) /\ Range(ready) = {Head(ready)} \cup Range(Tail(ready))
          /\ DistinctEntries(ready) => DistinctEntries(Tail(ready))
      BY <2>2, <1>0, PopIs
    <3> QED BY <3>1, <3>2, <3>3 DEF IoInv, WakesOK
  <2> QED BY <2>1, <2>2
<1>2. IoTypes'
  BY <1>0, <1>1 DEF IoInv, IoTypes, PopNothing, Places
<1>3. TableMatchesEpoll' /\ TableOK' /\ FramesOK' /\ ThreadOK' /\ NoTimerLeak' /\ KernelOK'
  BY DEF IoInv, TableMatchesEpoll, TableOK, FramesOK, ThreadOK, NoTimerLeak, Waits, KernelOK, PopNothing
<1>4. EventsOK'
  BY DEF IoInv, EventsOK, PopNothing
<1>5. WakesOK'
  BY <1>1 DEF IoInv, WakesOK, TimerOK, EntryOK, Returnable, PopNothing
<1>6. ASSUME NEW c \in Coroutines PROVE PlaceOK(c)'
  <2>1. InReady(c)' <=> InReady(c)
    BY <1>1, Apart DEF InReady
  <2>2. PlaceOK(c)
    BY DEF IoInv, PlacesOK
  <2> QED BY <2>1, <2>2, <1>0 DEF PlaceOK, InTable, InTimers, Running, Done, Waits, Returnable, PopNothing
<1> QED BY <1>2, <1>3, <1>4, <1>5, <1>6 DEF IoInv, PlacesOK

\* The loop resumes a coroutine.
LEMMA PopCoroutineStep ==
  ASSUME IoInv, NEW c \in Coroutines, PopCoroutine(c)
  PROVE  IoInv'
<1> USE DEF table, fdEvents, kernel
<1>0. ready \in Seq(Entry) /\ pc = "pop" /\ ready # <<>> /\ Head(ready) = Resume(c)
  BY DEF IoInv, IoTypes, PopCoroutine
<1>1. /\ ready' \in Seq(Entry) /\ Range(ready) = {Resume(c)} \cup Range(ready')
      /\ DistinctEntries(ready') /\ ApartE({Resume(c)}, Range(ready'))
  <2>1. /\ Tail(ready) \in Seq(Entry) /\ Range(ready) = {Head(ready)} \cup Range(Tail(ready))
        /\ DistinctEntries(ready) => DistinctEntries(Tail(ready)) /\ ApartE({Head(ready)}, Range(Tail(ready)))
    BY <1>0, PopIs
  <2>2. ready' = Tail(ready)
    BY DEF PopCoroutine
  <2> QED BY <2>1, <2>2, <1>0 DEF IoInv, WakesOK
<1>2. Owner(Resume(c)) = c /\ c # None
  BY EntryIs, Apart
<1>3. InReady(c)
  BY <1>1, <1>2 DEF InReady
<1>4. PlaceOK(c)
  BY DEF IoInv, PlacesOK
<1>5. pc' = "run" /\ cur' = c
  BY <1>3, <1>4 DEF PlaceOK, Done, PopCoroutine
<1>6. Returnable(c)
  <2>1. EntryOK(Resume(c))
    BY <1>1 DEF IoInv, WakesOK
  <2> QED BY <2>1, <1>2 DEF EntryOK, Resume
<1>7. IoTypes'
  BY <1>1, <1>5 DEF IoInv, IoTypes, PopCoroutine, Places
<1>8. TableMatchesEpoll' /\ TableOK' /\ FramesOK' /\ NoTimerLeak' /\ KernelOK'
  BY DEF IoInv, TableMatchesEpoll, TableOK, FramesOK, NoTimerLeak, Waits, KernelOK, PopCoroutine
<1>9. EventsOK' /\ ThreadOK'
  BY <1>0, <1>5 DEF IoInv, EventsOK, ThreadOK, PopCoroutine
<1>10. WakesOK'
  BY <1>1 DEF IoInv, WakesOK, TimerOK, EntryOK, Returnable, PopCoroutine
<1>11. ASSUME NEW d \in Coroutines PROVE PlaceOK(d)'
  <2>1. CASE d = c
    <3>1. ~InReady(c)'
      BY <1>1, <1>2 DEF InReady, ApartE
    <3>2. ~InTable(c)' /\ ~InTimers(c)' /\ ~Done(c)' /\ Returnable(c)'
      BY <1>3, <1>4, <1>6 DEF PlaceOK, InTable, InTimers, Done, Waits, Returnable, PopCoroutine
    <3>3. Running(c)'
      BY <1>5 DEF Running
    <3> QED BY <2>1, <3>1, <3>2, <3>3 DEF PlaceOK
  <2>2. CASE d # c
    <3>1. InReady(d)' <=> InReady(d)
      BY <1>1, <1>2, <2>2 DEF InReady
    <3>2. PlaceOK(d)
      BY DEF IoInv, PlacesOK
    <3>3. ~Running(d) /\ ~Running(d)'
      BY <1>0, <1>5, <2>2 DEF Running
    <3> QED BY <3>1, <3>2, <3>3 DEF PlaceOK, InTable, InTimers, Done, Waits, Returnable, PopCoroutine
  <2> QED BY <2>1, <2>2
<1> QED BY <1>7, <1>8, <1>9, <1>10, <1>11 DEF IoInv, PlacesOK

\* The callback of a sleep: with Timeout = 0 no other timer expires.
LEMMA RunTimerStep ==
  ASSUME IoInv, RunTimer
  PROVE  IoInv'
<1> USE DEF table, fdEvents, kernel
<1> DEFINE h == Head(ready)
           t == h.timer
<1>0. ready \in Seq(Entry) /\ pc = "pop" /\ ready # <<>> /\ h.run = "timer"
  BY DEF IoInv, IoTypes, RunTimer
<1>1. /\ h \in Entry /\ Tail(ready) \in Seq(Entry) /\ Range(ready) = {h} \cup Range(Tail(ready))
      /\ DistinctEntries(Tail(ready)) /\ ApartE({h}, Range(Tail(ready)))
  BY <1>0, PopIs DEF IoInv, WakesOK
<1>2. PICK c \in Coroutines : t \in Timer /\ t.owner = c /\ Owner(h) = c
  <2>1. t \in Timer
    BY <1>0, <1>1 DEF Entry
  <2>2. t.owner \in Coroutines /\ Owner(h) = t.owner
    BY <2>1, <1>0 DEF Timer, Owner
  <2> QED BY <2>1, <2>2
<1>3. co[c].at = "sleep" /\ co[c].until = t.stamp /\ t.stamp <= now
  BY <1>0, <1>1, <1>2 DEF IoInv, WakesOK, EntryOK
<1>4. /\ ready' = Append(Tail(ready), Resume(c))
      /\ UNCHANGED <<table, co, kernel, timers, limit, pc, cur, evq, calls>>
  BY <1>2, <1>3 DEF RunTimer
<1> HIDE DEF h
<1>5. Resume(c) \in Entry /\ Owner(Resume(c)) = c /\ c # None
  BY <1>2, EntryIs, Apart
<1>6. ApartE(Range(Tail(ready)), {Resume(c)})
  BY <1>1, <1>2, <1>5 DEF ApartE
<1>7. /\ ready' \in Seq(Entry) /\ Range(ready') = Range(Tail(ready)) \cup {Resume(c)}
      /\ DistinctEntries(ready')
  <2> DEFINE q == Tail(ready)
             r == Resume(c)
  <2>1. q \in Seq(Entry) /\ r \in Entry /\ ready' = Append(q, r) /\ DistinctEntries(q) /\ ApartE(Range(q), {r})
    BY <1>1, <1>4, <1>5, <1>6
  <2> HIDE DEF q, r
  <2>2. ready' = q \o <<r>>
    BY <2>1, AppendIs
  <2>3. /\ q \o <<r>> \in Seq(Entry) /\ Range(q \o <<r>>) = Range(q) \cup {r}
        /\ DistinctEntries(q \o <<r>>)
    BY <2>1, PushIs
  <2> QED BY <2>2, <2>3, Zenon DEF q, r
<1>8. IoTypes'
  BY <1>4, <1>7 DEF IoInv, IoTypes
<1>9. TableMatchesEpoll' /\ TableOK' /\ FramesOK' /\ NoTimerLeak' /\ KernelOK' /\ EventsOK' /\ ThreadOK'
  BY <1>4 DEF IoInv, TableMatchesEpoll, TableOK, FramesOK, NoTimerLeak, Waits, KernelOK, EventsOK, ThreadOK
<1>10. EntryOK(Resume(c))'
  BY <1>3, <1>4 DEF EntryOK, Resume, Returnable
<1>11. \A r \in Range(Tail(ready)) : EntryOK(r)'
  BY <1>1, <1>4 DEF IoInv, WakesOK, EntryOK, Returnable
<1>12. WakesOK'
  BY <1>4, <1>7, <1>10, <1>11 DEF IoInv, WakesOK, TimerOK
<1>13. ASSUME NEW d \in Coroutines PROVE PlaceOK(d)'
  <2>1. InReady(d)' <=> InReady(d)
    BY <1>1, <1>2, <1>5, <1>7 DEF InReady
  <2>2. PlaceOK(d)
    BY DEF IoInv, PlacesOK
  <2> QED BY <2>1, <2>2, <1>4 DEF PlaceOK, InTable, InTimers, Running, Done, Waits, Returnable
<1> QED BY <1>8, <1>9, <1>12, <1>13 DEF IoInv, PlacesOK

\* Nothing will resume the coroutine that is running.
LEMMA Alone ==
  ASSUME IoInv, NEW c \in Coroutines, Running(c)
  PROVE  /\ ~InTable(c) /\ ~InReady(c) /\ ~InTimers(c) /\ ~Done(c) /\ Returnable(c)
         /\ \A fd \in Fds, e \in Events : exec[fd][e] # c
         /\ \A r \in Range(ready) : Owner(r) # c
         /\ \A t \in Range(timers) : Sleeping(t) => t.owner # c
         /\ evq = <<>> /\ pc = "run" /\ cur = c
<1>1. PlaceOK(c)
  BY DEF IoInv, PlacesOK
<1>2. ~InTable(c) /\ ~InReady(c) /\ ~InTimers(c) /\ ~Done(c) /\ Returnable(c)
  BY <1>1 DEF PlaceOK
<1>3. pc = "run" /\ cur = c /\ evq = <<>>
  BY DEF Running, IoInv, EventsOK
<1>4. \A fd \in Fds, e \in Events : exec[fd][e] # c
  BY <1>2, Apart DEF IoInv, TableOK, InTable
<1> QED BY <1>2, <1>3, <1>4 DEF InReady, InTimers

\* A step of the coroutine that is running.
LEMMA OwnStep ==
  ASSUME IoInv, NEW c \in Coroutines, Running(c),
         IoTypes', KernelOK', TableMatchesEpoll', TableOK', FramesOK', NoTimerLeak',
         UNCHANGED <<now, ready, cur, evq>>, pc' \in {"run", "pop"},
         \A d \in Coroutines \ {c} :
           co'[d] = co[d] /\ (InTable(d)' <=> InTable(d)) /\ (Returnable(d) => Returnable(d)'),
         DistinctTimers(timers'),
         \A t \in Range(timers) : Sleeping(t) => t \in Range(timers'),
         \A t \in Range(timers') : Sleeping(t) => t \in Range(timers) \/ (t.owner = c /\ TimerOK(t)'),
         PlaceOK(c)'
  PROVE  IoInv'
<1>1. /\ \A r \in Range(ready) : Owner(r) # c /\ r \in Entry
      /\ \A t \in Range(timers) : t \in Timer /\ (Sleeping(t) => t.owner # c)
      /\ evq = <<>> /\ pc = "run" /\ cur = c
  BY Alone, RangeIs DEF IoInv, IoTypes
<1>2. EventsOK' /\ ThreadOK'
  BY <1>1 DEF EventsOK, ThreadOK
<1>3. ASSUME NEW r \in Range(ready) PROVE EntryOK(r)'
  <2>1. EntryOK(r) /\ r \in Entry /\ Owner(r) # c
    BY <1>1 DEF IoInv, WakesOK
  <2>2. CASE r.run = "timer"
    <3>1. r.timer \in Timer /\ Owner(r) = r.timer.owner
      BY <2>1, <2>2 DEF Entry, Owner
    <3>2. r.timer.owner \in Coroutines \ {c}
      BY <3>1, <2>1 DEF Timer
    <3> QED BY <3>2, <2>1, <2>2 DEF EntryOK
  <2>3. CASE r.run # "timer"
    <3>1. Owner(r) = r.who /\ r.who \in Coroutines \cup {None}
      BY <2>1, <2>3 DEF Entry, Owner
    <3>2. r.who # None => r.who \in Coroutines \ {c}
      BY <3>1, <2>1
    <3> QED BY <3>2, <2>1, <2>3 DEF EntryOK
  <2> QED BY <2>2, <2>3
<1>4. ASSUME NEW t \in Range(timers') PROVE TimerOK(t)'
  <2>1. CASE Sleeping(t) /\ t \in Range(timers)
    <3>1. t \in Timer /\ t.owner # c /\ TimerOK(t)
      BY <2>1, <1>1 DEF IoInv, WakesOK
    <3>2. t.owner \in Coroutines \ {c}
      BY <3>1 DEF Timer
    <3> QED BY <3>1, <3>2 DEF TimerOK
  <2>2. CASE ~Sleeping(t)
    BY <2>2 DEF TimerOK
  <2> QED BY <2>1, <2>2
<1>5. WakesOK'
  BY <1>3, <1>4 DEF IoInv, WakesOK
<1>6. ASSUME NEW d \in Coroutines, d # c PROVE PlaceOK(d)'
  <2>1. PlaceOK(d)
    BY DEF IoInv, PlacesOK
  <2>2. InReady(d)' <=> InReady(d)
    BY DEF InReady
  <2>3. InTimers(d)' <=> InTimers(d)
    BY <1>6 DEF InTimers
  <2>4. ~Running(d) /\ ~Running(d)' /\ (Done(d)' <=> Done(d))
    BY <1>1, <1>6 DEF Running, Done
  <2>5. (InTable(d)' <=> InTable(d))
    BY <1>6
  <2> QED BY <2>1, <2>2, <2>3, <2>4, <2>5 DEF PlaceOK
<1>7. PlacesOK'
  BY <1>6 DEF PlacesOK
<1> QED BY <1>2, <1>5, <1>7 DEF IoInv

\* What such a step leaves of the table, the frames and the count of timers.
LEMMA TableAfter ==
  ASSUME IoInv, NEW c \in Coroutines, Running(c), UNCHANGED <<reg, exec>>,
         \A d \in Coroutines \ {c} : co'[d] = co[d]
  PROVE  /\ TableOK'
         /\ \A d \in Coroutines \ {c} : InTable(d)' <=> InTable(d)
<1>1. \A fd \in Fds, e \in Events : exec[fd][e] # c
  BY Alone
<1>2. ASSUME NEW fd \in Fds, NEW e \in Events, e \in reg[fd]
      PROVE  exec[fd][e] \in Coroutines \ {c} /\ co'[exec[fd][e]] = co[exec[fd][e]]
  BY <1>1, <1>2 DEF IoInv, TableOK
<1>3. TableOK'
  BY <1>2 DEF IoInv, TableOK, Waits
<1>4. \A d \in Coroutines \ {c} : InTable(d)' <=> InTable(d)
  BY DEF InTable, Waits
<1> QED BY <1>3, <1>4

\* The other coroutines keep their frames when one is outside ioInner.
LEMMA FramesAfter ==
  ASSUME IoInv, NEW c \in Coroutines, \A d \in Coroutines \ {c} : co'[d] = co[d],
         co'[c].at \in {"user", "sleep", "done"}
  PROVE  FramesOK'
<1>1. /\ \A d \in Coroutines : Waits(d)' => d # c /\ Waits(d) /\ co'[d] = co[d]
      /\ \A d \in Coroutines : co'[d].at \in {"io", "connect"} => d # c /\ co'[d] = co[d]
  BY DEF Waits
<1> QED BY <1>1 DEF IoInv, FramesOK, Waits

\* No timer leaks when neither the timers nor the coroutines in ioInner change.
LEMMA LeakAfter ==
  ASSUME NoTimerLeak, Endless(timers') = Endless(timers),
         \A d \in Coroutines : co'[d].at = "io" <=> co[d].at = "io"
  PROVE  NoTimerLeak'
<1>1. {d \in Coroutines : co'[d].at = "io"} = {d \in Coroutines : co[d].at = "io"}
  OBVIOUS
<1> QED BY <1>1 DEF NoTimerLeak, Endless

\* A coroutine that may return still may when nothing it waits for changed.
LEMMA ReturnableAfter ==
  ASSUME UNCHANGED <<conn, now>>, NEW d, co'[d] = co[d], Returnable(d)
  PROVE  Returnable(d)'
  BY DEF Returnable

\* The end of a call that has no timer left.
LEMMA BackInUser ==
  ASSUME IoInv, NEW c \in Coroutines, Running(c), co[c].at # "io", co' = [co EXCEPT ![c] = InUser],
         UNCHANGED <<table, open, conn, now, loop>>, calls' \in [Coroutines -> 0..MaxCalls],
         avail' \in [Fds -> SUBSET (Events \cup {Hup})], KernelOK'
  PROVE  IoInv'
<1> USE DEF table, fdEvents, loop
<1>1. /\ co \in [Coroutines -> Frame] /\ InUser \in Frame
  BY DEF IoInv, IoTypes, InUser, Frame, Events
<1>2. /\ co' \in [Coroutines -> Frame] /\ co'[c] = InUser /\ InUser.at = "user"
      /\ \A d \in Coroutines \ {c} : co'[d] = co[d]
  BY <1>1 DEF InUser
<1>3. IoTypes'
  BY <1>2 DEF IoInv, IoTypes
<1>4. TableOK' /\ \A d \in Coroutines \ {c} : InTable(d)' <=> InTable(d)
  BY <1>2, TableAfter
<1>5. FramesOK'
  BY <1>2, FramesAfter
<1>6. NoTimerLeak'
  BY <1>2, LeakAfter DEF IoInv
<1>7. TableMatchesEpoll'
  BY DEF IoInv, TableMatchesEpoll
<1>8. PlaceOK(c)'
  <2>1. ~InReady(c)' /\ ~InTimers(c)'
    BY Alone DEF InReady, InTimers
  <2>2. Running(c)'
    BY DEF Running
  <2>3. ~InTable(c)' /\ ~Done(c)' /\ Returnable(c)'
    BY <1>2 DEF InTable, Waits, Done, Returnable
  <2> QED BY <2>1, <2>2, <2>3 DEF PlaceOK
<1>9. \A d \in Coroutines \ {c} : Returnable(d) => Returnable(d)'
  BY <1>2, ReturnableAfter
<1>10. DistinctTimers(timers') /\ pc' = "run"
  BY DEF IoInv, WakesOK, Running
<1> QED BY <1>2, <1>3, <1>4, <1>5, <1>6, <1>7, <1>8, <1>9, <1>10, OwnStep

\* sleepInner returns.
LEMMA SleepReturnsStep ==
  ASSUME IoInv, NEW c \in Coroutines, SleepReturns(c)
  PROVE  IoInv'
<1>1. Running(c) /\ co[c].at # "io" /\ co' = [co EXCEPT ![c] = InUser]
  BY DEF SleepReturns, InCall, Running
<1>2. UNCHANGED <<table, kernel, loop, calls>>
  BY DEF SleepReturns
<1>3. /\ avail' \in [Fds -> SUBSET (Events \cup {Hup})] /\ KernelOK'
      /\ calls' \in [Coroutines -> 0..MaxCalls]
  BY <1>2 DEF IoInv, IoTypes, KernelOK, kernel
<1> QED BY <1>1, <1>2, <1>3, BackInUser DEF kernel

\* co_connect returns.
LEMMA ConnectReturnsStep ==
  ASSUME IoInv, NEW c \in Coroutines, ConnectReturns(c)
  PROVE  IoInv'
<1>1. Running(c) /\ co[c].at # "io" /\ co' = [co EXCEPT ![c] = InUser]
  BY DEF ConnectReturns, InCall, Running
<1>2. UNCHANGED <<table, kernel, loop, calls>>
  BY DEF ConnectReturns
<1>3. /\ avail' \in [Fds -> SUBSET (Events \cup {Hup})] /\ KernelOK'
      /\ calls' \in [Coroutines -> 0..MaxCalls]
  BY <1>2 DEF IoInv, IoTypes, KernelOK, kernel
<1> QED BY <1>1, <1>2, <1>3, BackInUser DEF kernel

\* A coroutine ends.
LEMMA FinishStep ==
  ASSUME IoInv, NEW c \in Coroutines, Finish(c)
  PROVE  IoInv'
<1> USE DEF table, fdEvents, kernel
<1>0. Running(c) /\ pc' = "pop" /\ co[c].at = "user"
  BY DEF Finish, InCall, Running
<1>1. co \in [Coroutines -> Frame] /\ co[c] \in Frame
  BY DEF IoInv, IoTypes
<1>2. /\ co' \in [Coroutines -> Frame] /\ co'[c].at = "done"
      /\ \A d \in Coroutines \ {c} : co'[d] = co[d]
  <2>1. [co[c] EXCEPT !.at = "done"] \in Frame /\ [co[c] EXCEPT !.at = "done"].at = "done"
    BY <1>1 DEF Frame
  <2>2. co' = [co EXCEPT ![c] = [co[c] EXCEPT !.at = "done"]]
    BY <1>1 DEF Finish
  <2> QED BY <1>1, <2>1, <2>2
<1>3. IoTypes'
  BY <1>0, <1>2 DEF IoInv, IoTypes, Finish, Places
<1>4. TableOK' /\ \A d \in Coroutines \ {c} : InTable(d)' <=> InTable(d)
  BY <1>0, <1>2, TableAfter DEF Finish
<1>5. FramesOK'
  BY <1>2, FramesAfter
<1>6. NoTimerLeak'
  BY <1>0, <1>2, LeakAfter DEF IoInv, Finish
<1>7. TableMatchesEpoll' /\ KernelOK'
  BY DEF IoInv, TableMatchesEpoll, KernelOK, Finish
<1>8. PlaceOK(c)'
  <2>1. ~InReady(c)' /\ ~InTimers(c)'
    BY <1>0, Alone DEF InReady, InTimers, Finish
  <2>2. ~Running(c)' /\ Done(c)' /\ ~InTable(c)'
    BY <1>0, <1>2 DEF Running, Done, InTable, Waits
  <2> QED BY <2>1, <2>2 DEF PlaceOK
<1>9. \A d \in Coroutines \ {c} : Returnable(d) => Returnable(d)'
  BY <1>2, ReturnableAfter DEF Finish
<1>10. DistinctTimers(timers')
  BY DEF IoInv, WakesOK, Finish
<1>11. UNCHANGED <<now, ready, cur, evq, timers>>
  BY DEF Finish
<1> QED BY <1>0, <1>2, <1>3, <1>4, <1>5, <1>6, <1>7, <1>8, <1>9, <1>10, <1>11, OwnStep

\* co_close of a descriptor nobody waits on.
LEMMA CloseStep ==
  ASSUME IoInv, CloseBusy = FALSE, NEW c \in Coroutines, Close(c)
  PROVE  IoInv'
<1> USE DEF table, fdEvents
<1>0. Running(c) /\ co[c].at = "user" /\ calls[c] < MaxCalls
  BY DEF Close, Calls, InCall, Running
<1>1. PICK fd \in open :
        /\ \A ev \in Events : Usable(fd, ev)
        /\ IF RemoveOk(fd, Events)
           THEN /\ exec' = [exec EXCEPT ![fd] = [e \in Events |-> IF e \in reg[fd] THEN None ELSE @[e]]]
                /\ ep' = [ep EXCEPT ![fd] = Absent]
                /\ open' = open \ {fd}
                /\ avail' = [avail EXCEPT ![fd] = {}]
                /\ conn' = [conn EXCEPT ![fd] = "no"]
                /\ UNCHANGED <<reg, pc>>
           ELSE pc' = "crashed" /\ UNCHANGED <<table, open, avail, conn>>
  BY DEF Close, Watch
<1>2. UNCHANGED <<now, timers, limit, ready, cur, evq, co>> /\ calls' = [calls EXCEPT ![c] = @ + 1]
  BY DEF Close
<1>3. fd \in Fds /\ reg[fd] = {}
  <2>1. fd \in Fds /\ reg[fd] \subseteq Events
    BY DEF IoInv, IoTypes
  <2>2. ASSUME NEW e \in Events, e \in reg[fd] PROVE FALSE
    <3>1. exec[fd][e] \in Coroutines /\ Waits(exec[fd][e]) /\ co[exec[fd][e]].fd = fd /\ co[exec[fd][e]].ev = e
      BY <2>1, <2>2 DEF IoInv, TableOK
    <3> QED BY <3>1, <1>1 DEF Usable, Waits
  <2> QED BY <2>1, <2>2
<1>4. RemoveOk(fd, Events)
  BY <1>3 DEF RemoveOk, Removes
<1>5. exec' = exec /\ reg' = reg /\ pc' = pc /\ ep' = ep
  <2>1. exec \in [Fds -> [Events -> Coroutines \cup {None}]] /\ ep \in [Fds -> (SUBSET Events) \cup {Absent}]
    BY DEF IoInv, IoTypes
  <2>2. exec' = [exec EXCEPT ![fd] = [e \in Events |-> exec[fd][e]]]
    BY <1>1, <1>3, <1>4, <2>1
  <2>3. exec[fd] = [e \in Events |-> exec[fd][e]]
    BY <1>3, <2>1
  <2>4. exec' = exec
    BY <2>1, <2>2, <2>3, <1>3
  <2>5. ep[fd] = Absent
    BY <1>3 DEF IoInv, TableMatchesEpoll
  <2>6. ep' = ep
    BY <1>1, <1>3, <1>4, <2>1, <2>5
  <2> QED BY <2>4, <2>6, <1>1, <1>4
<1>6. /\ open' \in SUBSET Fds /\ avail' \in [Fds -> SUBSET (Events \cup {Hup})]
      /\ conn' \in [Fds -> {"no", "pending", "done"}]
      /\ calls' \in [Coroutines -> 0..MaxCalls]
  <2>1. open' \in SUBSET Fds
    BY <1>1, <1>4 DEF IoInv, IoTypes
  <2>2. avail' \in [Fds -> SUBSET (Events \cup {Hup})]
    BY <1>1, <1>3, <1>4 DEF IoInv, IoTypes
  <2>3. conn' \in [Fds -> {"no", "pending", "done"}]
    BY <1>1, <1>3, <1>4 DEF IoInv, IoTypes
  <2>4. calls' \in [Coroutines -> 0..MaxCalls]
    BY <1>0, <1>2, Apart DEF IoInv, IoTypes
  <2> QED BY <2>1, <2>2, <2>3, <2>4
<1>7. IoTypes'
  BY <1>2, <1>5, <1>6 DEF IoInv, IoTypes
<1>8. KernelOK'
  BY <1>1, <1>3, <1>4 DEF IoInv, IoTypes, KernelOK
<1>9. Later
  BY <1>1, <1>2, <1>3, <1>4, Apart DEF IoInv, IoTypes, Later
<1> QED BY <1>2, <1>5, <1>7, <1>8, <1>9, EnvironmentStep DEF loop

\* sleepInner: the coroutine is handed to the timers.
LEMMA SleepInnerStep ==
  ASSUME IoInv, NEW c \in Coroutines, SleepInner(c)
  PROVE  IoInv'
<1> USE DEF table, fdEvents, kernel
<1>0. Running(c) /\ co[c].at = "user" /\ calls[c] < MaxCalls /\ pc' = "pop"
  BY DEF SleepInner, Calls, InCall, Running
<1>1. PICK ms \in {n \in Naps : InTime(n)} :
        /\ timers' = AddTimer(timers, NewTimer(c, now + ms))
        /\ co' = [co EXCEPT ![c] = [InUser EXCEPT !.at = "sleep",
                   !.until = NewTimer(c, now + ms).stamp, !.id = NewTimer(c, now + ms).id]]
  BY DEF SleepInner
<1>2. UNCHANGED <<table, kernel, limit, ready, cur, evq>> /\ calls' = [calls EXCEPT ![c] = @ + 1]
  BY DEF SleepInner
<1>3. now + ms \in 0..MaxTime
  BY Apart DEF IoInv, IoTypes, InTime
<1>4. PICK t \in Timer : t = NewTimer(c, now + ms) /\ t.owner = c /\ Sleeping(t)
  <2>1. FreshId(c) \in Nat
    BY FreshIdNat DEF IoInv
  <2>2. NewTimer(c, now + ms) \in Timer
    BY <2>1, <1>3, Apart DEF NewTimer, Timer
  <2>3. NewTimer(c, now + ms).owner = c /\ Sleeping(NewTimer(c, now + ms))
    BY <1>3, Apart DEF NewTimer, Sleeping
  <2> QED BY <2>2, <2>3
<1>5. timers' = AddTimer(timers, t)
  BY <1>1, <1>4
<1>6. PICK f \in Frame : co' = [co EXCEPT ![c] = f] /\ f.at = "sleep" /\ f.until = t.stamp
  <2> DEFINE f == [InUser EXCEPT !.at = "sleep", !.until = t.stamp, !.id = t.id]
  <2>1. t.stamp \in Nat /\ t.id \in Nat
    BY DEF Timer
  <2>2. f \in Frame /\ f.at = "sleep" /\ f.until = t.stamp
    BY <2>1 DEF InUser, Frame, Events
  <2>3. co' = [co EXCEPT ![c] = f]
    BY <1>1, <1>4
  <2> QED BY <2>2, <2>3
<1>7. co' \in [Coroutines -> Frame] /\ co'[c] = f /\ \A d \in Coroutines \ {c} : co'[d] = co[d]
  BY <1>6 DEF IoInv, IoTypes
<1>8. timers \in Seq(Timer) /\ DistinctTimers(timers) /\ ApartT(Range(timers), {t})
  <2>1. \A u \in Range(timers) : Sleeping(u) => u.owner # c
    BY <1>0, Alone
  <2> QED BY <2>1, <1>4 DEF IoInv, IoTypes, WakesOK, ApartT
<1>9. /\ timers' \in Seq(Timer) /\ Range(timers') = Range(timers) \cup {t} /\ DistinctTimers(timers')
      /\ Endless(timers') = Endless(timers) + 0
  BY <1>4, <1>5, <1>8, AddTimerIs
<1>10. Endless(timers') = Endless(timers)
  <2>1. Endless(timers) \in Nat
    BY <1>8, EndlessNat
  <2> QED BY <1>9, <2>1
<1>11. calls' \in [Coroutines -> 0..MaxCalls]
  BY <1>0, <1>2, Apart DEF IoInv, IoTypes
<1>12. IoTypes'
  BY <1>0, <1>2, <1>7, <1>9, <1>11 DEF IoInv, IoTypes, Places
<1>13. TableOK' /\ \A d \in Coroutines \ {c} : InTable(d)' <=> InTable(d)
  BY <1>0, <1>2, <1>7, TableAfter
<1>14. FramesOK'
  BY <1>6, <1>7, FramesAfter
<1>15. NoTimerLeak'
  BY <1>0, <1>6, <1>7, <1>10, LeakAfter DEF IoInv
<1>16. TableMatchesEpoll' /\ KernelOK'
  BY <1>2 DEF IoInv, TableMatchesEpoll, KernelOK
<1>17. PlaceOK(c)'
  <2>1. ~InReady(c)'
    BY <1>0, <1>2, Alone DEF InReady
  <2>2. ~Running(c)' /\ ~InTable(c)'
    BY <1>0, <1>6, <1>7 DEF Running, InTable, Waits
  <2>3. InTimers(c)'
    BY <1>4, <1>9 DEF InTimers
  <2> QED BY <2>1, <2>2, <2>3 DEF PlaceOK
<1>18. \A d \in Coroutines \ {c} : Returnable(d) => Returnable(d)'
  BY <1>2, <1>7, ReturnableAfter
<1>19. TimerOK(t)'
  BY <1>4, <1>6, <1>7 DEF TimerOK
<1>20. /\ \A u \in Range(timers) : Sleeping(u) => u \in Range(timers')
       /\ \A u \in Range(timers') : Sleeping(u) => u \in Range(timers) \/ (u.owner = c /\ TimerOK(u)')
  BY <1>4, <1>9, <1>19
<1> QED BY <1>0, <1>2, <1>7, <1>9, <1>12, <1>13, <1>14, <1>15, <1>16, <1>17, <1>18, <1>20, OwnStep

\* Nobody else waits for ev on fd.
Free(c, fd, ev) == \A d \in Coroutines \ {c} : Waits(d) => co[d].fd # fd \/ co[d].ev # ev

\* registerEvent: epoll_ctl succeeds, and the coroutine is in the table.
LEMMA RegisterIs ==
  ASSUME IoInv, NEW c \in Coroutines, Running(c), NEW fd \in open, NEW ev \in Events, Free(c, fd, ev),
         RegisterEvent(fd, ev, c), NEW f \in Frame, co' = [co EXCEPT ![c] = f],
         f.at \in {"io", "connect"}, f.fd = fd, f.ev = ev,
         f.at = "connect" => f.ev = Write, f.at = "io" => f.until = Forever /\ ~f.flag
  PROVE  /\ pc' = "pop" /\ reg' \in [Fds -> SUBSET Events]
         /\ exec' \in [Fds -> [Events -> Coroutines \cup {None}]]
         /\ ep' \in [Fds -> (SUBSET Events) \cup {Absent}] /\ co' \in [Coroutines -> Frame]
         /\ TableMatchesEpoll' /\ TableOK' /\ FramesOK' /\ InTable(c)'
         /\ \A d \in Coroutines \ {c} : co'[d] = co[d] /\ (InTable(d)' <=> InTable(d))
<1>0. /\ fd \in Fds /\ reg \in [Fds -> SUBSET Events] /\ exec \in [Fds -> [Events -> Coroutines \cup {None}]]
      /\ ep \in [Fds -> (SUBSET Events) \cup {Absent}] /\ co \in [Coroutines -> Frame]
  BY DEF IoInv, IoTypes
<1>1. (reg[fd] = {}) = (ep[fd] = Absent)
  <2>1. reg[fd] # Absent
    BY <1>0 DEF Absent, Events, Read, Write
  <2> QED BY <1>0, <2>1 DEF IoInv, TableMatchesEpoll
<1>2. /\ exec' = [exec EXCEPT ![fd][ev] = c] /\ reg' = [reg EXCEPT ![fd] = reg[fd] \cup {ev}]
      /\ ep' = [ep EXCEPT ![fd] = reg[fd] \cup {ev}] /\ pc' = "pop"
  BY <1>1 DEF RegisterEvent, Watch
<1>3. reg' \in [Fds -> SUBSET Events] /\ ep' \in [Fds -> (SUBSET Events) \cup {Absent}]
  BY <1>0, <1>2
<1>4. exec' \in [Fds -> [Events -> Coroutines \cup {None}]]
  BY <1>0, <1>2
<1>5. co' \in [Coroutines -> Frame] /\ co'[c] = f /\ \A d \in Coroutines \ {c} : co'[d] = co[d]
  BY <1>0
<1>6. TableMatchesEpoll'
  BY <1>0, <1>2 DEF IoInv, TableMatchesEpoll
<1>7. \A g \in Fds, e \in Events : exec[g][e] # c
  BY Alone
<1>8. ASSUME NEW g \in Fds, NEW e \in Events
      PROVE  IF e \in reg'[g]
             THEN exec'[g][e] \in Coroutines /\ co'[exec'[g][e]].at \in {"io", "connect"}
                    /\ co'[exec'[g][e]].fd = g /\ co'[exec'[g][e]].ev = e
             ELSE exec'[g][e] = None
  <2>1. CASE g = fd /\ e = ev
    <3>1. exec'[g][e] = c /\ e \in reg'[g]
      BY <2>1, <1>0, <1>2
    <3> QED BY <2>1, <3>1, <1>5 DEF Waits
  <2>2. CASE ~(g = fd /\ e = ev)
    <3>1. exec'[g][e] = exec[g][e] /\ (e \in reg'[g] <=> e \in reg[g])
      BY <2>2, <1>0, <1>2
    <3>2. IF e \in reg[g]
          THEN exec[g][e] \in Coroutines /\ Waits(exec[g][e]) /\ co[exec[g][e]].fd = g /\ co[exec[g][e]].ev = e
          ELSE exec[g][e] = None
      BY DEF IoInv, TableOK
    <3>3. e \in reg[g] => co'[exec[g][e]] = co[exec[g][e]]
      BY <3>2, <1>5, <1>7
    <3> QED BY <3>1, <3>2, <3>3 DEF Waits
  <2> QED BY <2>1, <2>2
<1>9. TableOK'
  BY <1>8 DEF TableOK, Waits
<1>10. FramesOK'
  <2>1. ASSUME NEW d \in Coroutines
        PROVE  /\ Waits(d)' => co'[d].fd \in Fds
               /\ co'[d].at = "connect" => co'[d].ev = Write
               /\ co'[d].at = "io" => co'[d].until = Forever /\ ~co'[d].flag
    <3>1. CASE d = c
      BY <3>1, <1>0, <1>5 DEF Waits
    <3>2. CASE d # c
      BY <3>2, <1>5 DEF IoInv, FramesOK, Waits
    <3> QED BY <3>1, <3>2
  <2>2. ASSUME NEW d \in Coroutines, NEW b \in Coroutines, Waits(d)', Waits(b)',
               co'[d].fd = co'[b].fd, co'[d].ev = co'[b].ev
        PROVE  d = b
    <3>1. CASE d # c /\ b # c
      BY <3>1, <2>2, <1>5 DEF IoInv, FramesOK, Waits
    <3>2. CASE d = c /\ b # c
      BY <3>2, <2>2, <1>5 DEF Free, Waits
    <3>3. CASE d # c /\ b = c
      BY <3>3, <2>2, <1>5 DEF Free, Waits
    <3> QED BY <3>1, <3>2, <3>3
  <2> QED BY <2>1, <2>2 DEF FramesOK
<1>11. InTable(c)'
  BY <1>0, <1>2, <1>5 DEF InTable, Waits
<1>12. ASSUME NEW d \in Coroutines \ {c} PROVE InTable(d)' <=> InTable(d)
  <2>1. co'[d] = co[d]
    BY <1>5
  <2>2. Waits(d) => (co[d].ev \in reg'[co[d].fd] <=> co[d].ev \in reg[co[d].fd])
    BY <1>0, <1>2 DEF Free, IoInv, FramesOK
  <2> QED BY <2>1, <2>2 DEF InTable, Waits
<1> QED BY <1>2, <1>3, <1>4, <1>5, <1>6, <1>9, <1>10, <1>11, <1>12

\* One round of ioInner, once the timer of the round before is cancelled.
LEMMA IoRoundStep ==
  ASSUME IoInv, Timeout = 0, NEW c \in Coroutines, Running(c), NEW fd \in Fds, NEW ev \in Events,
         Free(c, fd, ev), NEW ts \in Seq(Timer), DistinctTimers(ts), Range(ts) \subseteq Range(timers),
         \A t \in Range(timers) : Sleeping(t) => t \in Range(ts),
         Endless(ts) = Cardinality({d \in Coroutines \ {c} : co[d].at = "io"}),
         IoRound(c, fd, ev, ts), UNCHANGED <<open, conn, now, limit, ready, cur, evq>>,
         calls' \in [Coroutines -> 0..MaxCalls]
  PROVE  IoInv'
<1> DEFINE rest == {d \in Coroutines \ {c} : co[d].at = "io"}
<1>0. /\ co \in [Coroutines -> Frame] /\ avail \in [Fds -> SUBSET (Events \cup {Hup})]
      /\ pc = "run" /\ cur = c
  BY Alone DEF IoInv, IoTypes
<1>1. ASSUME avail' = avail \/ (Hup \notin avail[fd] /\ avail' = [avail EXCEPT ![fd] = @ \ {ev}]),
             co' = [co EXCEPT ![c] = InUser], timers' = ts, UNCHANGED <<table, pc>>
      PROVE  IoInv'
  <2> USE DEF table, fdEvents
  <2>1. InUser \in Frame /\ InUser.at = "user"
    BY DEF InUser, Frame, Events
  <2>2. /\ co' \in [Coroutines -> Frame] /\ co'[c] = InUser
        /\ \A d \in Coroutines \ {c} : co'[d] = co[d]
    BY <1>0, <1>1, <2>1
  <2>3. avail' \in [Fds -> SUBSET (Events \cup {Hup})]
    BY <1>0, <1>1
  <2>4. IoTypes'
    BY <1>1, <2>2, <2>3 DEF IoInv, IoTypes
  <2>5. KernelOK'
    BY <1>0, <1>1 DEF IoInv, KernelOK
  <2>6. TableOK' /\ \A d \in Coroutines \ {c} : InTable(d)' <=> InTable(d)
    BY <1>1, <2>2, TableAfter
  <2>7. FramesOK'
    BY <2>1, <2>2, FramesAfter
  <2>8. NoTimerLeak'
    <3>1. {d \in Coroutines : co'[d].at = "io"} = rest
      BY <2>1, <2>2
    <3> QED BY <3>1, <1>1 DEF NoTimerLeak, Endless
  <2>9. TableMatchesEpoll'
    BY <1>1 DEF IoInv, TableMatchesEpoll
  <2>10. PlaceOK(c)'
    <3>1. ~InReady(c)' /\ ~InTimers(c)'
      BY <1>1, Alone DEF InReady, InTimers
    <3>2. Running(c)'
      BY <1>1 DEF Running
    <3>3. ~InTable(c)' /\ ~Done(c)' /\ Returnable(c)'
      BY <2>1, <2>2 DEF InTable, Waits, Done, Returnable
    <3> QED BY <3>1, <3>2, <3>3 DEF PlaceOK
  <2>11. \A d \in Coroutines \ {c} : Returnable(d) => Returnable(d)'
    BY <2>2, ReturnableAfter
  <2>12. \A t \in Range(timers') : Sleeping(t) => t \in Range(timers)
    BY <1>1
  <2>13. pc' \in {"run", "pop"}
    BY <1>0, <1>1
  <2> QED BY <1>1, <2>2, <2>4, <2>5, <2>6, <2>7, <2>8, <2>9, <2>10, <2>11, <2>12, <2>13, OwnStep
<1>2. ASSUME fd \in open, timers' = AddTimer(ts, NewTimer(c, Forever)),
             co' = [co EXCEPT ![c] = [at |-> "io", fd |-> fd, ev |-> ev, until |-> NewTimer(c, Forever).stamp,
                                      id |-> NewTimer(c, Forever).id, flag |-> FALSE]],
             RegisterEvent(fd, ev, c), UNCHANGED avail
      PROVE  IoInv'
  <2>1. PICK t \in Timer : t = NewTimer(c, Forever) /\ t.owner = c /\ t.stamp = Forever
    <3>1. FreshId(c) \in Nat
      BY FreshIdNat DEF IoInv
    <3>2. NewTimer(c, Forever) \in Timer
      BY <3>1, Apart DEF NewTimer, Timer
    <3>3. NewTimer(c, Forever).owner = c /\ NewTimer(c, Forever).stamp = Forever
      BY DEF NewTimer
    <3> QED BY <3>2, <3>3
  <2>2. PICK f \in Frame : /\ co' = [co EXCEPT ![c] = f] /\ f.at = "io" /\ f.fd = fd /\ f.ev = ev
                           /\ f.until = Forever /\ ~f.flag
    <3> DEFINE f == [at |-> "io", fd |-> fd, ev |-> ev, until |-> t.stamp, id |-> t.id, flag |-> FALSE]
    <3>1. t.stamp \in Nat /\ t.id \in Nat
      BY DEF Timer
    <3>2. f \in Frame /\ f.at = "io" /\ f.fd = fd /\ f.ev = ev /\ f.until = Forever /\ f.flag = FALSE
      BY <3>1, <2>1 DEF Frame
    <3>3. co' = [co EXCEPT ![c] = f]
      BY <1>2, <2>1
    <3> HIDE DEF f
    <3> QED BY <3>2, <3>3
  <2>3. timers' = AddTimer(ts, t)
    BY <1>2, <2>1
  <2>4. ~Sleeping(t) /\ ApartT(Range(ts), {t})
    BY <2>1 DEF Sleeping, ApartT
  <2>5. /\ timers' \in Seq(Timer) /\ Range(timers') = Range(ts) \cup {t} /\ DistinctTimers(timers')
        /\ Endless(timers') = Endless(ts) + 1
    BY <2>3, <2>4, AddTimerIs
  <2>6. /\ pc' = "pop" /\ reg' \in [Fds -> SUBSET Events]
        /\ exec' \in [Fds -> [Events -> Coroutines \cup {None}]]
        /\ ep' \in [Fds -> (SUBSET Events) \cup {Absent}] /\ co' \in [Coroutines -> Frame]
        /\ TableMatchesEpoll' /\ TableOK' /\ FramesOK' /\ InTable(c)'
        /\ \A d \in Coroutines \ {c} : co'[d] = co[d] /\ (InTable(d)' <=> InTable(d))
    BY <1>2, <2>2, RegisterIs
  <2>7. IoTypes'
    BY <1>2, <2>5, <2>6 DEF IoInv, IoTypes, Places
  <2>8. KernelOK'
    BY <1>2 DEF IoInv, KernelOK
  <2>9. NoTimerLeak'
    <3>1. {d \in Coroutines : co'[d].at = "io"} = rest \cup {c}
      BY <1>0, <2>2, <2>6
    <3>2. IsFiniteSet(rest)
      BY Apart, FS_Subset
    <3>3. c \notin rest
      OBVIOUS
    <3> HIDE DEF rest
    <3>4. Cardinality(rest \cup {c}) = Cardinality(rest) + 1
      BY <3>2, <3>3, FS_AddElement
    <3>5. Endless(ts) = Cardinality(rest)
      BY DEF rest
    <3> QED BY <3>1, <3>4, <3>5, <2>5 DEF NoTimerLeak, Endless
  <2>10. PlaceOK(c)'
    <3>1. ~InReady(c)'
      BY Alone DEF InReady
    <3>2. ~Running(c)'
      BY <2>6 DEF Running
    <3> QED BY <3>1, <3>2, <2>6 DEF PlaceOK
  <2>11. \A d \in Coroutines \ {c} : Returnable(d) => Returnable(d)'
    BY <2>6, ReturnableAfter
  <2>12. /\ \A u \in Range(timers) : Sleeping(u) => u \in Range(timers')
         /\ \A u \in Range(timers') : Sleeping(u) => u \in Range(timers)
    BY <2>4, <2>5
  <2> QED BY <2>5, <2>6, <2>7, <2>8, <2>9, <2>10, <2>11, <2>12, OwnStep
<1>3. ASSUME ~(Events \subseteq avail[fd]), avail' = [avail EXCEPT ![fd] = @ \ {Hup}]
      PROVE  avail' = avail
  <2>1. Hup \notin avail[fd]
    BY <1>3 DEF IoInv, KernelOK
  <2> QED BY <1>0, <1>3, <2>1
<1> QED BY <1>1, <1>2, <1>3 DEF IoRound

\* ioInner, up to its yield or its return.
LEMMA IoCallStep ==
  ASSUME IoInv, Timeout = 0, NEW c \in Coroutines, IoCall(c)
  PROVE  IoInv'
<1>0. /\ Running(c) /\ co[c].at = "user" /\ calls[c] < MaxCalls
      /\ UNCHANGED <<open, conn, now, limit, ready, cur, evq>> /\ calls' = [calls EXCEPT ![c] = @ + 1]
  BY DEF IoCall, Calls, InCall, Running
<1>1. calls' \in [Coroutines -> 0..MaxCalls]
  BY <1>0, Apart DEF IoInv, IoTypes
<1>2. PICK fd \in Fds : \E ev \in Events : Usable(fd, ev) /\ IoRound(c, fd, ev, timers)
  BY DEF IoCall
<1>3. PICK ev \in Events : Usable(fd, ev) /\ IoRound(c, fd, ev, timers)
  BY <1>2
<1>4. Free(c, fd, ev)
  BY <1>3 DEF Usable, Free, Waits
<1>5. timers \in Seq(Timer) /\ DistinctTimers(timers)
  BY DEF IoInv, IoTypes, WakesOK
<1>6. Endless(timers) = Cardinality({d \in Coroutines \ {c} : co[d].at = "io"})
  <2>1. {d \in Coroutines \ {c} : co[d].at = "io"} = {d \in Coroutines : co[d].at = "io"}
    BY <1>0
  <2> QED BY <2>1 DEF IoInv, NoTimerLeak, Endless
<1> QED BY <1>0, <1>1, <1>3, <1>4, <1>5, <1>6, IoRoundStep

\* Back from the yield: the timer that is cancelled is there.
LEMMA IoResumeStep ==
  ASSUME IoInv, Timeout = 0, NEW c \in Coroutines, IoResume(c)
  PROVE  IoInv'
<1>0. /\ Running(c) /\ co[c].at = "io"
      /\ UNCHANGED <<open, conn, now, limit, ready, cur, evq, calls>>
  BY DEF IoResume, InCall, Running
<1>1. calls' \in [Coroutines -> 0..MaxCalls]
  BY <1>0 DEF IoInv, IoTypes
<1>2. PICK fd \in Fds : fd = co[c].fd
  BY <1>0 DEF IoInv, FramesOK, Waits
<1>3. PICK ev \in Events : ev = co[c].ev
  BY DEF IoInv, IoTypes, Frame
<1>4. co[c].until = Forever /\ ~co[c].flag
  BY <1>0 DEF IoInv, FramesOK
<1>5. Free(c, fd, ev)
  BY <1>0, <1>2, <1>3 DEF IoInv, FramesOK, Free, Waits
<1>6. timers \in Seq(Timer) /\ DistinctTimers(timers)
  BY DEF IoInv, IoTypes, WakesOK
<1> DEFINE all == {d \in Coroutines : co[d].at = "io"}
           rest == {d \in Coroutines \ {c} : co[d].at = "io"}
<1>7. IsFiniteSet(all) /\ c \in all /\ rest = all \ {c}
  <2>1. IsFiniteSet(all)
    BY Apart, FS_Subset
  <2> QED BY <2>1, <1>0
<1>8. Endless(timers) = Cardinality(all)
  BY DEF IoInv, NoTimerLeak, Endless
<1> HIDE DEF all, rest
<1>9. Cardinality(rest) = Cardinality(all) - 1 /\ Cardinality(all) \in Nat /\ Cardinality(all) # 0
  BY <1>7, FS_RemoveElement, FS_CardinalityType, FS_EmptySet
<1>10. HasStamp(timers, Forever)
  <2>1. {i \in 1..Len(timers) : timers[i].stamp = Forever} # {}
    BY <1>8, <1>9, FS_EmptySet DEF Endless
  <2> QED BY <2>1 DEF HasStamp
<1>11. PICK ts : ts = RemoveTimer(timers, Forever)
  OBVIOUS
<1>12. /\ ts \in Seq(Timer) /\ Range(ts) \subseteq Range(timers) /\ DistinctTimers(ts)
       /\ \A t \in Range(timers) : Sleeping(t) => t \in Range(ts)
       /\ Endless(timers) = Endless(ts) + 1
  BY <1>6, <1>10, <1>11, RemoveTimerIs
<1>13. Endless(ts) = Cardinality(rest)
  <2>1. Endless(ts) \in Nat
    BY <1>12, EndlessNat
  <2> QED BY <2>1, <1>8, <1>9, <1>12
<1>14. IoRound(c, fd, ev, ts)
  BY <1>2, <1>3, <1>4, <1>10, <1>11 DEF IoResume
<1> QED BY <1>0, <1>1, <1>5, <1>12, <1>13, <1>14, IoRoundStep DEF rest

\* co_connect: done at once, or in the table until the socket is writable.
LEMMA ConnectStep ==
  ASSUME IoInv, NEW c \in Coroutines, Connect(c)
  PROVE  IoInv'
<1>0. /\ Running(c) /\ co[c].at = "user" /\ calls[c] < MaxCalls /\ pc = "run" /\ cur = c
      /\ UNCHANGED <<open, now, timers, limit, ready, cur, evq>> /\ calls' = [calls EXCEPT ![c] = @ + 1]
  BY DEF Connect, Calls, InCall, Running
<1>1. calls' \in [Coroutines -> 0..MaxCalls]
  BY <1>0, Apart DEF IoInv, IoTypes
<1>2. PICK fd \in Fds :
       /\ Usable(fd, Write) /\ conn[fd] = "no" /\ Hup \notin avail[fd]
       /\ \/ /\ conn' = [conn EXCEPT ![fd] = "done"]
             /\ UNCHANGED <<table, avail, pc, co>>
          \/ /\ conn' = [conn EXCEPT ![fd] = "pending"]
             /\ avail' = [avail EXCEPT ![fd] = @ \ {Write}]
             /\ co' = [co EXCEPT ![c] = [InUser EXCEPT !.at = "connect", !.fd = fd, !.ev = Write]]
             /\ RegisterEvent(fd, Write, c)
  BY DEF Connect
<1>3. /\ conn \in [Fds -> {"no", "pending", "done"}] /\ avail \in [Fds -> SUBSET (Events \cup {Hup})]
      /\ co \in [Coroutines -> Frame]
  BY DEF IoInv, IoTypes
<1>4. ASSUME conn' = [conn EXCEPT ![fd] = "done"], UNCHANGED <<table, avail, pc, co>>
      PROVE  IoInv'
  <2> USE DEF table, fdEvents, loop
  <2>1. IoTypes'
    <3>1. conn' \in [Fds -> {"no", "pending", "done"}]
      BY <1>3, <1>4
    <3> QED BY <3>1, <1>0, <1>1, <1>4 DEF IoInv, IoTypes
  <2>2. KernelOK'
    BY <1>3, <1>4 DEF IoInv, KernelOK
  <2>3. Later
    BY <1>0, <1>3, <1>4, Apart DEF IoInv, IoTypes, Later
  <2> QED BY <1>0, <1>4, <2>1, <2>2, <2>3, EnvironmentStep
<1>5. ASSUME conn' = [conn EXCEPT ![fd] = "pending"], avail' = [avail EXCEPT ![fd] = @ \ {Write}],
             co' = [co EXCEPT ![c] = [InUser EXCEPT !.at = "connect", !.fd = fd, !.ev = Write]],
             RegisterEvent(fd, Write, c)
      PROVE  IoInv'
  <2>1. fd \in open /\ Free(c, fd, Write) /\ Write \in Events
    BY <1>2 DEF Usable, Free, Waits, Events
  <2>2. PICK f \in Frame : co' = [co EXCEPT ![c] = f] /\ f.at = "connect" /\ f.fd = fd /\ f.ev = Write
    <3> DEFINE f == [InUser EXCEPT !.at = "connect", !.fd = fd, !.ev = Write]
    <3>1. f \in Frame /\ f.at = "connect" /\ f.fd = fd /\ f.ev = Write
      BY DEF InUser, Frame, Events
    <3> HIDE DEF f
    <3> QED BY <3>1, <1>5 DEF f
  <2>3. /\ pc' = "pop" /\ reg' \in [Fds -> SUBSET Events]
        /\ exec' \in [Fds -> [Events -> Coroutines \cup {None}]]
        /\ ep' \in [Fds -> (SUBSET Events) \cup {Absent}] /\ co' \in [Coroutines -> Frame]
        /\ TableMatchesEpoll' /\ TableOK' /\ FramesOK' /\ InTable(c)'
        /\ \A d \in Coroutines \ {c} : co'[d] = co[d] /\ (InTable(d)' <=> InTable(d))
    BY <1>0, <1>5, <2>1, <2>2, RegisterIs, ZenonT(30)
  <2>4. conn' \in [Fds -> {"no", "pending", "done"}] /\ avail' \in [Fds -> SUBSET (Events \cup {Hup})]
    BY <1>3, <1>5
  <2>5. IoTypes'
    BY <1>0, <1>1, <2>3, <2>4 DEF IoInv, IoTypes, Places
  <2>6. KernelOK'
    BY <1>2, <1>3, <1>5 DEF IoInv, KernelOK
  <2>7. NoTimerLeak'
    <3>1. \A d \in Coroutines : co'[d].at = "io" <=> co[d].at = "io"
      BY <1>0, <1>3, <2>2, <2>3
    <3> QED BY <1>0, <3>1, LeakAfter DEF IoInv
  <2>8. PlaceOK(c)'
    <3>1. ~InReady(c)'
      BY <1>0, Alone DEF InReady
    <3>2. ~Running(c)'
      BY <2>3 DEF Running
    <3> QED BY <3>1, <3>2, <2>3 DEF PlaceOK
  <2>9. ASSUME NEW d \in Coroutines \ {c}, Returnable(d) PROVE Returnable(d)'
    <3>1. co'[d] = co[d] /\ now' = now
      BY <1>0, <2>3
    <3>2. co[d].at = "connect" => co[d].fd # fd /\ co[d].fd \in Fds
      BY <2>1 DEF Free, Waits, IoInv, FramesOK
    <3> QED BY <3>1, <3>2, <2>9, <1>3, <1>5 DEF Returnable
  <2>10. DistinctTimers(timers') /\ timers' = timers
    BY <1>0 DEF IoInv, WakesOK
  <2> QED BY <1>0, <2>3, <2>5, <2>6, <2>7, <2>8, <2>9, <2>10, OwnStep
<1> QED BY <1>2, <1>4, <1>5

\* What epoll_wait reports has been asked for, and nothing reported as
\* writable is still connecting.
LEMMA ReportedIs ==
  ASSUME IoInv, NEW fd \in Fds, Reported(fd) # {}
  PROVE  LET es == Reported(fd)
         IN  /\ es \in SUBSET (Events \cup {Hup}) /\ reg[fd] # {} /\ es \cap Events \subseteq reg[fd]
             /\ Hup \in es => reg[fd] \subseteq es
             /\ es \cap {Write, Hup} # {} => conn[fd] # "pending"
<1> DEFINE es == Reported(fd)
<1>1. ep[fd] # Absent /\ es = avail[fd] \cap (ep[fd] \cup {Hup})
  BY DEF Reported
<1>2. reg[fd] # {} /\ ep[fd] = reg[fd] /\ reg[fd] \subseteq Events /\ avail[fd] \subseteq Events \cup {Hup}
  BY <1>1 DEF IoInv, TableMatchesEpoll, IoTypes
<1>3. (Hup \in avail[fd] => Events \subseteq avail[fd]) /\ (conn[fd] = "pending" => Write \notin avail[fd])
  BY DEF IoInv, KernelOK
<1>4. Hup \notin Events /\ Write \in Events
  BY DEF Hup, Events, Read, Write
<1> HIDE DEF es
<1>5. /\ es \in SUBSET (Events \cup {Hup}) /\ es \cap Events \subseteq reg[fd]
      /\ Hup \in es => reg[fd] \subseteq es
  BY <1>1, <1>2, <1>3, <1>4
<1>6. es \cap {Write, Hup} # {} => conn[fd] # "pending"
  BY <1>1, <1>3, <1>4
<1> QED BY <1>2, <1>5, <1>6 DEF es

\* epoll_wait returns: the timers that are due become entries of the list.
LEMMA EpollWaitStep ==
  ASSUME IoInv, EpollWait
  PROVE  IoInv'
<1> USE DEF table, fdEvents, kernel
<1> DEFINE hot == {fd \in Fds : Reported(fd) # {}}
           E == {[fd |-> fd, es |-> Reported(fd)] : fd \in hot}
           g == [fd \in hot |-> [fd |-> fd, es |-> Reported(fd)]]
<1>0. /\ timers \in Seq(Timer) /\ ready \in Seq(Entry) /\ now \in 0..MaxTime /\ pc = "wait" /\ pc' = "events"
      /\ limit' = 0 /\ DistinctTimers(timers) /\ DistinctEntries(ready)
  BY DEF IoInv, IoTypes, WakesOK, EpollWait
<1>1. UNCHANGED <<fdEvents, kernel, cur, co, calls>>
  BY DEF EpollWait
<1>2. PICK a : a = TakeExpired(timers)
  OBVIOUS
<1>3. PICK b : b = SubSeq(timers, Len(a) + 1, Len(timers))
  OBVIOUS
<1>4. /\ a \in Seq(Timer) /\ b \in Seq(Timer) /\ DistinctTimers(a) /\ DistinctTimers(b)
      /\ \A t \in Range(a) : Sleeping(t) /\ t.stamp <= now
      /\ Range(timers) = Range(a) \cup Range(b) /\ ApartT(Range(a), Range(b))
      /\ Endless(b) = Endless(timers)
  <2> DEFINE n == UpperBound(timers, now)
             aa == SubSeq(timers, 1, n)
             bb == SubSeq(timers, n + 1, Len(timers))
  <2>1. /\ aa \in Seq(Timer) /\ bb \in Seq(Timer) /\ Len(aa) = n
        /\ \A t \in Range(aa) : Sleeping(t) /\ t.stamp <= now
        /\ Range(timers) = Range(aa) \cup Range(bb)
        /\ DistinctTimers(timers) => DistinctTimers(aa) /\ DistinctTimers(bb) /\ ApartT(Range(aa), Range(bb))
        /\ Endless(bb) = Endless(timers)
    BY <1>0, TakeExpiredIs
  <2>2. a = aa
    BY <1>2 DEF TakeExpired
  <2>3. b = bb
    BY <1>3, <2>1, <2>2
  <2> HIDE DEF aa, bb
  <2> QED BY <2>1, <2>2, <2>3, <1>0
<1>5. PICK m : m = [i \in 1..Len(a) |-> Expired(a[i])]
  OBVIOUS
<1>6. m \in Seq(Entry) /\ DistinctEntries(m) /\ Range(m) = {Expired(t) : t \in Range(a)}
  BY <1>4, <1>5, ExpiredAll
<1>7. timers' = b /\ ready' = ready \o m /\ evq' \in SetToSeqs(E)
  BY <1>2, <1>3, <1>5 DEF EpollWait
<1>8. \A t \in Range(a) : /\ t \in Timer /\ t.owner \in Coroutines /\ InTimers(t.owner)
                         /\ Owner(Expired(t)) = t.owner /\ TimerOK(t)
  <2>1. \A t \in Range(a) : t \in Timer /\ t \in Range(timers) /\ Sleeping(t)
    BY <1>4, RangeIs
  <2>2. \A t \in Range(a) : t.owner \in Coroutines
    BY <2>1 DEF Timer
  <2>3. \A t \in Range(a) : Owner(Expired(t)) = t.owner
    BY <2>1, EntryIs
  <2> QED BY <2>1, <2>2, <2>3 DEF InTimers, IoInv, WakesOK
<1>9. ApartE(Range(ready), Range(m))
  <2> SUFFICES ASSUME NEW r \in Range(ready), NEW t \in Range(a), Owner(r) = Owner(Expired(t)) PROVE FALSE
    BY <1>6 DEF ApartE
  <2>1. InReady(t.owner)
    BY <1>8 DEF InReady
  <2>2. PlaceOK(t.owner)
    BY <1>8 DEF IoInv, PlacesOK
  <2> QED BY <2>1, <2>2, <1>8 DEF PlaceOK
<1>10. ready' \in Seq(Entry) /\ Range(ready') = Range(ready) \cup Range(m) /\ DistinctEntries(ready')
  <2>1. ready \o m \in Seq(Entry)
    BY <1>0, <1>6, ConcatAt
  <2>2. Range(ready \o m) = Range(ready) \cup Range(m)
    BY <1>0, <1>6, RangeConcat
  <2>3. DistinctEntries(ready \o m)
    BY <1>0, <1>6, <1>9, DistinctConcatE
  <2> QED BY <2>1, <2>2, <2>3, <1>7, Zenon
<1>11. evq' \in Seq(Event) /\ EventsOK'
  <2>1. IsFiniteSet(E)
    <3>1. IsFiniteSet(hot)
      BY Apart, FS_Subset
    <3>2. g = [x \in hot |-> g[x]] /\ E = {g[x] : x \in hot}
      OBVIOUS
    <3> HIDE DEF g, hot, E
    <3>3. IsFiniteSet({g[x] : x \in hot})
      BY <3>1, <3>2, ImageFinite
    <3> QED BY <3>2, <3>3
  <2>2. ASSUME NEW x \in E
        PROVE  /\ x \in Event /\ reg[x.fd] # {} /\ x.es # {} /\ x.es \cap Events \subseteq reg[x.fd]
               /\ Hup \in x.es => reg[x.fd] \subseteq x.es
               /\ x.es \cap {Write, Hup} # {} => conn[x.fd] # "pending"
               /\ x = [fd |-> x.fd, es |-> Reported(x.fd)]
    <3>1. PICK fd \in hot : x = [fd |-> fd, es |-> Reported(fd)]
      OBVIOUS
    <3>2. x.fd = fd /\ x.es = Reported(fd) /\ fd \in Fds /\ Reported(fd) # {}
      BY <3>1
    <3>3. /\ Reported(fd) \in SUBSET (Events \cup {Hup}) /\ reg[fd] # {} /\ Reported(fd) \cap Events \subseteq reg[fd]
          /\ Hup \in Reported(fd) => reg[fd] \subseteq Reported(fd)
          /\ Reported(fd) \cap {Write, Hup} # {} => conn[fd] # "pending"
      BY <3>2, ReportedIs
    <3>4. x \in Event
      BY <3>1, <3>2, <3>3 DEF Event
    <3> QED BY <3>1, <3>2, <3>3, <3>4
  <2> HIDE DEF E
  <2>3. evq' \in Seq(E) /\ \A i, j \in 1..Len(evq') : i # j => evq'[i] # evq'[j]
    BY <1>7, <2>1, OrdersOf
  <2>4. \A i \in 1..Len(evq') : evq'[i] \in E
    BY <2>3
  <2>5. evq' \in Seq(Event)
    BY <2>2, <2>3
  <2>6. \A i, j \in 1..Len(evq') : i # j => evq'[i].fd # evq'[j].fd
    <3> SUFFICES ASSUME NEW i \in 1..Len(evq'), NEW j \in 1..Len(evq'), i # j, evq'[i].fd = evq'[j].fd
                 PROVE  FALSE
      OBVIOUS
    <3>1. evq'[i] = evq'[j]
      BY <2>2, <2>4
    <3> QED BY <3>1, <2>3
  <2>7. EventsOK'
    BY <2>2, <2>4, <2>6, <1>0, <1>1 DEF EventsOK
  <2> QED BY <2>5, <2>7
<1>12. IoTypes'
  BY <1>0, <1>1, <1>4, <1>7, <1>10, <1>11 DEF IoInv, IoTypes, Places
<1>13. TableMatchesEpoll' /\ TableOK' /\ FramesOK' /\ KernelOK' /\ ThreadOK'
  BY <1>0, <1>1 DEF IoInv, TableMatchesEpoll, TableOK, FramesOK, Waits, KernelOK, ThreadOK
<1>14. NoTimerLeak'
  BY <1>1, <1>4, <1>7, LeakAfter DEF IoInv
<1>15. \A t \in Range(a) : EntryOK(Expired(t))'
  BY <1>1, <1>4, <1>8 DEF EntryOK, Expired, TimerOK
<1>16. \A r \in Range(ready) : EntryOK(r)'
  BY <1>1 DEF IoInv, WakesOK, EntryOK, Returnable
<1>17. \A t \in Range(b) : TimerOK(t)'
  BY <1>1, <1>4 DEF IoInv, WakesOK, TimerOK
<1>18. WakesOK'
  BY <1>4, <1>6, <1>7, <1>10, <1>15, <1>16, <1>17 DEF WakesOK
<1>19. ASSUME NEW c \in Coroutines PROVE PlaceOK(c)'
  <2> DEFINE Due == \E t \in Range(a) : t.owner = c
  <2>1. InReady(c)' <=> InReady(c) \/ Due
    BY <1>6, <1>8, <1>10 DEF InReady
  <2>2. InTimers(c) <=> InTimers(c)' \/ Due
    BY <1>4, <1>7 DEF InTimers
  <2>3. ~(Due /\ InTimers(c)')
    BY <1>4, <1>7 DEF InTimers, ApartT
  <2>4. (InTable(c)' <=> InTable(c)) /\ (Done(c)' <=> Done(c)) /\ ~Running(c) /\ ~Running(c)'
    BY <1>0, <1>1 DEF InTable, Waits, Done, Running
  <2>5. Due => ~InTable(c) /\ ~Done(c)
    BY <1>4, <1>8 DEF TimerOK, InTable, Waits, Done
  <2>6. PlaceOK(c)
    BY DEF IoInv, PlacesOK
  <2> HIDE DEF Due
  <2> QED BY <2>1, <2>2, <2>3, <2>4, <2>5, <2>6 DEF PlaceOK
<1> QED BY <1>11, <1>12, <1>13, <1>14, <1>18, <1>19 DEF IoInv, PlacesOK

\* addExecutor, when the event was reported.
LEMMA PushOrNot ==
  ASSUME NEW s \in Seq(Entry), NEW x \in Coroutines \cup {None}, NEW w \in BOOLEAN
  PROVE  LET u == s \o (IF w THEN <<Resume(x)>> ELSE <<>>)
         IN  /\ u \in Seq(Entry)
             /\ Range(u) = Range(s) \cup (IF w THEN {Resume(x)} ELSE {})
             /\ DistinctEntries(s) /\ (w /\ x # None => \A r \in Range(s) : Owner(r) # x) => DistinctEntries(u)
<1> DEFINE u == s \o (IF w THEN <<Resume(x)>> ELSE <<>>)
<1>1. Resume(x) \in Entry /\ Owner(Resume(x)) = x
  BY EntryIs
<1>2. CASE w
  <2>1. u = s \o <<Resume(x)>>
    BY <1>2, Zenon
  <2>2. /\ s \o <<Resume(x)>> \in Seq(Entry) /\ Range(s \o <<Resume(x)>>) = Range(s) \cup {Resume(x)}
        /\ DistinctEntries(s) /\ ApartE(Range(s), {Resume(x)}) => DistinctEntries(s \o <<Resume(x)>>)
    BY <1>1, PushIs
  <2>3. (x # None => \A r \in Range(s) : Owner(r) # x) => ApartE(Range(s), {Resume(x)})
    BY <1>1 DEF ApartE
  <2>4. /\ u \in Seq(Entry) /\ Range(u) = Range(s) \cup {Resume(x)}
        /\ DistinctEntries(s) /\ ApartE(Range(s), {Resume(x)}) => DistinctEntries(u)
    BY <2>1, <2>2, Zenon
  <2> HIDE DEF u
  <2> QED BY <1>2, <2>3, <2>4, Zenon DEF u
<1>3. CASE ~w
  <2>1. s \o <<>> = s
    OBVIOUS
  <2>2. u = s
    BY <1>3, <2>1, Zenon
  <2> HIDE DEF u
  <2>3. Range(u) = Range(s) \cup {} /\ u \in Seq(Entry)
    BY <2>2
  <2> QED BY <1>3, <2>2, <2>3, Zenon DEF u
<1> QED BY <1>2, <1>3

\* The coroutine that an event wakes is the one that waits for it.
LEMMA WokenIs ==
  ASSUME IoInv, NEW fd \in Fds, NEW e \in Events, NEW c \in Coroutines
  PROVE  /\ exec[fd][e] = c => InTable(c) /\ co[c].fd = fd /\ co[c].ev = e /\ e \in reg[fd]
         /\ InTable(c) /\ co[c].fd = fd /\ co[c].ev = e => exec[fd][e] = c
<1>1. IF e \in reg[fd]
      THEN exec[fd][e] \in Coroutines /\ Waits(exec[fd][e]) /\ co[exec[fd][e]].fd = fd /\ co[exec[fd][e]].ev = e
      ELSE exec[fd][e] = None
  BY DEF IoInv, TableOK
<1>2. exec[fd][e] = c => InTable(c) /\ co[c].fd = fd /\ co[c].ev = e /\ e \in reg[fd]
  BY <1>1, Apart DEF InTable
<1>3. InTable(c) /\ co[c].fd = fd /\ co[c].ev = e => exec[fd][e] = c
  BY <1>1 DEF InTable, IoInv, FramesOK
<1> QED BY <1>2, <1>3

\* One round of the loop over epoll's results.
LEMMA HandleEventStep ==
  ASSUME IoInv, HandleEvent
  PROVE  IoInv'
<1> USE DEF table, fdEvents, kernel
<1>0. /\ reg \in [Fds -> SUBSET Events] /\ exec \in [Fds -> [Events -> Coroutines \cup {None}]]
      /\ ep \in [Fds -> (SUBSET Events) \cup {Absent}] /\ ready \in Seq(Entry) /\ evq \in Seq(Event)
      /\ pc = "events" /\ evq # <<>> /\ DistinctEntries(ready)
  BY DEF IoInv, IoTypes, WakesOK, HandleEvent
<1>1. Head(evq) = evq[1] /\ 1 \in 1..Len(evq) /\ evq[1] \in Event
  BY <1>0
<1>2. PICK fd \in Fds : fd = Head(evq).fd
  BY <1>1 DEF Event
<1>3. PICK es \in SUBSET (Events \cup {Hup}) : es = Head(evq).es
  BY <1>1 DEF Event
<1>4. /\ reg[fd] # {} /\ es # {} /\ es \cap Events \subseteq reg[fd] /\ (Hup \in es => reg[fd] \subseteq es)
      /\ es \cap {Write, Hup} # {} => conn[fd] # "pending"
  BY <1>1, <1>2, <1>3 DEF IoInv, EventsOK
<1>5. ep[fd] = reg[fd] /\ ep[fd] # Absent
  <2>1. reg[fd] # Absent
    BY <1>0 DEF Absent, Events, Read, Write
  <2> QED BY <1>4, <2>1 DEF IoInv, TableMatchesEpoll
<1>6. PICK left : left = reg[fd] \ es
  OBVIOUS
<1>7. PICK wr \in BOOLEAN : wr <=> Woken(Read, es)
  BY DEF Woken
<1>8. PICK ww \in BOOLEAN : ww <=> Woken(Write, es)
  BY DEF Woken
<1>9. PICK xr \in Coroutines \cup {None} : xr = exec[fd][Read]
  BY <1>0 DEF Events
<1>10. PICK xw \in Coroutines \cup {None} : xw = exec[fd][Write]
  BY <1>0 DEF Events
<1>11. PICK s1 : s1 = ready \o (IF wr THEN <<Resume(xr)>> ELSE <<>>)
  OBVIOUS
<1>12. /\ ep' = IF left = reg[fd] THEN ep ELSE [ep EXCEPT ![fd] = IF left = {} THEN Absent ELSE left]
       /\ reg' = [reg EXCEPT ![fd] = left]
       /\ exec' = [exec EXCEPT ![fd] = [e \in Events |-> IF Woken(e, es) THEN None ELSE exec[fd][e]]]
       /\ evq' = Tail(evq)
       /\ UNCHANGED <<kernel, timers, limit, pc, cur, co, calls>>
  BY <1>2, <1>3, <1>5, <1>6, <1>0 DEF HandleEvent, Left, Watch
<1>13. ready' = s1 \o (IF ww THEN <<Resume(xw)>> ELSE <<>>)
  <2>1. ready' = ready \o (IF Woken(Read, es) THEN <<Resume(exec[fd][Read])>> ELSE <<>>)
                       \o (IF Woken(Write, es) THEN <<Resume(exec[fd][Write])>> ELSE <<>>)
    BY <1>2, <1>3, <1>5, <1>6, Zenon DEF HandleEvent, Left
  <2> QED BY <2>1, <1>7, <1>8, <1>9, <1>10, <1>11, Zenon
<1>14. Events = {Read, Write} /\ Read # Write /\ Hup \notin Events
  BY DEF Events, Read, Write, Hup
<1>15. \A e \in Events : e \in left <=> e \in reg[fd] /\ ~Woken(e, es)
  BY <1>4, <1>6, <1>14 DEF Woken
<1>16. left \in SUBSET Events /\ left \subseteq reg[fd]
  BY <1>0, <1>6
<1>17. ASSUME NEW e \in Events, NEW c \in Coroutines, exec[fd][e] = c
       PROVE  InTable(c) /\ co[c].fd = fd /\ co[c].ev = e /\ \A r \in Range(ready) : Owner(r) # c
  <2>1. InTable(c) /\ co[c].fd = fd /\ co[c].ev = e
    BY <1>17, WokenIs
  <2>2. PlaceOK(c)
    BY DEF IoInv, PlacesOK
  <2> QED BY <2>1, <2>2 DEF PlaceOK, InReady
<1>18. /\ s1 \in Seq(Entry) /\ Range(s1) = Range(ready) \cup (IF wr THEN {Resume(xr)} ELSE {})
       /\ DistinctEntries(s1)
  <2> DEFINE u == ready \o (IF wr THEN <<Resume(xr)>> ELSE <<>>)
  <2>1. wr /\ xr # None => \A r \in Range(ready) : Owner(r) # xr
    BY <1>9, <1>14, <1>17
  <2>2. /\ u \in Seq(Entry) /\ Range(u) = Range(ready) \cup (IF wr THEN {Resume(xr)} ELSE {})
        /\ DistinctEntries(ready) /\ (wr /\ xr # None => \A r \in Range(ready) : Owner(r) # xr) => DistinctEntries(u)
    BY <1>0, PushOrNot
  <2>3. s1 = u
    BY <1>11
  <2> HIDE DEF u
  <2> QED BY <2>1, <2>2, <2>3, <1>0
<1>19. Owner(Resume(xr)) = xr /\ Owner(Resume(xw)) = xw
  BY EntryIs
<1>20. /\ ready' \in Seq(Entry) /\ DistinctEntries(ready')
       /\ Range(ready') = Range(s1) \cup (IF ww THEN {Resume(xw)} ELSE {})
  <2> DEFINE u == s1 \o (IF ww THEN <<Resume(xw)>> ELSE <<>>)
  <2>1. xw # None => xw # xr
    BY <1>9, <1>10, <1>14, <1>17
  <2>2. ww /\ xw # None => \A r \in Range(s1) : Owner(r) # xw
    BY <1>10, <1>14, <1>17, <1>18, <1>19, <2>1
  <2>3. /\ u \in Seq(Entry) /\ Range(u) = Range(s1) \cup (IF ww THEN {Resume(xw)} ELSE {})
        /\ DistinctEntries(s1) /\ (ww /\ xw # None => \A r \in Range(s1) : Owner(r) # xw) => DistinctEntries(u)
    BY <1>18, PushOrNot
  <2>4. ready' = u
    BY <1>13
  <2> HIDE DEF u
  <2> QED BY <2>2, <2>3, <2>4, <1>18
<1>21. \A r \in Range(ready') : r \in Range(ready) \/ \E e \in Events : Woken(e, es) /\ r = Resume(exec[fd][e])
  BY <1>7, <1>8, <1>9, <1>10, <1>14, <1>18, <1>20
<1>22. /\ Range(ready) \subseteq Range(ready')
       /\ \A e \in Events : Woken(e, es) => Resume(exec[fd][e]) \in Range(ready')
  BY <1>7, <1>8, <1>9, <1>10, <1>14, <1>18, <1>20
<1>23. reg' \in [Fds -> SUBSET Events] /\ ep' \in [Fds -> (SUBSET Events) \cup {Absent}]
  <2>1. reg' \in [Fds -> SUBSET Events]
    BY <1>0, <1>12, <1>16
  <2>2. PICK x \in (SUBSET Events) \cup {Absent} : x = IF left = {} THEN Absent ELSE left
    BY <1>16
  <2>3. ep' = ep \/ ep' = [ep EXCEPT ![fd] = x]
    BY <1>12, <2>2
  <2>4. ep' \in [Fds -> (SUBSET Events) \cup {Absent}]
    BY <1>0, <2>3
  <2> QED BY <2>1, <2>4
<1>24. exec' \in [Fds -> [Events -> Coroutines \cup {None}]]
  BY <1>0, <1>12
<1>25. /\ reg'[fd] = left /\ \A g \in Fds \ {fd} : reg'[g] = reg[g] /\ exec'[g] = exec[g] /\ ep'[g] = ep[g]
       /\ \A e \in Events : exec'[fd][e] = IF Woken(e, es) THEN None ELSE exec[fd][e]
  BY <1>0, <1>12
<1>26. evq' \in Seq(Event) /\ Len(evq') = Len(evq) - 1 /\ \A i \in 1..Len(evq') : i + 1 \in 1..Len(evq) /\ evq'[i] = evq[i + 1]
  BY <1>0, <1>12
<1>27. IoTypes'
  BY <1>12, <1>20, <1>23, <1>24, <1>26 DEF IoInv, IoTypes
<1>28. TableMatchesEpoll'
  <2>1. ep'[fd] = IF left = {} THEN Absent ELSE left
    <3>1. CASE left = reg[fd]
      BY <3>1, <1>4, <1>5, <1>12
    <3>2. CASE left # reg[fd]
      BY <3>2, <1>0, <1>12
    <3> QED BY <3>1, <3>2
  <2> QED BY <2>1, <1>25 DEF IoInv, TableMatchesEpoll
<1>29. TableOK'
  <2> SUFFICES ASSUME NEW g \in Fds, NEW e \in Events
               PROVE  IF e \in reg'[g]
                      THEN exec'[g][e] \in Coroutines /\ co[exec'[g][e]].at \in {"io", "connect"}
                             /\ co[exec'[g][e]].fd = g /\ co[exec'[g][e]].ev = e
                      ELSE exec'[g][e] = None
    BY <1>12 DEF TableOK, Waits
  <2>1. IF e \in reg[g]
        THEN exec[g][e] \in Coroutines /\ co[exec[g][e]].at \in {"io", "connect"}
               /\ co[exec[g][e]].fd = g /\ co[exec[g][e]].ev = e
        ELSE exec[g][e] = None
    BY DEF IoInv, TableOK, Waits
  <2>2. CASE g # fd
    BY <2>1, <2>2, <1>25
  <2>3. CASE g = fd
    BY <2>1, <2>3, <1>15, <1>25
  <2> QED BY <2>2, <2>3
<1>30. FramesOK' /\ KernelOK' /\ ThreadOK' /\ NoTimerLeak'
  BY <1>0, <1>12 DEF IoInv, FramesOK, Waits, KernelOK, ThreadOK, NoTimerLeak
<1>31. EventsOK'
  <2>1. \A i, j \in 1..Len(evq) : i # j => evq[i].fd # evq[j].fd
    BY DEF IoInv, EventsOK
  <2>2. ASSUME NEW i \in 1..Len(evq')
        PROVE  evq'[i].fd \in Fds /\ evq'[i].fd # fd
    <3>1. i + 1 \in 1..Len(evq) /\ i + 1 # 1 /\ evq'[i] = evq[i + 1] /\ evq[i + 1] \in Event
      BY <1>0, <1>26
    <3>2. evq[i + 1].fd # evq[1].fd
      BY <2>1, <3>1, <1>1
    <3> QED BY <3>1, <3>2, <1>1, <1>2 DEF Event
  <2>3. ASSUME NEW i \in 1..Len(evq')
        PROVE  LET h == evq'[i].fd
                   ee == evq'[i].es
               IN  /\ reg'[h] # {} /\ ee # {} /\ ee \cap Events \subseteq reg'[h]
                   /\ Hup \in ee => reg'[h] \subseteq ee
                   /\ ee \cap {Write, Hup} # {} => conn'[h] # "pending"
    <3>1. i + 1 \in 1..Len(evq) /\ evq'[i] = evq[i + 1] /\ reg'[evq'[i].fd] = reg[evq'[i].fd] /\ conn' = conn
      BY <1>12, <1>25, <1>26, <2>2
    <3> QED BY <3>1 DEF IoInv, EventsOK
  <2>4. \A i, j \in 1..Len(evq') : i # j => evq'[i].fd # evq'[j].fd
    BY <1>26, <2>1
  <2> QED BY <2>3, <2>4, <1>0, <1>12 DEF EventsOK
<1>32. ASSUME NEW r \in Range(ready') PROVE EntryOK(r)'
  <2>1. CASE r \in Range(ready)
    BY <2>1, <1>12 DEF IoInv, WakesOK, EntryOK, Returnable
  <2>2. ASSUME NEW e \in Events, Woken(e, es), r = Resume(exec[fd][e]) PROVE EntryOK(r)'
    <3>1. PICK x \in Coroutines \cup {None} : x = exec[fd][e]
      BY <1>0
    <3>2. ASSUME x # None PROVE Returnable(x)'
      <4>1. Waits(x) /\ co[x].fd = fd /\ co[x].ev = e
        BY <3>1, <3>2, <1>17 DEF InTable
      <4>2. co[x].at = "connect" => e = Write
        BY <4>1, <3>1, <3>2 DEF IoInv, FramesOK
      <4>3. co[x].at = "connect" => conn[fd] # "pending"
        BY <4>2, <2>2, <1>4 DEF Woken
      <4> QED BY <4>1, <4>3, <1>12 DEF Returnable, Waits
    <3>3. r = Resume(x)
      BY <2>2, <3>1
    <3> QED BY <3>2, <3>3 DEF EntryOK, Resume
  <2> QED BY <2>1, <2>2, <1>21
<1>33. WakesOK'
  BY <1>12, <1>20, <1>32 DEF IoInv, WakesOK, TimerOK
<1>34. ASSUME NEW c \in Coroutines PROVE PlaceOK(c)'
  <2> DEFINE Hit == \E e \in Events : Woken(e, es) /\ exec[fd][e] = c
  <2>1. InReady(c)' <=> InReady(c) \/ Hit
    <3>1. \A e \in Events : Owner(Resume(exec[fd][e])) = exec[fd][e]
      BY <1>0, EntryIs
    <3> QED BY <3>1, <1>21, <1>22 DEF InReady
  <2>2. InTable(c) <=> InTable(c)' \/ Hit
    <3>1. Hit => InTable(c)
      BY <1>17
    <3>2. InTable(c)' => InTable(c)
      BY <1>12, <1>16, <1>25 DEF InTable, Waits, IoInv, FramesOK
    <3>3. ASSUME InTable(c), ~InTable(c)' PROVE Hit
      <4>1. co[c].fd = fd /\ co[c].ev \in Events
        BY <3>3, <1>12, <1>25 DEF InTable, Waits, IoInv, FramesOK, IoTypes, Frame
      <4>2. Woken(co[c].ev, es)
        BY <3>3, <4>1, <1>12, <1>15, <1>25 DEF InTable, Waits
      <4>3. exec[fd][co[c].ev] = c
        BY <3>3, <4>1, WokenIs
      <4> QED BY <4>1, <4>2, <4>3
    <3> QED BY <3>1, <3>2, <3>3
  <2>3. ~(Hit /\ InTable(c)')
    BY <1>12, <1>15, <1>17, <1>25 DEF InTable
  <2>4. InTable(c) => ~InTimers(c) /\ ~Done(c)
    BY DEF IoInv, WakesOK, TimerOK, InTable, Waits, InTimers, Done
  <2>5. (InTimers(c)' <=> InTimers(c)) /\ (Done(c)' <=> Done(c)) /\ ~Running(c) /\ ~Running(c)'
    BY <1>0, <1>12 DEF InTimers, Done, Running
  <2>6. PlaceOK(c)
    BY DEF IoInv, PlacesOK
  <2> HIDE DEF Hit
  <2> QED BY <2>1, <2>2, <2>3, <2>4, <2>5, <2>6 DEF PlaceOK
<1> QED BY <1>27, <1>28, <1>29, <1>30, <1>31, <1>33, <1>34 DEF IoInv, PlacesOK

\* The invariant holds at first.
LEMMA IoInit == Init => IoInv
<1> SUFFICES ASSUME Init PROVE IoInv
  OBVIOUS
<1> DEFINE A == {Resume(c) : c \in Coroutines}
           g == [c \in Coroutines |-> Resume(c)]
<1>1. IsFiniteSet(A)
  <2>1. g = [x \in Coroutines |-> g[x]] /\ A = {g[x] : x \in Coroutines}
    OBVIOUS
  <2> HIDE DEF g, A
  <2>2. IsFiniteSet({g[x] : x \in Coroutines})
    BY <2>1, Apart, ImageFinite
  <2> QED BY <2>1, <2>2
<1>2. ready \in SetToSeqs(A)
  BY DEF Init
<1>3. \A r \in A : r \in Entry /\ \E c \in Coroutines : r = Resume(c) /\ Owner(r) = c
  BY EntryIs
<1>4. \A c \in Coroutines : Resume(c) \in A /\ Owner(Resume(c)) = c
  BY EntryIs
<1> HIDE DEF A
<1>5. ready \in Seq(A) /\ Range(ready) = A /\ \A i, j \in 1..Len(ready) : i # j => ready[i] # ready[j]
  BY <1>1, <1>2, OrdersOf
<1>6. ready \in Seq(Entry)
  BY <1>3, <1>5
<1>7. DistinctEntries(ready)
  <2> SUFFICES ASSUME NEW i \in 1..Len(ready), NEW j \in 1..Len(ready), i # j, Owner(ready[i]) = Owner(ready[j])
               PROVE  FALSE
    BY DEF DistinctEntries
  <2>1. ready[i] \in A /\ ready[j] \in A
    BY <1>5
  <2>2. ready[i] = ready[j]
    BY <2>1, <1>3
  <2> QED BY <2>2, <1>5
<1>8. InUser \in Frame /\ InUser.at = "user"
  BY DEF InUser, Frame, Events
<1>9. \A c \in Coroutines : co[c] = InUser
  BY DEF Init
<1>10. timers = <<>> /\ Range(timers) = {} /\ evq = <<>> /\ timers \in Seq(Timer) /\ evq \in Seq(Event)
  <2>1. timers = <<>> /\ evq = <<>>
    BY DEF Init
  <2>2. <<>> \in Seq(Timer) /\ <<>> \in Seq(Event)
    OBVIOUS
  <2>3. Range(<<>>) = {}
    BY RangeOne
  <2> QED BY <2>1, <2>2, <2>3, Zenon
<1>11. IoTypes
  <2>1. reg \in [Fds -> SUBSET Events] /\ exec \in [Fds -> [Events -> Coroutines \cup {None}]]
    BY DEF Init
  <2>2. ep \in [Fds -> (SUBSET Events) \cup {Absent}]
    BY DEF Init
  <2>3. /\ open \in SUBSET Fds /\ avail \in [Fds -> SUBSET (Events \cup {Hup})]
        /\ conn \in [Fds -> {"no", "pending", "done"}]
    BY DEF Init
  <2>4. now \in 0..MaxTime /\ limit \in Nat
    BY Apart DEF Init
  <2>5. pc \in Places /\ cur \in Coroutines \cup {None}
    BY DEF Init, Places
  <2>6. co \in [Coroutines -> Frame]
    BY <1>8 DEF Init
  <2>7. calls \in [Coroutines -> 0..MaxCalls]
    BY Apart DEF Init
  <2> QED BY <2>1, <2>2, <2>3, <2>4, <2>5, <2>6, <2>7, <1>6, <1>10, Zenon DEF IoTypes
<1>12. TableMatchesEpoll /\ TableOK /\ KernelOK /\ ThreadOK
  BY DEF Init, TableMatchesEpoll, TableOK, KernelOK, ThreadOK
<1>13. FramesOK
  BY <1>8, <1>9 DEF FramesOK, Waits
<1>14. EventsOK
  BY <1>10 DEF EventsOK
<1>15. WakesOK
  <2>1. \A c \in Coroutines : Returnable(c)
    BY <1>8, <1>9 DEF Returnable
  <2>2. \A c \in Coroutines : EntryOK(Resume(c))
    BY <2>1 DEF EntryOK, Resume
  <2>3. DistinctTimers(timers)
    BY <1>10 DEF DistinctTimers
  <2> QED BY <2>2, <2>3, <1>3, <1>5, <1>7, <1>10 DEF WakesOK
<1>16. PlacesOK
  <2> SUFFICES ASSUME NEW c \in Coroutines PROVE PlaceOK(c)
    BY DEF PlacesOK
  <2>1. InReady(c) /\ ~InTimers(c)
    BY <1>4, <1>5, <1>10 DEF InReady, InTimers
  <2>2. ~InTable(c) /\ ~Running(c) /\ ~Done(c)
    BY <1>8, <1>9 DEF InTable, Waits, Running, Done, Init
  <2> QED BY <2>1, <2>2 DEF PlaceOK
<1>17. NoTimerLeak
  <2>1. {i \in 1..Len(timers) : timers[i].stamp = Forever} = {}
    BY <1>10
  <2>2. {c \in Coroutines : co[c].at = "io"} = {}
    BY <1>8, <1>9
  <2> QED BY <2>1, <2>2 DEF NoTimerLeak
<1> QED BY <1>11, <1>12, <1>13, <1>14, <1>15, <1>16, <1>17 DEF IoInv

\* Every step keeps the invariant.
LEMMA IoStep ==
  ASSUME IoInv, Timeout = 0, CloseBusy = FALSE, HangUps \subseteq {Events}, [Next]_vars
  PROVE  IoInv'
<1>1. CASE LoopStep
  BY <1>1, PopNothingStep, RunTimerStep, GetNextIntervalStep, SecondClockReadStep, EpollWaitStep,
     HandleEventStep, EventsDoneStep DEF LoopStep
<1>2. ASSUME NEW c \in Coroutines, PopCoroutine(c) \/ UserStep(c) \/ ReturnStep(c) \/ Finish(c)
      PROVE  IoInv'
  <2>1. CASE UserStep(c)
    BY <2>1, IoCallStep, SleepInnerStep, ConnectStep, CloseStep, SocketStep DEF UserStep
  <2>2. CASE ReturnStep(c)
    BY <2>2, IoResumeStep, SleepReturnsStep, ConnectReturnsStep DEF ReturnStep
  <2> QED BY <1>2, <2>1, <2>2, PopCoroutineStep, FinishStep
<1>3. ASSUME NEW fd \in Fds, ConnectCompletes(fd) \/ HangUp(fd) \/ \E ev \in Events : BecomesReady(fd, ev)
      PROVE  IoInv'
  BY <1>3, ConnectCompletesStep, HangUpStep, BecomesReadyStep
<1>4. CASE Tick
  BY <1>4, TickStep
<1>5. CASE UNCHANGED vars
  <2>1. UNCHANGED <<table, fdEvents, loop, co>> /\ UNCHANGED <<open, avail, conn, now, calls>>
    BY <1>5 DEF vars, kernel, table
  <2>2. IoTypes' /\ KernelOK' /\ Later
    BY <2>1, Apart DEF IoInv, IoTypes, KernelOK, Later, table, fdEvents, loop
  <2> QED BY <2>1, <2>2, EnvironmentStep
<1> QED BY <1>1, <1>2, <1>3, <1>4, <1>5 DEF Next

-----------------------------------------------------------------------------
(* Theorems.                                                               *)

\* The invariant holds without I/O timeouts and without closing a busy descriptor.
LEMMA IoSafe ==
  ASSUME Timeout = 0, CloseBusy = FALSE, HangUps \subseteq {Events}
  PROVE  Spec => []IoInv
<1>1. IoInv /\ [Next]_vars => IoInv'
  BY IoStep
<1> QED BY <1>1, IoInit, PTL DEF Spec

\* No assertion of epollAdd, epollMod or epollDel fails, and cancelTimer never
\* erases a timer that is not there, whenever connections are reset and whatever
\* the clock does.  An error without IN or OUT breaks it.
THEOREM EpollNeverFails ==
  ASSUME Timeout = 0, CloseBusy = FALSE, HangUps \subseteq {Events}
  PROVE  Spec => []EpollCtlSucceeds
<1>1. IoInv => EpollCtlSucceeds
  BY DEF IoInv, ThreadOK, EpollCtlSucceeds
<1> QED BY <1>1, IoSafe, PTL

\* registered_events is always the set the kernel watches.
THEOREM TableIsEpollSet ==
  ASSUME Timeout = 0, CloseBusy = FALSE, HangUps \subseteq {Events}
  PROVE  Spec => []TableMatchesEpoll
<1>1. IoInv => TableMatchesEpoll
  BY DEF IoInv
<1> QED BY <1>1, IoSafe, PTL

\* Every suspended ioInner has its timer of size_t(-1), and there is no other
\* one: removeTimer goes by the stamp alone and loses none.
THEOREM TimersAreCancelled ==
  ASSUME Timeout = 0, CloseBusy = FALSE, HangUps \subseteq {Events}
  PROVE  Spec => []NoTimerLeak
<1>1. IoInv => NoTimerLeak
  BY DEF IoInv
<1> QED BY <1>1, IoSafe, PTL

\* The places of a coroutine as numbers.
LEMMA InTableIsOne ==
  ASSUME IoInv, NEW c \in Coroutines
  PROVE  Cardinality({p \in Fds \X Events : p[2] \in reg[p[1]] /\ exec[p[1]][p[2]] = c})
           = IF InTable(c) THEN 1 ELSE 0
<1> DEFINE T == {p \in Fds \X Events : p[2] \in reg[p[1]] /\ exec[p[1]][p[2]] = c}
<1>1. CASE InTable(c)
  <2>1. co[c].fd \in Fds /\ co[c].ev \in Events
    BY <1>1 DEF InTable, IoInv, FramesOK, IoTypes, Frame
  <2>2. exec[co[c].fd][co[c].ev] = c /\ co[c].ev \in reg[co[c].fd]
    BY <1>1, <2>1, WokenIs DEF InTable
  <2>3. \A p \in T : p = <<co[c].fd, co[c].ev>>
    BY WokenIs
  <2>4. T = {<<co[c].fd, co[c].ev>>}
    BY <2>1, <2>2, <2>3
  <2> HIDE DEF T
  <2>5. Cardinality(T) = 1
    BY <2>4, FS_Singleton
  <2> QED BY <1>1, <2>5 DEF T
<1>2. CASE ~InTable(c)
  <2>1. T = {}
    BY <1>2, WokenIs
  <2> HIDE DEF T
  <2>2. Cardinality(T) = 0
    BY <2>1, FS_EmptySet
  <2> QED BY <1>2, <2>2 DEF T
<1> QED BY <1>1, <1>2

\* A coroutine that is among the timers is there once.
LEMMA InTimersIsOne ==
  ASSUME IoInv, NEW c \in Coroutines
  PROVE  Cardinality({i \in 1..Len(timers) : timers[i].owner = c /\ timers[i].stamp # Forever})
           = IF InTimers(c) THEN 1 ELSE 0
<1> DEFINE T == {i \in 1..Len(timers) : timers[i].owner = c /\ timers[i].stamp # Forever}
<1>0. Range(timers) = {timers[i] : i \in 1..Len(timers)} /\ DistinctTimers(timers)
  BY RangeIs DEF IoInv, IoTypes, WakesOK
<1>1. CASE InTimers(c)
  <2>1. PICK k \in 1..Len(timers) : timers[k].owner = c /\ Sleeping(timers[k])
    BY <1>0, <1>1 DEF InTimers
  <2>2. T = {k}
    BY <1>0, <2>1 DEF DistinctTimers, Sleeping
  <2> HIDE DEF T
  <2>3. Cardinality(T) = 1
    BY <2>2, FS_Singleton
  <2> QED BY <1>1, <2>3 DEF T
<1>2. CASE ~InTimers(c)
  <2>1. T = {}
    BY <1>0, <1>2 DEF InTimers, Sleeping
  <2> HIDE DEF T
  <2>2. Cardinality(T) = 0
    BY <2>1, FS_EmptySet
  <2> QED BY <1>2, <2>2 DEF T
<1> QED BY <1>1, <1>2

\* A coroutine that is in the ready list is there once.
LEMMA InReadyIsOne ==
  ASSUME IoInv, NEW c \in Coroutines
  PROVE  Cardinality({i \in 1..Len(ready) : ready[i] = Resume(c)}) + Cardinality({t \in Queued : t.owner = c})
           = IF InReady(c) THEN 1 ELSE 0
<1> DEFINE R == {i \in 1..Len(ready) : ready[i] = Resume(c)}
           Q == {t \in Queued : t.owner = c}
           J == {j \in 1..Len(ready) : ready[j].run = "timer"}
<1>0. /\ Range(ready) = {ready[i] : i \in 1..Len(ready)} /\ DistinctEntries(ready)
      /\ \A i \in 1..Len(ready) : ready[i] \in Entry
  BY RangeIs DEF IoInv, IoTypes, WakesOK
<1>1. c # None /\ Resume(c).run # "timer" /\ Owner(Resume(c)) = c
  BY Apart, EntryIs DEF Resume
<1>2. \A j \in J : Owner(ready[j]) = ready[j].timer.owner
  BY DEF Owner
<1>3. Queued = {ready[j].timer : j \in J}
  BY DEF Queued
<1> HIDE DEF J
<1>4. Q = {ready[j].timer : j \in {i \in J : Owner(ready[i]) = c}}
  BY <1>2, <1>3
<1>5. CASE InReady(c)
  <2>1. PICK k \in 1..Len(ready) : Owner(ready[k]) = c
    BY <1>0, <1>5 DEF InReady
  <2>2. \A i \in 1..Len(ready) : Owner(ready[i]) = c => i = k
    BY <1>0, <1>1, <2>1 DEF DistinctEntries
  <2>3. CASE ready[k].run = "timer"
    <3>1. R = {}
      BY <1>1, <2>2, <2>3
    <3>2. Q = {ready[k].timer}
      BY <1>4, <2>1, <2>2, <2>3 DEF J
    <3> HIDE DEF R, Q
    <3>3. Cardinality(R) = 0 /\ Cardinality(Q) = 1
      BY <3>1, <3>2, FS_EmptySet, FS_Singleton
    <3> QED BY <1>5, <3>3 DEF R, Q
  <2>4. CASE ready[k].run # "timer"
    <3>1. ready[k] = Resume(c)
      <4>1. ready[k] \in [run : {"executor"}, who : Coroutines \cup {None}]
        BY <1>0, <2>4 DEF Entry
      <4>2. ready[k].who = c
        BY <2>1, <2>4 DEF Owner
      <4> QED BY <4>1, <4>2 DEF Resume
    <3>2. R = {k}
      BY <1>1, <2>2, <3>1
    <3>3. Q = {}
      BY <1>4, <2>2, <2>4 DEF J
    <3> HIDE DEF R, Q
    <3>4. Cardinality(R) = 1 /\ Cardinality(Q) = 0
      BY <3>2, <3>3, FS_EmptySet, FS_Singleton
    <3> QED BY <1>5, <3>4 DEF R, Q
  <2> QED BY <2>3, <2>4
<1>6. CASE ~InReady(c)
  <2>1. R = {}
    BY <1>0, <1>1, <1>6 DEF InReady
  <2>2. Q = {}
    BY <1>0, <1>4, <1>6 DEF InReady, J
  <2> HIDE DEF R, Q
  <2>3. Cardinality(R) = 0 /\ Cardinality(Q) = 0
    BY <2>1, <2>2, FS_EmptySet
  <2> QED BY <1>6, <2>3 DEF R, Q
<1> QED BY <1>5, <1>6

\* A suspended coroutine has exactly one thing that will resume it, and one
\* that runs or has returned has none.
THEOREM WokenExactlyOnce ==
  ASSUME Timeout = 0, CloseBusy = FALSE, HangUps \subseteq {Events}
  PROVE  Spec => []OneWake
<1>1. ASSUME IoInv PROVE OneWake
  <2> SUFFICES ASSUME NEW c \in Coroutines
               PROVE  Wakes(c) = IF co[c].at = "done" \/ (pc = "run" /\ cur = c) THEN 0 ELSE 1
    BY DEF OneWake
  <2> DEFINE A == Cardinality({p \in Fds \X Events : p[2] \in reg[p[1]] /\ exec[p[1]][p[2]] = c})
             B == Cardinality({i \in 1..Len(ready) : ready[i] = Resume(c)})
             C == Cardinality({i \in 1..Len(timers) : timers[i].owner = c /\ timers[i].stamp # Forever})
             D == Cardinality({t \in Queued : t.owner = c})
  <2>1. A = IF InTable(c) THEN 1 ELSE 0
    BY <1>1, InTableIsOne
  <2>2. C = IF InTimers(c) THEN 1 ELSE 0
    BY <1>1, InTimersIsOne
  <2>3. B + D = IF InReady(c) THEN 1 ELSE 0
    BY <1>1, InReadyIsOne
  <2>4. Wakes(c) = A + B + C + D
    BY DEF Wakes
  <2>5. B \in Nat /\ D \in Nat
    <3>1. ready \in Seq(Entry)
      BY <1>1 DEF IoInv, IoTypes
    <3> DEFINE J == {j \in 1..Len(ready) : ready[j].run = "timer"}
               f == [j \in J |-> ready[j].timer]
    <3>2. IsFiniteSet(1..Len(ready))
      BY <3>1, FS_Interval
    <3>3. IsFiniteSet({i \in 1..Len(ready) : ready[i] = Resume(c)}) /\ IsFiniteSet(J)
      BY <3>2, FS_Subset
    <3>4. f = [x \in J |-> f[x]] /\ Queued = {f[x] : x \in J}
      BY DEF Queued
    <3> HIDE DEF f, J
    <3>5. IsFiniteSet(Queued)
      BY <3>3, <3>4, ImageFinite
    <3>6. IsFiniteSet({t \in Queued : t.owner = c})
      BY <3>5, FS_Subset
    <3> QED BY <3>3, <3>6, FS_CardinalityType
  <2>6. PlaceOK(c)
    BY <1>1 DEF IoInv, PlacesOK
  <2>7. /\ InTimers(c) => ~InTable(c) /\ ~Done(c)
        /\ InTable(c) => ~Done(c)
    BY <1>1 DEF IoInv, WakesOK, TimerOK, InTable, Waits, InTimers, Done
  <2> HIDE DEF A, B, C, D
  <2>8. A + B + C + D = IF Done(c) \/ Running(c) THEN 0 ELSE 1
    <3>1. A + B + C + D = A + C + (B + D)
      BY <2>1, <2>2, <2>5
    <3> QED BY <3>1, <2>1, <2>2, <2>3, <2>6, <2>7 DEF PlaceOK
  <2> QED BY <2>4, <2>8 DEF Done, Running
<1> QED BY <1>1, IoSafe, PTL

\* co_connect returns after its connect is over, and a sleep returns after
\* its time.
THEOREM ReturnsAreDue ==
  ASSUME Timeout = 0, CloseBusy = FALSE, HangUps \subseteq {Events}
  PROVE  Spec => NoEarlyReturn
<1> DEFINE Due == \A c \in Coroutines :
                    /\ ConnectReturns(c) => conn[co[c].fd] # "pending"
                    /\ SleepReturns(c) => now >= co[c].until
<1>1. ASSUME IoInv PROVE Due
  <2> SUFFICES ASSUME NEW c \in Coroutines
               PROVE  /\ ConnectReturns(c) => conn[co[c].fd] # "pending"
                      /\ SleepReturns(c) => now >= co[c].until
    OBVIOUS
  <2>1. Running(c) => Returnable(c)
    BY <1>1, Alone
  <2>2. now \in Nat /\ co[c].until \in Nat
    BY <1>1, Apart DEF IoInv, IoTypes, Frame
  <2> QED BY <2>1, <2>2 DEF ConnectReturns, SleepReturns, InCall, Running, Returnable
<1>2. IoInv /\ [Next]_vars => [Due]_vars
  BY <1>1
<1>3. Spec => []IoInv
  BY IoSafe
<1>4. Spec => [][Due]_vars
  BY <1>2, <1>3, PTL DEF Spec
<1> QED BY <1>4 DEF NoEarlyReturn
=============================================================================
