--------------------------- MODULE TcpServerProofs ---------------------------
(***************************************************************************)
(* Proofs about TcpServer, for servers that are started once, with sockets *)
(* bound, and whose clients come after the balancer's threads.             *)
(***************************************************************************)
EXTENDS TcpServer, FiniteSetTheorems, SequenceTheorems, WellFoundedInduction, TLAPS

-----------------------------------------------------------------------------
(* Numbers.                                                                *)

\* A non-empty set of numbers has a least element.
LEMMA LeastNumber ==
  ASSUME NEW T \in SUBSET Nat, T # {}
  PROVE  \E m \in T : \A n \in T : m <= n
<1> DEFINE R == OpToRel(<, Nat)
<1>1. IsWellFoundedOn(R, Nat)
  BY NatLessThanWellFounded
<1> HIDE DEF R
<1>2. PICK m \in T : \A n \in T : <<n, m>> \notin R
  BY <1>1, WFMin
<1>3. \A n \in T : ~(n < m)
  BY <1>2 DEF R, OpToRel
<1> QED BY <1>3

\* Min of a non-empty set of descriptors is in it.
LEMMA MinIn ==
  ASSUME NEW T \in SUBSET Fds, T # {}
  PROVE  Min(T) \in T
<1>1. T \in SUBSET Nat
  BY DEF Fds
<1>2. \E m \in T : \A n \in T : m <= n
  BY <1>1, LeastNumber
<1> QED BY <1>2 DEF Min

-----------------------------------------------------------------------------
(* The inductive invariant.                                                *)

Managers  == Threads \cup {Main}
Callbacks == [conn : Conns \cup {NoConn}, arg : Nat]

Backlogs == [use : {"listen"}, addr : Addrs, reuse : BOOLEAN, pend : SUBSET Conns]
Sockets  == {Free} \cup [use : {"socket"}, reuse : BOOLEAN] \cup Backlogs
              \cup [use : {"conn"}, conn : Conns]

Acceptors == [fd : Fds, addr : Addrs, at : {"check", "accept", "ended"}]
Listeners == [fd : Fds \cup {None}, addr : Addrs]
Items     == [run : {"acceptor"}, id : Nat] \cup [run : {"callback"}, cb : Callbacks]
               \cup [run : {"closer"}]

NetTypes ==
  /\ sock \in [Fds -> Sockets]
  /\ reg \in [Fds -> BOOLEAN]
  /\ waiter \in [Fds -> Nat]

ServerTypes ==
  /\ listen \in Seq(Listeners)
  /\ initer \in BOOLEAN
  /\ life \in {"alive", "joining", "gone", "crashed"}

LoopTypes ==
  /\ acc \in Seq(Acceptors)
  /\ ready \in Seq(Items)
  /\ cur \in Nat

BalTypes ==
  /\ kind \in {"simple", "random", "sequence", "prio"}
  /\ managers \in Seq(Managers)
  /\ count \in 0..(Cardinality(Threads) - 1)

TcpTypes == NetTypes /\ ServerTypes /\ LoopTypes /\ BalTypes

\* The listening socket of acceptor i is open and in the server's list.
OnList(f) == \E k \in DOMAIN listen : listen[k].fd = f

Open(i) ==
  /\ sock[acc[i].fd].use = "listen"
  /\ sock[acc[i].fd].addr = acc[i].addr
  /\ OnList(acc[i].fd)

QueuedAcceptor(j) == ready[j].run = "acceptor"

\* Acceptors that run, are queued or wait are acceptors that have not ended, on
\* open sockets.
RunsOpen == cur # None => cur \in DOMAIN acc /\ acc[cur].at # "ended" /\ Open(cur)

QueuedOpen ==
  \A j \in DOMAIN ready : QueuedAcceptor(j) =>
    ready[j].id \in DOMAIN acc /\ acc[ready[j].id].at # "ended" /\ Open(ready[j].id)

WaitsOpen ==
  \A f \in Fds : waiter[f] # None =>
    /\ waiter[f] \in DOMAIN acc
    /\ acc[waiter[f]].at = "accept" /\ acc[waiter[f]].fd = f
    /\ reg[f] /\ Open(waiter[f])

\* An acceptor is in one place.
OnePlace ==
  /\ \A j, k \in DOMAIN ready :
       QueuedAcceptor(j) /\ QueuedAcceptor(k) /\ ready[j].id = ready[k].id => j = k
  /\ \A j \in DOMAIN ready : QueuedAcceptor(j) =>
       ready[j].id # cur /\ \A f \in Fds : waiter[f] # ready[j].id
  /\ cur # None => \A f \in Fds : waiter[f] # cur

\* The executor of stopServe is behind all acceptors, and the server, started once,
\* does not serve again.
CloserLast ==
  /\ acc = <<>> => ~serving
  /\ \A j \in DOMAIN ready : ready[j].run = "closer" =>
       /\ ~serving /\ acc # <<>>
       /\ \A k \in DOMAIN ready : QueuedAcceptor(k) => k < j

\* While the server lives its list names sockets that listen.
ListOpen ==
  \A i \in DOMAIN listen :
    /\ listen[i].fd = None => acc # <<>>
    /\ life = "alive" /\ listen[i].fd # None =>
         sock[listen[i].fd].use = "listen" /\ sock[listen[i].fd].addr = listen[i].addr

\* An executor of startServe or stopServe that has not ended holds the server.
HoldersAlive ==
  (\E i \in DOMAIN acc : acc[i].at # "ended") \/ (\E i \in DOMAIN ready : ready[i].run = "closer")
    => life \in {"alive", "crashed"}

\* Clients come when all managers are published.
NotEarly == \A f \in Fds : sock[f].use = "listen" /\ sock[f].pend # {} => Published

TcpInv ==
  /\ TcpTypes /\ RunsOpen /\ QueuedOpen /\ WaitsOpen /\ OnePlace /\ CloserLast
  /\ ListOpen /\ NotEarly /\ HoldersAlive

-----------------------------------------------------------------------------
(* bind.                                                                   *)

Nets == [sock : [Fds -> Sockets], listen : Seq(Listeners), ok : BOOLEAN]

\* What binding adds to descriptors and list n: m has new sockets, without
\* connections, in place of free descriptors, and what is new in its list listens.
Extends(n, m) ==
  /\ \A f \in Fds : IF n.sock[f] = Free
                    THEN m.sock[f].use = "listen" => m.sock[f].pend = {}
                    ELSE m.sock[f] = n.sock[f]
  /\ Len(n.listen) <= Len(m.listen)
  /\ \A i \in 1..Len(n.listen) : m.listen[i] = n.listen[i]
  /\ \A i \in (Len(n.listen) + 1)..Len(m.listen) :
       /\ m.listen[i].fd \in Fds
       /\ m.sock[m.listen[i].fd].use = "listen"
       /\ m.sock[m.listen[i].fd].addr = m.listen[i].addr

\* Binding nothing extends.
LEMMA ExtendsRefl ==
  ASSUME NEW n \in Nets
  PROVE  Extends(n, n)
<1>1. Len(n.listen) \in Nat
  BY DEF Nets
<1>2. Free.use # "listen"
  BY DEF Free
<1> QED BY <1>1, <1>2 DEF Extends

\* Binding twice extends.
LEMMA ExtendsTrans ==
  ASSUME NEW n \in Nets, NEW m \in Nets, NEW k \in Nets, Extends(n, m), Extends(m, k)
  PROVE  Extends(n, k)
<1>1. Len(n.listen) \in Nat /\ Len(m.listen) \in Nat /\ Len(k.listen) \in Nat
  BY DEF Nets
<1>2. Free.use # "listen"
  BY DEF Free
<1>3. ASSUME NEW f \in Fds
      PROVE  IF n.sock[f] = Free THEN k.sock[f].use = "listen" => k.sock[f].pend = {}
             ELSE k.sock[f] = n.sock[f]
  BY <1>2 DEF Extends
<1>4. Len(n.listen) <= Len(k.listen) /\ \A i \in 1..Len(n.listen) : k.listen[i] = n.listen[i]
  BY <1>1 DEF Extends
<1>5. ASSUME NEW i \in (Len(n.listen) + 1)..Len(k.listen)
      PROVE  /\ k.listen[i].fd \in Fds
             /\ k.sock[k.listen[i].fd].use = "listen"
             /\ k.sock[k.listen[i].fd].addr = k.listen[i].addr
  <2>1. CASE i > Len(m.listen)
    <3>1. i \in (Len(m.listen) + 1)..Len(k.listen)
      BY <2>1, <1>1
    <3> QED BY <3>1 DEF Extends
  <2>2. CASE i <= Len(m.listen)
    <3>1. i \in 1..Len(m.listen) /\ i \in (Len(n.listen) + 1)..Len(m.listen)
      BY <2>2, <1>1
    <3>2. k.listen[i] = m.listen[i] /\ m.listen[i].fd \in Fds
          /\ m.sock[m.listen[i].fd].use = "listen"
          /\ m.sock[m.listen[i].fd].addr = m.listen[i].addr
      BY <3>1 DEF Extends
    <3>3. k.sock[m.listen[i].fd] = m.sock[m.listen[i].fd]
      BY <3>2, <1>2 DEF Extends
    <3> QED BY <3>2, <3>3
  <2> QED BY <2>1, <2>2, <1>1
<1> QED BY <1>3, <1>4, <1>5 DEF Extends

\* What socket() and listen make.
LEMMA SocketKinds ==
  ASSUME NEW a \in Addrs, NEW r \in BOOLEAN
  PROVE  /\ New(r) \in Sockets /\ New(r).use = "socket"
         /\ Listening(a, r) \in Sockets
         /\ Listening(a, r).use = "listen" /\ Listening(a, r).addr = a
         /\ Listening(a, r).pend = {}
  BY DEF New, Listening, Sockets, Backlogs

\* One bindOne, successful or not, extends.
LEMMA BindOneExtends ==
  ASSUME NEW n \in Nets, NEW a \in Addrs, initer \in BOOLEAN
  PROVE  BindOne(n, a) \in Nets /\ Extends(n, BindOne(n, a))
<1> DEFINE m == BindOne(n, a)
           f == Min({g \in Fds : n.sock[g] = Free})
<1>0. n.sock \in [Fds -> Sockets] /\ n.listen \in Seq(Listeners) /\ n.ok \in BOOLEAN
      /\ n = [sock |-> n.sock, listen |-> n.listen, ok |-> n.ok] /\ Len(n.listen) \in Nat
  BY DEF Nets
<1>1. CASE \A g \in Fds : n.sock[g] # Free
  <2>1. m = [n EXCEPT !.ok = FALSE]
    BY <1>1 DEF BindOne
  <2>2. m = [sock |-> n.sock, listen |-> n.listen, ok |-> FALSE]
    BY <2>1, <1>0
  <2> HIDE DEF m
  <2>3. m \in Nets /\ m.sock = n.sock /\ m.listen = n.listen
    BY <2>2, <1>0 DEF Nets
  <2>4. Extends(n, m)
    BY <2>3, ExtendsRefl DEF Extends
  <2> QED BY <2>3, <2>4 DEF m
<1>2. CASE ~(\A g \in Fds : n.sock[g] # Free) /\ InUse(n.sock, a, initer)
  <2>1. f \in Fds /\ n.sock[f] = Free
    BY <1>2, MinIn
  <2>2. m = [n EXCEPT !.sock[f] = New(initer), !.ok = FALSE]
    BY <1>2 DEF BindOne
  <2> HIDE DEF f
  <2>3. m = [sock |-> [n.sock EXCEPT ![f] = New(initer)], listen |-> n.listen, ok |-> FALSE]
    BY <2>2, <1>0
  <2> HIDE DEF m
  <2>4. New(initer) \in Sockets /\ New(initer).use = "socket"
    BY SocketKinds
  <2>5. m.sock = [n.sock EXCEPT ![f] = New(initer)] /\ m.listen = n.listen
    BY <2>3
  <2>6. m \in Nets
    BY <2>3, <2>4, <1>0 DEF Nets
  <2>7. Extends(n, m)
    <3>1. ASSUME NEW g \in Fds
          PROVE  IF n.sock[g] = Free THEN m.sock[g].use = "listen" => m.sock[g].pend = {}
                 ELSE m.sock[g] = n.sock[g]
      BY <2>5, <2>4, <2>1, <1>0 DEF Free
    <3> QED BY <3>1, <2>5, <1>0 DEF Extends
  <2> QED BY <2>6, <2>7 DEF m
<1>3. CASE ~(\A g \in Fds : n.sock[g] # Free) /\ ~InUse(n.sock, a, initer)
  <2> DEFINE l == [fd |-> f, addr |-> a]
  <2>1. f \in Fds /\ n.sock[f] = Free
    BY <1>3, MinIn
  <2>2. m = [sock |-> [n.sock EXCEPT ![f] = Listening(a, initer)],
             listen |-> Append(n.listen, l), ok |-> TRUE]
    BY <1>3 DEF BindOne
  <2> HIDE DEF m, f
  <2>3. l \in Listeners /\ l.fd = f /\ l.addr = a
    BY <2>1 DEF Listeners
  <2> HIDE DEF l
  <2>4. m.sock = [n.sock EXCEPT ![f] = Listening(a, initer)] /\ m.listen = Append(n.listen, l)
    BY <2>2
  <2>5. Append(n.listen, l) \in Seq(Listeners) /\ Len(m.listen) = Len(n.listen) + 1
        /\ m.listen[Len(n.listen) + 1] = l /\ \A i \in 1..Len(n.listen) : m.listen[i] = n.listen[i]
    BY <2>3, <2>4, <1>0
  <2>6. m \in Nets
    BY <2>2, <2>5, <1>0, SocketKinds DEF Nets
  <2>7. Extends(n, m)
    <3>1. ASSUME NEW g \in Fds
          PROVE  IF n.sock[g] = Free THEN m.sock[g].use = "listen" => m.sock[g].pend = {}
                 ELSE m.sock[g] = n.sock[g]
      BY <2>4, SocketKinds, <2>1, <1>0 DEF Free
    <3>2. m.sock[f] = Listening(a, initer)
      BY <2>4, <2>1, <1>0
    <3>3. \A i \in (Len(n.listen) + 1)..Len(m.listen) : i = Len(n.listen) + 1
      BY <2>5, <1>0
    <3> QED BY <3>1, <3>2, <3>3, <2>5, <2>1, <2>3, <1>0, SocketKinds DEF Extends
  <2> QED BY <2>6, <2>7 DEF m
<1> QED BY <1>1, <1>2, <1>3

\* A list of one address or of two is bound one by one.
LEMMA BoundExtends ==
  ASSUME NEW addrs \in Lists, initer \in BOOLEAN, NEW n0 \in Nets,
         n0 = [sock |-> sock, listen |-> listen, ok |-> TRUE]
  PROVE  Bound(addrs) \in Nets /\ Extends(n0, Bound(addrs))
<1> DEFINE step(n, a) == IF n.ok THEN BindOne(n, a) ELSE n
           N == Len(addrs)
           F(f) == [k \in 0..N |-> IF k = 0 THEN n0 ELSE step(f[k - 1], addrs[k])]
<1>1. addrs[1] \in Addrs /\ (N = 1 \/ (N = 2 /\ addrs[2] \in Addrs))
  <2>1. CASE addrs \in {<<a>> : a \in Addrs}
    BY <2>1
  <2>2. CASE addrs \in {<<a, b>> : a \in Addrs, b \in Addrs}
    <3>1. PICK a \in Addrs, b \in Addrs : addrs = <<a, b>>
      BY <2>2
    <3> QED BY <3>1
  <2>3. addrs \in {<<a>> : a \in Addrs} \/ addrs \in {<<a, b>> : a \in Addrs, b \in Addrs}
    BY DEF Lists
  <2> QED BY <2>1, <2>2, <2>3
<1>2. ASSUME NEW n \in Nets, NEW a \in Addrs
      PROVE  step(n, a) \in Nets /\ Extends(n, step(n, a))
  BY BindOneExtends, ExtendsRefl
<1> DEFINE after == CHOOSE f : f = F(f)
<1>3. Bound(addrs) = after[N]
  BY DEF Bound
<1> DEFINE g == [k \in 0..N |-> IF k = 0 THEN n0 ELSE IF k = 1 THEN step(n0, addrs[1])
                                ELSE step(step(n0, addrs[1]), addrs[2])]
<1> HIDE DEF step, N
<1>4. g = F(g)
  <2>1. \A k \in 0..N : k = 0 \/ k = 1 \/ k = 2
    BY <1>1
  <2>2. ASSUME NEW k \in 0..N
        PROVE  g[k] = IF k = 0 THEN n0 ELSE step(g[k - 1], addrs[k])
    <3>1. CASE k = 0
      BY <3>1
    <3>2. CASE k = 1
      BY <3>2, <1>1
    <3>3. CASE k = 2
      <4>1. g[2] = step(step(n0, addrs[1]), addrs[2])
        BY <3>3
      <4>2. g[1] = step(n0, addrs[1])
        BY <1>1
      <4> QED BY <3>3, <4>1, <4>2
    <3> QED BY <2>1, <3>1, <3>2, <3>3
  <2> QED BY <2>2
<1> HIDE DEF g, after
<1>5. after = F(after)
  BY <1>4 DEF after
<1>6. after[1] = step(n0, addrs[1])
  <2>1. 0 \in 0..N /\ 1 \in 0..N
    BY <1>1
  <2>2. after[0] = n0
    BY <1>5, <2>1
  <2>3. \A k \in 0..N : k # 0 => after[k] = step(after[k - 1], addrs[k])
    BY <1>5
  <2>4. after[1] = step(after[0], addrs[1])
    BY <2>1, <2>3
  <2> QED BY <2>2, <2>4
<1>7. after[1] \in Nets /\ Extends(n0, after[1])
  BY <1>6, <1>2, <1>1
<1>8. CASE N = 1
  BY <1>8, <1>3, <1>7
<1>9. CASE N = 2 /\ addrs[2] \in Addrs
  <2>1. after[2] = step(after[1], addrs[2])
    BY <1>5, <1>9
  <2>2. after[2] \in Nets /\ Extends(after[1], after[2])
    BY <2>1, <1>7, <1>2, <1>9
  <2> QED BY <2>2, <1>3, <1>7, <1>9, ExtendsTrans
<1> QED BY <1>1, <1>8, <1>9

-----------------------------------------------------------------------------
(* What most steps leave alone.                                            *)

\* Listening sockets and the server's list are kept.
SocketsKept ==
  /\ \A f \in Fds : sock[f].use = "listen" =>
       sock'[f].use = "listen" /\ sock'[f].addr = sock[f].addr
  /\ \A k \in DOMAIN listen : k \in DOMAIN listen' /\ listen'[k] = listen[k]

\* The acceptors are kept; the one that runs may go on.
AcceptorsKept ==
  /\ DOMAIN acc' = DOMAIN acc
  /\ acc' = <<>> => acc = <<>>
  /\ \A i \in DOMAIN acc :
       /\ acc'[i].fd = acc[i].fd /\ acc'[i].addr = acc[i].addr
       /\ i # cur => acc'[i].at = acc[i].at
       /\ i = cur => acc'[i].at # "ended"

\* The ready list is kept but for d entries taken from its front, and callbacks.
Moved(d, j) == j + d \in DOMAIN ready /\ ready'[j] = ready[j + d]
ReadyKept(d) == \A j \in DOMAIN ready' : ready'[j].run # "callback" => Moved(d, j)

\* The socket of an acceptor stays open when listening sockets and list are kept.
LEMMA OpenKept ==
  ASSUME SocketsKept, TcpTypes, NEW i \in DOMAIN acc, acc'[i].fd = acc[i].fd,
         acc'[i].addr = acc[i].addr, Open(i)
  PROVE  Open(i)'
<1>1. acc[i].fd \in Fds
  <2>1. acc \in Seq(Acceptors)
    BY DEF TcpTypes, LoopTypes
  <2>2. acc[i] \in Acceptors
    BY <2>1
  <2> QED BY <2>2 DEF Acceptors
<1>2. OnList(acc[i].fd)
  BY DEF Open
<1>3. \E k \in DOMAIN listen' : listen'[k].fd = acc'[i].fd
  BY <1>2 DEF OnList, SocketsKept
<1>4. OnList(acc[i].fd)'
  BY <1>3 DEF OnList
<1> QED BY <1>1, <1>4 DEF Open, SocketsKept

\* The acceptors stay where they are when only callbacks come and go.
LEMMA LoopKept ==
  ASSUME TcpInv, SocketsKept, AcceptorsKept, NEW d \in Nat, ReadyKept(d),
         UNCHANGED <<waiter, reg, cur, life, serving>>
  PROVE  /\ RunsOpen' /\ QueuedOpen' /\ WaitsOpen' /\ OnePlace' /\ CloserLast' /\ HoldersAlive'
<1> USE DEF TcpInv
<1>0. \A j \in DOMAIN ready' : ready'[j].run = "acceptor" \/ ready'[j].run = "closer" => Moved(d, j)
  BY DEF ReadyKept
<1>1. RunsOpen'
  <2> SUFFICES ASSUME cur # None PROVE cur \in DOMAIN acc' /\ acc'[cur].at # "ended" /\ Open(cur)'
    BY DEF RunsOpen
  <2>1. cur \in DOMAIN acc /\ Open(cur)
    BY DEF RunsOpen
  <2>2. \A i \in DOMAIN acc : Open(i) => Open(i)'
    BY OpenKept DEF AcceptorsKept
  <2>3. PICK i \in DOMAIN acc : i = cur
    BY <2>1
  <2>4. Open(i)'
    BY <2>1, <2>2, <2>3
  <2>5. Open(cur)'
    BY <2>3, <2>4 DEF Open
  <2> QED BY <2>1, <2>5 DEF AcceptorsKept
<1>2. QueuedOpen'
  <2> SUFFICES ASSUME NEW j \in DOMAIN ready', ready'[j].run = "acceptor"
               PROVE  /\ ready'[j].id \in DOMAIN acc'
                      /\ acc'[ready'[j].id].at # "ended" /\ Open(ready[j].id)'
    BY DEF QueuedOpen, QueuedAcceptor
  <2>1. j + d \in DOMAIN ready /\ ready'[j] = ready[j + d]
    BY <1>0 DEF Moved
  <2>2. PICK i \in DOMAIN acc : i = ready[j + d].id /\ acc[i].at # "ended" /\ Open(i) /\ i # cur
    BY <2>1 DEF QueuedOpen, QueuedAcceptor, OnePlace
  <2>3. Open(i)'
    BY <2>2, OpenKept DEF AcceptorsKept
  <2>4. ready'[j].id = i
    BY <2>1, <2>2
  <2> QED BY <2>2, <2>3, <2>4 DEF AcceptorsKept, Open
<1>3. WaitsOpen'
  <2> SUFFICES ASSUME NEW f \in Fds, waiter[f] # None
               PROVE  /\ waiter[f] \in DOMAIN acc'
                      /\ acc'[waiter[f]].at = "accept" /\ acc'[waiter[f]].fd = f
                      /\ reg[f] /\ Open(waiter[f])'
    BY DEF WaitsOpen
  <2>1. PICK i \in DOMAIN acc : /\ i = waiter[f] /\ acc[i].at = "accept" /\ acc[i].fd = f
                                /\ reg[f] /\ Open(i)
    BY DEF WaitsOpen
  <2>2. i # cur
    BY <2>1 DEF OnePlace, RunsOpen
  <2>3. Open(i)'
    BY <2>1, OpenKept DEF AcceptorsKept
  <2> QED BY <2>1, <2>2, <2>3 DEF AcceptorsKept, Open
<1>4. OnePlace'
  <2>0. ready \in Seq(Items) /\ \A j \in DOMAIN ready' : Moved(d, j) => j \in Int
    BY DEF TcpTypes, LoopTypes, Moved
  <2>1. ASSUME NEW j \in DOMAIN ready', NEW k \in DOMAIN ready', ready'[j].run = "acceptor",
               ready'[k].run = "acceptor", ready'[j].id = ready'[k].id
        PROVE  j = k
    <3>1. Moved(d, j) /\ Moved(d, k)
      BY <1>0, <2>1
    <3>2. j + d = k + d
      BY <3>1, <2>1 DEF Moved, OnePlace, QueuedAcceptor
    <3> QED BY <3>1, <3>2, <2>0
  <2>2. ASSUME NEW j \in DOMAIN ready', ready'[j].run = "acceptor"
        PROVE  ready'[j].id # cur /\ \A f \in Fds : waiter[f] # ready'[j].id
    <3>1. Moved(d, j)
      BY <1>0, <2>2
    <3> QED BY <3>1, <2>2 DEF Moved, OnePlace, QueuedAcceptor
  <2> QED BY <2>1, <2>2 DEF OnePlace, QueuedAcceptor
<1>5. CloserLast'
  <2>1. acc' = <<>> => ~serving'
    BY DEF AcceptorsKept, CloserLast
  <2>2. ASSUME NEW j \in DOMAIN ready', ready'[j].run = "closer"
        PROVE  ~serving' /\ acc' # <<>>
    BY <1>0, <2>2 DEF Moved, CloserLast, AcceptorsKept
  <2>3. ASSUME NEW j \in DOMAIN ready', ready'[j].run = "closer",
               NEW k \in DOMAIN ready', ready'[k].run = "acceptor"
        PROVE  k < j
    <3>1. Moved(d, j) /\ Moved(d, k)
      BY <1>0, <2>3
    <3>2. k + d < j + d
      BY <3>1, <2>3 DEF Moved, CloserLast, QueuedAcceptor
    <3>3. j \in Int /\ k \in Int
      BY <3>1 DEF Moved, TcpTypes, LoopTypes
    <3> QED BY <3>2, <3>3
  <2> QED BY <2>1, <2>2, <2>3 DEF CloserLast, QueuedAcceptor
<1>6. HoldersAlive'
  <2>1. ASSUME NEW i \in DOMAIN acc', acc'[i].at # "ended" PROVE life' \in {"alive", "crashed"}
    <3>0. i \in DOMAIN acc /\ i # None
      BY DEF AcceptorsKept, TcpTypes, LoopTypes, None
    <3>1. acc[i].at # "ended"
      BY <2>1, <3>0 DEF AcceptorsKept, RunsOpen
    <3> QED BY <3>0, <3>1 DEF HoldersAlive
  <2>2. ASSUME NEW j \in DOMAIN ready', ready'[j].run = "closer" PROVE life' \in {"alive", "crashed"}
    BY <1>0, <2>2 DEF Moved, HoldersAlive
  <2> QED BY <2>1, <2>2 DEF HoldersAlive
<1> QED BY <1>1, <1>2, <1>3, <1>4, <1>5, <1>6

\* The same when the loop does not move at all.
LEMMA LoopSame ==
  ASSUME TcpInv, SocketsKept, UNCHANGED <<acc, ready, waiter, reg, cur, life, serving>>
  PROVE  RunsOpen' /\ QueuedOpen' /\ WaitsOpen' /\ OnePlace' /\ CloserLast' /\ HoldersAlive'
<1>1. AcceptorsKept
  <2>1. \A i \in DOMAIN acc : i = cur => acc[i].at # "ended"
    <3>1. 0 \notin DOMAIN acc
      BY DEF TcpInv, TcpTypes, LoopTypes
    <3> QED BY <3>1 DEF TcpInv, RunsOpen, None
  <2> QED BY <2>1 DEF AcceptorsKept
<1>2. ReadyKept(0)
  <2>1. \A j \in DOMAIN ready : j + 0 = j
    BY DEF TcpInv, TcpTypes, LoopTypes
  <2> QED BY <2>1 DEF ReadyKept, Moved
<1> QED BY <1>1, <1>2, LoopKept

\* The list keeps naming sockets that listen.
LEMMA ListSame ==
  ASSUME TcpInv, SocketsKept, listen' = listen, life' = life, acc' = <<>> => acc = <<>>
  PROVE  ListOpen'
<1>1. ASSUME NEW i \in DOMAIN listen, listen[i].fd # None PROVE listen[i].fd \in Fds
  <2>1. listen \in Seq(Listeners)
    BY DEF TcpInv, TcpTypes, ServerTypes
  <2>2. listen[i] \in Listeners
    BY <2>1
  <2> QED BY <1>1, <2>2 DEF Listeners
<1> QED BY <1>1 DEF TcpInv, ListOpen, SocketsKept

\* No connection arrives, and the managers published stay.
LEMMA NoneArrives ==
  ASSUME TcpInv, Published => Published',
         \A f \in Fds : sock'[f].use = "listen" /\ sock'[f].pend # {} =>
                          sock[f].use = "listen" /\ sock[f].pend # {}
  PROVE  NotEarly'
  BY DEF TcpInv, NotEarly

\* Managers once published stay so.
LEMMA PublishedStays ==
  ASSUME UNCHANGED <<kind, managers>>, Published
  PROVE  Published'
  BY DEF Published, Starting

-----------------------------------------------------------------------------
(* The actions.                                                            *)

\* bind and addBindAddr.
LEMMA BindsKeeps ==
  ASSUME TcpInv, NEW addrs \in Lists, Binds(addrs)
  PROVE  TcpInv'
<1> DEFINE n0 == [sock |-> sock, listen |-> listen, ok |-> TRUE]
           m  == Bound(addrs)
<1>1. sock \in [Fds -> Sockets] /\ listen \in Seq(Listeners) /\ initer \in BOOLEAN
  BY DEF TcpInv, TcpTypes, NetTypes, ServerTypes
<1>2. n0 \in Nets /\ n0.sock = sock /\ n0.listen = listen
  BY <1>1 DEF Nets
<1>3. m \in Nets /\ Extends(n0, m)
  BY <1>1, <1>2, BoundExtends
<1>4. /\ sock' = m.sock /\ listen' = m.listen
      /\ UNCHANGED <<acc, ready, waiter, reg, cur, life, serving, initer, kind, managers, count>>
  BY DEF Binds, loop, bal
<1> HIDE DEF n0, m
<1>5. sock' \in [Fds -> Sockets] /\ listen' \in Seq(Listeners)
  BY <1>3, <1>4 DEF Nets
<1>6. /\ \A f \in Fds : IF sock[f] = Free THEN sock'[f].use = "listen" => sock'[f].pend = {}
                        ELSE sock'[f] = sock[f]
      /\ Len(listen) <= Len(listen')
      /\ \A i \in 1..Len(listen) : listen'[i] = listen[i]
      /\ \A i \in (Len(listen) + 1)..Len(listen') :
           /\ listen'[i].fd \in Fds
           /\ sock'[listen'[i].fd].use = "listen"
           /\ sock'[listen'[i].fd].addr = listen'[i].addr
  BY <1>2, <1>3, <1>4 DEF Extends
<1>7. Free.use # "listen"
  BY DEF Free
<1>8. DOMAIN listen = 1..Len(listen) /\ DOMAIN listen' = 1..Len(listen')
      /\ Len(listen) \in Nat /\ Len(listen') \in Nat
  BY <1>1, <1>5
<1>9. SocketsKept
  BY <1>6, <1>7, <1>8 DEF SocketsKept
<1>10. RunsOpen' /\ QueuedOpen' /\ WaitsOpen' /\ OnePlace' /\ CloserLast' /\ HoldersAlive'
  BY <1>4, <1>9, LoopSame
<1>11. TcpTypes'
  BY <1>4, <1>5 DEF TcpInv, TcpTypes, NetTypes, ServerTypes, LoopTypes, BalTypes
<1>12. ListOpen'
  <2> SUFFICES ASSUME NEW i \in DOMAIN listen'
               PROVE  /\ listen'[i].fd = None => acc # <<>>
                      /\ life = "alive" /\ listen'[i].fd # None =>
                           /\ sock'[listen'[i].fd].use = "listen"
                           /\ sock'[listen'[i].fd].addr = listen'[i].addr
    BY <1>4 DEF ListOpen
  <2>1. CASE i \in 1..Len(listen)
    <3>1. listen'[i] = listen[i] /\ i \in DOMAIN listen
      BY <2>1, <1>6, <1>8
    <3>2. listen[i].fd \in Fds \cup {None}
      <4>1. listen[i] \in Listeners
        BY <1>1, <3>1
      <4> QED BY <4>1 DEF Listeners
    <3> QED BY <3>1, <3>2, <1>9 DEF TcpInv, ListOpen, SocketsKept
  <2>2. CASE i \notin 1..Len(listen)
    <3>1. i \in (Len(listen) + 1)..Len(listen')
      BY <2>2, <1>8
    <3>2. None \notin Fds
      BY DEF None, Fds
    <3> QED BY <3>1, <3>2, <1>6
  <2> QED BY <2>1, <2>2
<1>13. NotEarly'
  <2>1. \A f \in Fds : sock'[f].use = "listen" /\ sock'[f].pend # {} =>
                          sock[f].use = "listen" /\ sock[f].pend # {}
    BY <1>6
  <2> QED BY <2>1, <1>4, PublishedStays, NoneArrives
<1> QED BY <1>10, <1>11, <1>12, <1>13 DEF TcpInv

\* setSocketIniter.
LEMMA SetSocketIniterKeeps ==
  ASSUME TcpInv, SetSocketIniter
  PROVE  TcpInv'
<1>1. /\ initer' = TRUE
      /\ UNCHANGED <<sock, listen, acc, ready, waiter, reg, cur, life, serving, kind, managers, count>>
  BY DEF SetSocketIniter, net, loop, bal
<1>2. SocketsKept
  BY <1>1 DEF SocketsKept
<1>3. TcpTypes'
  BY <1>1 DEF TcpInv, TcpTypes, NetTypes, ServerTypes, LoopTypes, BalTypes
<1>4. ListOpen'
  BY <1>1, <1>2, ListSame
<1>5. NotEarly'
  BY <1>1, PublishedStays, NoneArrives
<1> QED BY <1>1, <1>2, <1>3, <1>4, <1>5, LoopSame DEF TcpInv

\* A client connects, after all managers are published.
LEMMA ConnectKeeps ==
  ASSUME TcpInv, EarlyClients = FALSE, NEW c \in Conns, Connect(c)
  PROVE  TcpInv'
<1>1. Published /\ UNCHANGED <<listen, initer, acc, ready, waiter, reg, cur, life, serving,
                               kind, managers, count>>
  BY DEF Connect, server, loop, bal
<1>2. PICK f \in Fds : sock[f].use = "listen" /\ sock' = [sock EXCEPT ![f].pend = @ \cup {c}]
  BY DEF Connect
<1>3. sock \in [Fds -> Sockets]
  BY DEF TcpInv, TcpTypes, NetTypes
<1>4. sock[f] \in Backlogs
  BY <1>2, <1>3 DEF Sockets, Free
<1> DEFINE b == [sock[f] EXCEPT !.pend = @ \cup {c}]
<1>5. b \in Backlogs /\ b.use = "listen" /\ b.addr = sock[f].addr
  BY <1>4 DEF Backlogs
<1>6. sock' = [sock EXCEPT ![f] = b]
  BY <1>2
<1> HIDE DEF b
<1>7. sock' \in [Fds -> Sockets]
  BY <1>3, <1>5, <1>6 DEF Sockets
<1>8. SocketsKept
  BY <1>1, <1>2, <1>3, <1>5, <1>6 DEF SocketsKept
<1>9. TcpTypes'
  BY <1>1, <1>7 DEF TcpInv, TcpTypes, NetTypes, ServerTypes, LoopTypes, BalTypes
<1>10. ListOpen'
  BY <1>1, <1>8, ListSame
<1>11. NotEarly'
  BY <1>1, PublishedStays DEF NotEarly
<1> QED BY <1>1, <1>8, <1>9, <1>10, <1>11, LoopSame DEF TcpInv

\* A thread of the balancer adds its manager.
LEMMA PublishKeeps ==
  ASSUME TcpInv, NEW t \in Starting, Publish(t)
  PROVE  TcpInv'
<1>1. /\ managers' = Append(managers, t)
      /\ UNCHANGED <<sock, listen, initer, acc, ready, waiter, reg, cur, life, serving, kind, count>>
  BY DEF Publish, net, server, loop
<1>2. managers \in Seq(Managers)
  BY DEF TcpInv, TcpTypes, BalTypes
<1>3. t \in Managers
  BY DEF Starting, Managers
<1>4. managers' \in Seq(Managers)
  BY <1>1, <1>2, <1>3
<1>5. SocketsKept
  BY <1>1 DEF SocketsKept
<1>6. TcpTypes'
  BY <1>1, <1>4 DEF TcpInv, TcpTypes, NetTypes, ServerTypes, LoopTypes, BalTypes
<1>7. ListOpen'
  BY <1>1, <1>5, ListSame
<1>8. NotEarly'
  <2>1. Range(managers) \subseteq Range(managers')
    <3>1. \A i \in DOMAIN managers : i \in DOMAIN managers' /\ managers'[i] = managers[i]
      BY <1>1, <1>2, <1>3
    <3> QED BY <3>1 DEF Range
  <2>2. Starting' = Starting
    BY <1>1 DEF Starting
  <2>3. Published => Published'
    BY <1>1, <2>1, <2>2 DEF Published
  <2> QED BY <1>1, <2>3, NoneArrives
<1> QED BY <1>1, <1>5, <1>6, <1>7, <1>8, LoopSame DEF TcpInv

\* A callback that ends frees descriptors of connections, and no listening socket.
LEMMA FinishedKeeps ==
  ASSUME TcpInv, NEW t, NEW cb, Finished(t, cb), listen' = listen
  PROVE  /\ sock' \in [Fds -> Sockets] /\ SocketsKept
         /\ \A f \in Fds : sock'[f].use = "listen" => sock'[f] = sock[f]
<1>1. sock \in [Fds -> Sockets]
  BY DEF TcpInv, TcpTypes, NetTypes
<1>2. Free \in Sockets /\ Free.use # "listen" /\ Connected(cb.conn).use # "listen"
  BY DEF Free, Sockets, Connected
<1>3. sock' = [f \in Fds |-> IF sock[f] = Connected(cb.conn) THEN Free ELSE sock[f]]
  BY DEF Finished
<1>4. \A f \in Fds : sock'[f] = Free \/ sock'[f] = sock[f]
  BY <1>3
<1>5. \A f \in Fds : sock[f].use = "listen" => sock'[f] = sock[f]
  BY <1>2, <1>3
<1> QED BY <1>1, <1>2, <1>3, <1>4, <1>5 DEF SocketsKept

\* A thread runs a callback.
LEMMA RunRemoteKeeps ==
  ASSUME TcpInv, NEW t, RunRemote(t)
  PROVE  TcpInv'
<1>1. UNCHANGED <<listen, initer, acc, ready, waiter, reg, cur, life, serving, kind, managers, count>>
  BY DEF RunRemote, server, loop, bal
<1>2. \E cb : Finished(t, cb)
  BY DEF RunRemote
<1>3. /\ sock' \in [Fds -> Sockets] /\ SocketsKept
      /\ \A f \in Fds : sock'[f].use = "listen" => sock'[f] = sock[f]
  BY <1>1, <1>2, FinishedKeeps
<1>4. TcpTypes'
  BY <1>1, <1>3 DEF TcpInv, TcpTypes, NetTypes, ServerTypes, LoopTypes, BalTypes
<1>5. ListOpen'
  BY <1>1, <1>3, ListSame
<1>6. NotEarly'
  BY <1>1, <1>3, PublishedStays, NoneArrives
<1> QED BY <1>1, <1>3, <1>4, <1>5, <1>6, LoopSame DEF TcpInv

\* What Tail does to the ready list.
LEMMA TailMoves ==
  ASSUME ready \in Seq(Items), ready # <<>>, ready' = Tail(ready)
  PROVE  /\ ready' \in Seq(Items)
         /\ 1 \in DOMAIN ready /\ Head(ready) = ready[1] /\ Head(ready) \in Items
         /\ \A j \in DOMAIN ready' : /\ j \in Nat \ {0} /\ j + 1 \in DOMAIN ready
                                     /\ ready'[j] = ready[j + 1]
  OBVIOUS

\* The server's thread runs a callback of its ready list.
LEMMA RunCallbackKeeps ==
  ASSUME TcpInv, RunCallback
  PROVE  TcpInv'
<1>1. UNCHANGED <<listen, initer, acc, waiter, reg, cur, life, serving, kind, managers, count>>
  BY DEF RunCallback, server, bal
<1>2. ready # <<>> /\ ready' = Tail(ready) /\ Finished(Main, Head(ready).cb)
  BY DEF RunCallback, Runs
<1>3. /\ sock' \in [Fds -> Sockets] /\ SocketsKept
      /\ \A f \in Fds : sock'[f].use = "listen" => sock'[f] = sock[f]
  BY <1>1, <1>2, FinishedKeeps
<1>4. ready \in Seq(Items)
  BY DEF TcpInv, TcpTypes, LoopTypes
<1>5. ready' \in Seq(Items) /\ ReadyKept(1)
  BY <1>2, <1>4, TailMoves DEF ReadyKept, Moved
<1>6. AcceptorsKept
  <2>1. \A i \in DOMAIN acc : i = cur => acc[i].at # "ended"
    <3>1. 0 \notin DOMAIN acc
      BY DEF TcpInv, TcpTypes, LoopTypes
    <3> QED BY <3>1 DEF TcpInv, RunsOpen, None
  <2> QED BY <1>1, <2>1 DEF AcceptorsKept
<1>7. TcpTypes'
  BY <1>1, <1>3, <1>5 DEF TcpInv, TcpTypes, NetTypes, ServerTypes, LoopTypes, BalTypes
<1>8. ListOpen'
  BY <1>1, <1>3, ListSame
<1>9. NotEarly'
  BY <1>1, <1>3, PublishedStays, NoneArrives
<1> QED BY <1>1, <1>3, <1>5, <1>6, <1>7, <1>8, <1>9, LoopKept DEF TcpInv

\* When all are published there are at least as many managers as threads.
LEMMA EnoughManagers ==
  ASSUME TcpTypes, Published, kind # "simple"
  PROVE  /\ Cardinality(Threads) \in Nat \ {0}
         /\ Cardinality(Threads) <= Len(managers)
<1>1. managers \in Seq(Managers) /\ Len(managers) \in Nat /\ DOMAIN managers = 1..Len(managers)
  BY DEF TcpTypes, BalTypes
<1>2. IsFiniteSet(1..Len(managers)) /\ Cardinality(1..Len(managers)) = Len(managers)
  BY <1>1, FS_Interval
<1>3. managers \in Surjection(1..Len(managers), Range(managers))
  BY <1>1 DEF Range, Surjection
<1>4. IsFiniteSet(Range(managers)) /\ Cardinality(Range(managers)) <= Len(managers)
  BY <1>2, <1>3, FS_Surjection
<1>5. Threads \subseteq Range(managers)
  BY DEF Published, Starting
<1>6. IsFiniteSet(Threads) /\ Cardinality(Threads) <= Cardinality(Range(managers))
  BY <1>4, <1>5, FS_Subset
<1>7. Cardinality(Threads) \in Nat /\ Cardinality(Range(managers)) \in Nat
  BY <1>4, <1>6, FS_CardinalityType
<1>8. Cardinality(Threads) # 0
  BY <1>6, FS_EmptySet, TcpAssumption
<1> QED BY <1>1, <1>4, <1>6, <1>7, <1>8

\* The missing manager is none of those there are.
LEMMA NobodyIsNoManager == Nobody \notin Managers
<1>1. ASSUME NEW t \in Threads PROVE t # Nobody
  <2>1. PICK l \in Levels, i \in 1..MostOf : t = <<l, i>>
    BY DEF Threads, Workers
  <2>2. l # -2
    BY DEF Levels
  <2> QED BY <2>1, <2>2 DEF Nobody
<1>2. Main # Nobody
  BY DEF Main, Nobody
<1> QED BY <1>1, <1>2 DEF Managers

\* A balancer whose threads have all started chooses one that is there.
LEMMA CandidatesAreManagers ==
  ASSUME TcpTypes, Published, NEW arg
  PROVE  Candidates(arg) \subseteq Managers /\ Nobody \notin Candidates(arg)
<1>1. managers \in Seq(Managers) /\ count \in 0..(Cardinality(Threads) - 1)
      /\ kind \in {"simple", "random", "sequence", "prio"}
  BY DEF TcpTypes, BalTypes
<1>2. CASE kind = "simple"
  BY <1>2, NobodyIsNoManager DEF Candidates, Managers
<1>3. ASSUME kind # "simple", NEW i \in 0..(Cardinality(Threads) - 1) PROVE Slot(i) \in Managers
  <2>1. i < Len(managers) /\ i + 1 \in 1..Len(managers)
    BY <1>3, <1>1, EnoughManagers
  <2>2. Slot(i) = managers[i + 1]
    BY <2>1 DEF Slot
  <2> QED BY <2>1, <2>2, <1>1
<1>4. CASE kind = "random"
  BY <1>3, <1>4, NobodyIsNoManager DEF Candidates
<1>5. CASE kind = "sequence"
  BY <1>1, <1>3, <1>5, NobodyIsNoManager DEF Candidates
<1>6. CASE kind = "prio"
  <2>1. Candidates(arg) \subseteq Range(managers)
    BY <1>6 DEF Candidates, PrioWorkers
  <2>2. Range(managers) \subseteq Managers
    BY <1>1 DEF Range
  <2> QED BY <2>1, <2>2, NobodyIsNoManager
<1> QED BY <1>1, <1>2, <1>4, <1>5, <1>6

\* schedule only adds a callback to the ready list, if anything, and never crashes.
LEMMA ScheduleKeeps ==
  ASSUME TcpInv, Published, NEW c \in Conns \cup {NoConn}, NEW arg \in Nat, Schedule(c, arg)
  PROVE  /\ life' = life
         /\ count' \in 0..(Cardinality(Threads) - 1)
         /\ ready' \in Seq(Items) /\ ReadyKept(0)
<1> DEFINE cb == [conn |-> c, arg |-> arg]
           it == [run |-> "callback", cb |-> cb]
<1>0. TcpTypes /\ count \in 0..(Cardinality(Threads) - 1) /\ ready \in Seq(Items)
  BY DEF TcpInv, TcpTypes, BalTypes, LoopTypes
<1>1. life' = life
  <2>1. CASE Candidates(arg) = {}
    BY <2>1 DEF Schedule
  <2>2. CASE Candidates(arg) # {}
    BY <2>2, <1>0, CandidatesAreManagers DEF Schedule
  <2> QED BY <2>1, <2>2
<1>2. count' \in 0..(Cardinality(Threads) - 1)
  <2>1. CASE kind = "sequence"
    <3>1. count' = (count + 1) % Cardinality(Threads)
      BY <2>1 DEF Schedule, NextCount
    <3>2. Cardinality(Threads) \in Nat \ {0}
      BY <2>1, <1>0, EnoughManagers
    <3> QED BY <3>1, <3>2, <1>0
  <2>2. CASE kind # "sequence"
    BY <2>2, <1>0 DEF Schedule
  <2> QED BY <2>1, <2>2
<1>3. it \in Items /\ it.run = "callback"
  BY DEF Items, Callbacks
<1>4. ready' = ready \/ ready' = Append(ready, it)
  BY DEF Schedule
<1> HIDE DEF it
<1>5. ready' \in Seq(Items)
  BY <1>0, <1>3, <1>4
<1>6. ASSUME NEW j \in DOMAIN ready', ready'[j].run # "callback"
      PROVE  j + 0 \in DOMAIN ready /\ ready'[j] = ready[j + 0]
  <2>1. CASE ready' = ready
    BY <2>1, <1>0
  <2>2. CASE ready' = Append(ready, it)
    <3>1. j # Len(ready) + 1
      BY <2>2, <1>0, <1>3, <1>6
    <3>2. j \in 1..Len(ready)
      BY <2>2, <3>1, <1>0, <1>3
    <3> QED BY <2>2, <3>2, <1>0, <1>3
  <2> QED BY <2>1, <2>2, <1>4
<1> QED BY <1>1, <1>2, <1>5, <1>6 DEF ReadyKept, Moved

\* What AcceptOne does to the sockets: connection c leaves the backlog of f for the
\* lowest descriptor, or accept fails and all stays.
Taken(f, c) ==
  \/ c = NoConn /\ sock' = sock
  \/ /\ c # NoConn /\ c \in sock[f].pend /\ Unused # {}
     /\ sock' = [sock EXCEPT ![f].pend = @ \ {c}, ![Min(Unused)] = Connected(c)]

\* An acceptor has a callback scheduled only after all managers are published.
LEMMA AcceptSchedules ==
  ASSUME TcpInv, AcceptOne
  PROVE  /\ Published
         /\ \E f \in Fds, c \in Conns \cup {NoConn}, arg \in Nat :
              sock[f] \in Backlogs /\ sock[f].use = "listen" /\ sock[f].pend # {}
              /\ Schedule(c, arg) /\ Taken(f, c)
<1> DEFINE f == acc[cur].fd
<1>1. cur \in DOMAIN acc /\ sock[f].use = "listen"
  BY DEF AcceptOne, TcpInv, RunsOpen, Open
<1>2. acc \in Seq(Acceptors) /\ sock \in [Fds -> Sockets]
  BY DEF TcpInv, TcpTypes, NetTypes, LoopTypes
<1>3. f \in Fds
  <2>1. acc[cur] \in Acceptors
    BY <1>1, <1>2
  <2> QED BY <2>1 DEF Acceptors
<1>4. PICK c \in Incoming(f) :
        /\ sock' = IF c = NoConn THEN sock
                   ELSE [sock EXCEPT ![f].pend = @ \ {c}, ![Min(Unused)] = Connected(c)]
        /\ OnAccept(c)
  BY DEF AcceptOne
<1> HIDE DEF f
<1>5. sock[f] \in Backlogs
  BY <1>1, <1>2, <1>3 DEF Sockets, Free
<1>6. sock[f].pend \subseteq Conns
  BY <1>5 DEF Backlogs
<1>7. Incoming(f) = IF Unused = {} /\ sock[f].pend # {} THEN {NoConn} ELSE sock[f].pend
  BY <1>1 DEF Incoming
<1>8. sock[f].pend # {} /\ c \in Conns \cup {NoConn} /\ Taken(f, c)
  BY <1>4, <1>6, <1>7 DEF Taken
<1>9. Published
  BY <1>1, <1>3, <1>8 DEF TcpInv, NotEarly
<1>10. PICK arg \in Args : Schedule(c, arg)
  BY <1>4 DEF OnAccept
<1>11. arg \in Nat
  BY TcpAssumption DEF Args
<1> QED BY <1>1, <1>3, <1>5, <1>8, <1>9, <1>10, <1>11

\* The listening sockets stay; the backlog of f loses c and the others stay.
LEMMA TakenKeeps ==
  ASSUME TcpInv, NEW f \in Fds, sock[f] \in Backlogs, NEW c \in Conns \cup {NoConn}, Taken(f, c),
         listen' = listen
  PROVE  /\ sock' \in [Fds -> Sockets] /\ SocketsKept
         /\ \A g \in Fds : /\ sock'[g].use = "listen" => sock[g].use = "listen"
                           /\ sock[g].use = "listen" =>
                                sock'[g].pend = sock[g].pend \ (IF g = f THEN {c} ELSE {})
<1>1. sock \in [Fds -> Sockets] /\ sock[f].use = "listen" /\ sock[f].pend \subseteq Conns
  BY DEF TcpInv, TcpTypes, NetTypes, Backlogs
<1>2. CASE c = NoConn
  <2>1. sock' = sock
    BY <1>2 DEF Taken
  <2>2. NoConn \notin sock[f].pend
    BY <1>1, TcpAssumption
  <2> QED BY <2>1, <2>2, <1>1, <1>2 DEF SocketsKept
<1>3. CASE c # NoConn
  <2> DEFINE u == Min(Unused)
             b == [sock[f] EXCEPT !.pend = @ \ {c}]
  <2>1. u \in Fds /\ sock[u] = Free
    <3>1. Unused \in SUBSET Fds /\ Unused # {}
      BY <1>3 DEF Unused, Taken
    <3>2. u \in Unused
      BY <3>1, MinIn
    <3> QED BY <3>2 DEF Unused
  <2>2. b \in Backlogs /\ b.use = "listen" /\ b.addr = sock[f].addr /\ b.pend = sock[f].pend \ {c}
    BY DEF Backlogs
  <2>3. Connected(c) \in Sockets /\ Connected(c).use # "listen"
    BY <1>3 DEF Sockets, Connected
  <2>4. Free.use # "listen"
    BY DEF Free
  <2>5. sock' = [sock EXCEPT ![f] = b, ![u] = Connected(c)]
    BY <1>3 DEF Taken
  <2> HIDE DEF u, b
  <2>6. b \in Sockets
    BY <2>2 DEF Sockets
  <2>7. \A g \in Fds : sock'[g] = IF g = u THEN Connected(c) ELSE IF g = f THEN b ELSE sock[g]
    BY <2>5, <2>1, <1>1
  <2>8. sock' \in [Fds -> Sockets]
    BY <2>3, <2>5, <2>6, <1>1
  <2>9. SocketsKept
    BY <2>1, <2>2, <2>4, <2>7, <1>1 DEF SocketsKept
  <2>10. ASSUME NEW g \in Fds
         PROVE  /\ sock'[g].use = "listen" => sock[g].use = "listen"
                /\ sock[g].use = "listen" =>
                     sock'[g].pend = sock[g].pend \ (IF g = f THEN {c} ELSE {})
    <3>1. CASE g = u
      BY <3>1, <2>1, <2>3, <2>4, <2>7
    <3>2. CASE g # u /\ g = f
      BY <3>2, <2>2, <2>7, <1>1
    <3>3. CASE g # u /\ g # f
      BY <3>3, <2>7
    <3> QED BY <3>1, <3>2, <3>3
  <2> QED BY <2>8, <2>9, <2>10
<1> QED BY <1>2, <1>3

\* accept returns and onAccept is called.
LEMMA AcceptOneKeeps ==
  ASSUME TcpInv, AcceptOne
  PROVE  TcpInv'
<1>1. /\ cur # None /\ acc' = [acc EXCEPT ![cur].at = "check"]
      /\ UNCHANGED <<listen, initer, waiter, reg, cur, serving, kind, managers>>
  BY DEF AcceptOne
<1>2. cur \in DOMAIN acc
  BY <1>1 DEF TcpInv, RunsOpen
<1>3. acc \in Seq(Acceptors)
  BY DEF TcpInv, TcpTypes, LoopTypes
<1>4. acc[cur] \in Acceptors
  BY <1>2, <1>3
<1>5. Published
  BY AcceptSchedules
<1>6. PICK f \in Fds, c \in Conns \cup {NoConn}, arg \in Nat :
        sock[f] \in Backlogs /\ Schedule(c, arg) /\ Taken(f, c)
  BY AcceptSchedules
<1>10. /\ life' = life /\ count' \in 0..(Cardinality(Threads) - 1)
       /\ ready' \in Seq(Items) /\ ReadyKept(0)
  BY <1>5, <1>6, ScheduleKeeps
<1>11. /\ sock' \in [Fds -> Sockets] /\ SocketsKept
       /\ \A g \in Fds : sock'[g].use = "listen" /\ sock'[g].pend # {} =>
                           sock[g].use = "listen" /\ sock[g].pend # {}
  BY <1>1, <1>6, TakenKeeps
<1>12. AcceptorsKept /\ acc' \in Seq(Acceptors)
  <2> DEFINE a == [acc[cur] EXCEPT !.at = "check"]
  <2>1. a \in Acceptors /\ a.fd = acc[cur].fd /\ a.addr = acc[cur].addr /\ a.at = "check"
    BY <1>4 DEF Acceptors
  <2>2. acc' = [acc EXCEPT ![cur] = a]
    BY <1>1
  <2> HIDE DEF a
  <2>3. acc' \in Seq(Acceptors) /\ DOMAIN acc' = DOMAIN acc
        /\ \A i \in DOMAIN acc : acc'[i] = IF i = cur THEN a ELSE acc[i]
    BY <2>1, <2>2, <1>2, <1>3
  <2>4. acc # <<>>
    BY <1>2
  <2> QED BY <2>1, <2>3, <2>4 DEF AcceptorsKept
<1>13. TcpTypes'
  <2>1. NetTypes'
    BY <1>1, <1>11 DEF TcpInv, TcpTypes, NetTypes
  <2>2. ServerTypes'
    BY <1>1, <1>10 DEF TcpInv, TcpTypes, ServerTypes
  <2>3. LoopTypes'
    BY <1>1, <1>10, <1>12 DEF TcpInv, TcpTypes, LoopTypes
  <2>4. BalTypes'
    BY <1>1, <1>10 DEF TcpInv, TcpTypes, BalTypes
  <2> QED BY <2>1, <2>2, <2>3, <2>4 DEF TcpTypes
<1>14. ListOpen'
  BY <1>1, <1>10, <1>11, <1>12, ListSame DEF AcceptorsKept
<1>15. NotEarly'
  BY <1>1, <1>11, PublishedStays, NoneArrives
<1> QED BY <1>1, <1>10, <1>11, <1>12, <1>13, <1>14, <1>15, LoopKept DEF TcpInv

\* An acceptor begins with the test of serving_ or goes on behind accept.
LEMMA PopAcceptorKeeps ==
  ASSUME TcpInv, PopAcceptor
  PROVE  TcpInv'
<1>1. /\ cur = None /\ ready # <<>> /\ Head(ready).run = "acceptor"
      /\ cur' = Head(ready).id /\ ready' = Tail(ready)
      /\ UNCHANGED <<sock, reg, waiter, listen, initer, serving, life, acc, kind, managers, count>>
  BY DEF PopAcceptor, Runs, net, server, bal
<1>2. ready \in Seq(Items)
  BY DEF TcpInv, TcpTypes, LoopTypes
<1>3. /\ ready' \in Seq(Items)
      /\ 1 \in DOMAIN ready /\ Head(ready) = ready[1] /\ Head(ready) \in Items
      /\ \A j \in DOMAIN ready' : /\ j \in Nat \ {0} /\ j + 1 \in DOMAIN ready
                                  /\ ready'[j] = ready[j + 1]
  BY <1>1, <1>2, TailMoves
<1>4. /\ QueuedAcceptor(1) /\ cur' = ready[1].id
      /\ cur' \in DOMAIN acc /\ acc[cur'].at # "ended" /\ Open(cur')
  BY <1>1, <1>3 DEF TcpInv, QueuedOpen, QueuedAcceptor
<1>5. SocketsKept
  BY <1>1 DEF SocketsKept
<1>6. TcpTypes'
  <2>1. cur' \in Nat
    BY <1>4 DEF TcpInv, TcpTypes, LoopTypes
  <2> QED BY <2>1, <1>1, <1>3 DEF TcpInv, TcpTypes, NetTypes, ServerTypes, LoopTypes, BalTypes
<1>7. ASSUME NEW i, Open(i) PROVE Open(i)'
  BY <1>1, <1>7 DEF Open, OnList
<1>8. RunsOpen'
  <2>1. PICK i \in DOMAIN acc : i = cur'
    BY <1>4
  <2>2. Open(i)'
    BY <1>4, <1>7, <2>1
  <2> QED BY <1>1, <1>4, <2>1, <2>2 DEF RunsOpen, Open
<1>9. QueuedOpen'
  <2> SUFFICES ASSUME NEW j \in DOMAIN ready', ready'[j].run = "acceptor"
               PROVE  /\ ready'[j].id \in DOMAIN acc'
                      /\ acc'[ready'[j].id].at # "ended" /\ Open(ready[j].id)'
    BY DEF QueuedOpen, QueuedAcceptor
  <2>1. PICK i \in DOMAIN acc : i = ready[j + 1].id /\ acc[i].at # "ended" /\ Open(i)
    BY <1>3 DEF TcpInv, QueuedOpen, QueuedAcceptor
  <2>2. Open(i)'
    BY <2>1, <1>7
  <2>3. ready'[j].id = i
    BY <1>3, <2>1
  <2> QED BY <2>1, <2>2, <2>3, <1>1 DEF Open
<1>10. WaitsOpen'
  BY <1>1 DEF TcpInv, WaitsOpen, Open, OnList
<1>11. OnePlace'
  <2>1. ASSUME NEW j \in DOMAIN ready', NEW k \in DOMAIN ready', ready'[j].run = "acceptor",
               ready'[k].run = "acceptor", ready'[j].id = ready'[k].id
        PROVE  j = k
    <3>1. j + 1 = k + 1
      BY <1>3, <2>1 DEF TcpInv, OnePlace, QueuedAcceptor
    <3> QED BY <3>1, <1>3
  <2>2. ASSUME NEW j \in DOMAIN ready', ready'[j].run = "acceptor"
        PROVE  ready'[j].id # cur' /\ \A f \in Fds : waiter'[f] # ready'[j].id
    <3>1. j + 1 # 1
      BY <1>3
    <3>2. ready[j + 1].id # ready[1].id
      BY <3>1, <1>3, <1>4, <2>2 DEF TcpInv, OnePlace, QueuedAcceptor
    <3> QED BY <3>2, <1>1, <1>3, <1>4, <2>2 DEF TcpInv, OnePlace, QueuedAcceptor
  <2>3. \A f \in Fds : waiter'[f] # cur'
    BY <1>1, <1>3, <1>4 DEF TcpInv, OnePlace
  <2> QED BY <2>1, <2>2, <2>3 DEF OnePlace, QueuedAcceptor
<1>12. CloserLast'
  <2>1. ASSUME NEW j \in DOMAIN ready', ready'[j].run = "closer",
               NEW k \in DOMAIN ready', ready'[k].run = "acceptor"
        PROVE  k < j
    <3>1. k + 1 < j + 1
      BY <1>3, <2>1 DEF TcpInv, CloserLast, QueuedAcceptor
    <3> QED BY <3>1, <1>3
  <2> QED BY <2>1, <1>1, <1>3 DEF TcpInv, CloserLast, QueuedAcceptor
<1>13. HoldersAlive'
  BY <1>1, <1>3 DEF TcpInv, HoldersAlive
<1>14. ListOpen'
  BY <1>1, <1>5, ListSame
<1>15. NotEarly'
  BY <1>1, PublishedStays, NoneArrives
<1> QED BY <1>6, <1>8, <1>9, <1>10, <1>11, <1>12, <1>13, <1>14, <1>15 DEF TcpInv

\* accept would block: the acceptor waits on its own descriptor.
LEMMA AcceptWaitKeeps ==
  ASSUME TcpInv, AcceptWait
  PROVE  TcpInv'
<1> DEFINE f == acc[cur].fd
<1>1. /\ cur # None /\ acc[cur].at = "accept" /\ cur' = None
      /\ reg' = [reg EXCEPT ![f] = TRUE] /\ waiter' = [waiter EXCEPT ![f] = cur]
      /\ UNCHANGED <<sock, listen, initer, serving, life, acc, ready, kind, managers, count>>
  BY DEF AcceptWait, server, bal
<1>2. cur \in DOMAIN acc /\ Open(cur)
  BY <1>1 DEF TcpInv, RunsOpen
<1>3. f \in Fds /\ cur \in Nat /\ reg \in [Fds -> BOOLEAN] /\ waiter \in [Fds -> Nat]
  <2>1. acc \in Seq(Acceptors) /\ reg \in [Fds -> BOOLEAN] /\ waiter \in [Fds -> Nat] /\ cur \in Nat
    BY DEF TcpInv, TcpTypes, NetTypes, LoopTypes
  <2>2. acc[cur] \in Acceptors
    BY <1>2, <2>1
  <2> QED BY <2>1, <2>2 DEF Acceptors
<1>4. \A g \in Fds : waiter'[g] = IF g = f THEN cur ELSE waiter[g]
  BY <1>1, <1>3
<1>5. \A g \in Fds : reg[g] \/ g = f => reg'[g]
  BY <1>1, <1>3
<1>6. TcpTypes'
  <2>1. NetTypes'
    BY <1>1, <1>3 DEF TcpInv, TcpTypes, NetTypes
  <2>2. LoopTypes'
    BY <1>1 DEF TcpInv, TcpTypes, LoopTypes, None
  <2> QED BY <2>1, <2>2, <1>1 DEF TcpInv, TcpTypes, ServerTypes, BalTypes
<1>7. RunsOpen'
  BY <1>1 DEF RunsOpen
<1>8. QueuedOpen'
  BY <1>1 DEF TcpInv, QueuedOpen, QueuedAcceptor, Open, OnList
<1>9. WaitsOpen'
  <2> SUFFICES ASSUME NEW g \in Fds, waiter'[g] # None
               PROVE  /\ waiter'[g] \in DOMAIN acc
                      /\ acc[waiter'[g]].at = "accept" /\ acc[waiter'[g]].fd = g
                      /\ reg'[g] /\ Open(waiter[g])'
    BY <1>1 DEF WaitsOpen
  <2>1. PICK i \in DOMAIN acc : /\ i = waiter'[g] /\ acc[i].at = "accept" /\ acc[i].fd = g
                                /\ (reg[g] \/ g = f) /\ Open(i)
    <3>1. CASE g = f
      BY <3>1, <1>1, <1>2, <1>4
    <3>2. CASE g # f
      BY <3>2, <1>4 DEF TcpInv, WaitsOpen
    <3> QED BY <3>1, <3>2
  <2>2. Open(waiter[g])'
    BY <2>1, <1>1 DEF Open, OnList
  <2> QED BY <2>1, <2>2, <1>5
<1>10. OnePlace'
  <2>1. 0 \notin DOMAIN acc
    BY DEF TcpInv, TcpTypes, LoopTypes
  <2>2. ASSUME NEW j \in DOMAIN ready, QueuedAcceptor(j)
        PROVE  ready[j].id # None /\ \A g \in Fds : waiter'[g] # ready[j].id
    BY <2>1, <2>2, <1>4 DEF TcpInv, OnePlace, QueuedOpen, None
  <2> QED BY <2>2, <1>1 DEF TcpInv, OnePlace, QueuedAcceptor
<1>11. CloserLast' /\ HoldersAlive'
  BY <1>1 DEF TcpInv, CloserLast, HoldersAlive, QueuedAcceptor
<1>12. ListOpen' /\ NotEarly'
  BY <1>1, PublishedStays, NoneArrives DEF TcpInv, ListOpen
<1> QED BY <1>6, <1>7, <1>8, <1>9, <1>10, <1>11, <1>12 DEF TcpInv

\* The entries that epoll_wait's results add are those of the waiting acceptors.
LEMMA FireKeeps ==
  ASSUME TcpInv, Fire
  PROVE  TcpInv'
<1>1. /\ cur = None /\ ready = <<>>
      /\ UNCHANGED <<sock, listen, initer, serving, life, acc, cur, kind, managers, count>>
  BY DEF Fire, server, bal
<1>2. PICK F \in SUBSET {f \in Fds : ep[f] /\ waiter[f] # None /\ sock[f].use = "listen" /\ sock[f].pend # {}} :
        /\ \E s \in SetToSeqs(F) : ready' = [i \in DOMAIN s |-> [run |-> "acceptor", id |-> waiter[s[i]]]]
        /\ reg' = StillRegistered(F)
        /\ waiter' = [f \in Fds |-> IF f \in F THEN None ELSE waiter[f]]
  BY DEF Fire
<1>3. PICK s \in SetToSeqs(F) : ready' = [i \in DOMAIN s |-> [run |-> "acceptor", id |-> waiter[s[i]]]]
  BY <1>2
<1>4. F \subseteq Fds /\ \A f \in F : waiter[f] # None
  BY <1>2
<1>5. PICK n \in Nat : /\ DOMAIN s = 1..n
                       /\ \A i \in 1..n : s[i] \in F
                       /\ \A i, j \in 1..n : i # j => s[i] # s[j]
  <2>1. IsFiniteSet(Fds)
    BY FS_Interval, TcpAssumption DEF Fds
  <2>2. IsFiniteSet(F)
    BY <2>1, <1>4, FS_Subset
  <2>3. Cardinality(F) \in Nat
    BY <2>2, FS_CardinalityType
  <2>4. /\ DOMAIN s = 1..Cardinality(F)
        /\ \A i \in 1..Cardinality(F) : s[i] \in F
        /\ \A i, j \in 1..Cardinality(F) : i # j => s[i] # s[j]
    BY DEF SetToSeqs
  <2> QED BY <2>3, <2>4
<1>6. waiter \in [Fds -> Nat] /\ reg \in [Fds -> BOOLEAN]
  BY DEF TcpInv, TcpTypes, NetTypes
<1>7. /\ ready' = [i \in 1..n |-> [run |-> "acceptor", id |-> waiter[s[i]]]]
      /\ DOMAIN ready' = 1..n
      /\ \A i \in 1..n : ready'[i].run = "acceptor" /\ ready'[i].id = waiter[s[i]]
  BY <1>3, <1>5
<1>8. ready' \in Seq(Items)
  <2>1. \A i \in 1..n : ready'[i] \in Items
    BY <1>4, <1>5, <1>6, <1>7 DEF Items
  <2> QED BY <2>1, <1>7
<1>9. \A f \in Fds : waiter'[f] # None => waiter'[f] = waiter[f] /\ f \notin F
  BY <1>2
<1>10. TcpTypes'
  <2>1. NetTypes'
    <3>1. waiter' \in [Fds -> Nat]
      BY <1>2, <1>6 DEF None
    <3>2. reg' \in [Fds -> BOOLEAN]
      BY <1>2 DEF StillRegistered
    <3> QED BY <3>1, <3>2, <1>1 DEF TcpInv, TcpTypes, NetTypes
  <2>2. LoopTypes'
    BY <1>1, <1>8 DEF TcpInv, TcpTypes, LoopTypes
  <2> QED BY <2>1, <2>2, <1>1 DEF TcpInv, TcpTypes, ServerTypes, BalTypes
<1>11. \A f \in Fds : waiter[f] # None =>
         /\ waiter[f] \in DOMAIN acc /\ acc[waiter[f]].at = "accept"
         /\ acc[waiter[f]].fd = f /\ reg[f] /\ Open(waiter[f])
  BY DEF TcpInv, WaitsOpen
<1>12. RunsOpen'
  BY <1>1 DEF RunsOpen
<1>13. QueuedOpen'
  <2> SUFFICES ASSUME NEW j \in 1..n
               PROVE  /\ ready'[j].id \in DOMAIN acc
                      /\ acc[ready'[j].id].at # "ended" /\ Open(ready[j].id)'
    BY <1>1, <1>7 DEF QueuedOpen, QueuedAcceptor
  <2>1. PICK i \in DOMAIN acc : i = waiter[s[j]] /\ acc[i].at = "accept" /\ Open(i)
    BY <1>4, <1>5, <1>11
  <2>2. ready'[j].id = i
    BY <1>7, <2>1
  <2> QED BY <2>1, <2>2, <1>1 DEF Open, OnList
<1>14. WaitsOpen'
  <2> SUFFICES ASSUME NEW f \in Fds, waiter'[f] # None
               PROVE  /\ waiter'[f] \in DOMAIN acc
                      /\ acc[waiter'[f]].at = "accept" /\ acc[waiter'[f]].fd = f
                      /\ reg'[f] /\ Open(waiter[f])'
    BY <1>1 DEF WaitsOpen
  <2>1. waiter'[f] = waiter[f] /\ f \notin F
    BY <1>9
  <2>2. reg'[f]
    BY <2>1, <1>2, <1>11 DEF StillRegistered
  <2> QED BY <2>1, <2>2, <1>1, <1>11 DEF Open, OnList
<1>15. OnePlace'
  <2>1. ASSUME NEW j \in 1..n, NEW k \in 1..n, ready'[j].id = ready'[k].id
        PROVE  j = k
    <3>1. s[j] = s[k]
      BY <2>1, <1>4, <1>5, <1>7, <1>11
    <3> QED BY <3>1, <1>5
  <2>2. ASSUME NEW j \in 1..n
        PROVE  ready'[j].id # cur' /\ \A f \in Fds : waiter'[f] # ready'[j].id
    <3>1. ready'[j].id = waiter[s[j]] /\ waiter[s[j]] # None /\ s[j] \in F
      BY <1>4, <1>5, <1>7
    <3>2. ASSUME NEW f \in Fds, waiter'[f] = waiter[s[j]] PROVE FALSE
      BY <3>1, <3>2, <1>4, <1>9, <1>11
    <3> QED BY <3>1, <3>2, <1>1
  <2> QED BY <2>1, <2>2, <1>1, <1>7 DEF OnePlace, QueuedAcceptor
<1>16. CloserLast' /\ HoldersAlive'
  BY <1>1, <1>7 DEF TcpInv, CloserLast, HoldersAlive
<1>17. ListOpen' /\ NotEarly'
  BY <1>1, PublishedStays, NoneArrives DEF TcpInv, ListOpen
<1> QED BY <1>10, <1>12, <1>13, <1>14, <1>15, <1>16, <1>17 DEF TcpInv

\* stopServe: its executor is queued behind all acceptors.
LEMMA StopServeKeeps ==
  ASSUME TcpInv, StopServe
  PROVE  TcpInv'
<1> DEFINE it == [run |-> "closer"]
<1>1. /\ serving /\ ~serving' /\ ready' = Append(ready, it) /\ life = "alive"
      /\ UNCHANGED <<sock, reg, waiter, listen, initer, life, acc, cur, kind, managers, count>>
  BY DEF StopServe, InUser, net, bal
<1>2. ready \in Seq(Items) /\ it \in Items /\ it.run = "closer" /\ it.run # "acceptor"
  BY DEF TcpInv, TcpTypes, LoopTypes, Items
<1> HIDE DEF it
<1>3. /\ ready' \in Seq(Items) /\ DOMAIN ready' = 1..(Len(ready) + 1)
      /\ DOMAIN ready = 1..Len(ready) /\ Len(ready) \in Nat
      /\ ready'[Len(ready) + 1] = it
      /\ \A j \in 1..Len(ready) : ready'[j] = ready[j]
  BY <1>1, <1>2
<1>4. \A j \in DOMAIN ready' : ready'[j].run = "acceptor" =>
        j \in DOMAIN ready /\ ready'[j] = ready[j] /\ j < Len(ready) + 1
  BY <1>2, <1>3
<1>5. TcpTypes'
  BY <1>1, <1>3 DEF TcpInv, TcpTypes, NetTypes, ServerTypes, LoopTypes, BalTypes
<1>6. RunsOpen' /\ WaitsOpen'
  BY <1>1 DEF TcpInv, RunsOpen, WaitsOpen, Open, OnList
<1>7. QueuedOpen'
  BY <1>1, <1>4 DEF TcpInv, QueuedOpen, QueuedAcceptor, Open, OnList
<1>8. OnePlace'
  BY <1>1, <1>4 DEF TcpInv, OnePlace, QueuedAcceptor
<1>9. CloserLast'
  <2>1. acc # <<>> /\ \A j \in DOMAIN ready : ready[j].run # "closer"
    BY <1>1 DEF TcpInv, CloserLast
  <2>2. \A j \in DOMAIN ready' : ready'[j].run = "closer" => j = Len(ready) + 1
    BY <2>1, <1>3
  <2> QED BY <2>1, <2>2, <1>1, <1>4 DEF CloserLast, QueuedAcceptor
<1>10. HoldersAlive'
  BY <1>1 DEF HoldersAlive
<1>11. ListOpen' /\ NotEarly'
  BY <1>1, PublishedStays, NoneArrives DEF TcpInv, ListOpen
<1> QED BY <1>5, <1>6, <1>7, <1>8, <1>9, <1>10, <1>11 DEF TcpInv

\* The first start: the executors are the only acceptors, on sockets just bound.
LEMMA StartServeKeeps ==
  ASSUME TcpInv, Restart = FALSE, StartUnbound = FALSE, StartServe
  PROVE  TcpInv'
<1> DEFINE new == [i \in DOMAIN listen |-> [fd |-> listen[i].fd, addr |-> listen[i].addr, at |-> "check"]]
           its == [i \in DOMAIN new |-> [run |-> "acceptor", id |-> Len(acc) + i]]
           n   == Len(listen)
<1>1. /\ life = "alive" /\ cur = None /\ acc = <<>> /\ listen # <<>>
      /\ acc' = acc \o new /\ ready' = ready \o its /\ serving' = TRUE
      /\ UNCHANGED <<sock, reg, waiter, listen, initer, life, cur, kind, managers, count>>
  BY DEF StartServe, InUser, net, bal
<1>2. listen \in Seq(Listeners) /\ n \in Nat /\ DOMAIN listen = 1..n /\ n # 0
      /\ ready \in Seq(Items) /\ Len(ready) \in Nat /\ DOMAIN ready = 1..Len(ready)
  BY <1>1 DEF TcpInv, TcpTypes, ServerTypes, LoopTypes
<1>3. \A i \in 1..n : listen[i].fd \in Fds /\ listen[i].addr \in Addrs
                      /\ sock[listen[i].fd].use = "listen" /\ sock[listen[i].fd].addr = listen[i].addr
  <2> SUFFICES ASSUME NEW i \in 1..n
               PROVE  listen[i].fd \in Fds /\ listen[i].addr \in Addrs
                      /\ sock[listen[i].fd].use = "listen" /\ sock[listen[i].fd].addr = listen[i].addr
    OBVIOUS
  <2>1. listen[i] \in Listeners
    BY <1>2
  <2>2. listen[i].fd \in Fds \cup {None} /\ listen[i].addr \in Addrs
    BY <2>1 DEF Listeners
  <2>3. listen[i].fd # None
    BY <1>1, <1>2 DEF TcpInv, ListOpen
  <2> QED BY <2>2, <2>3, <1>1, <1>2 DEF TcpInv, ListOpen
<1>4. DOMAIN new = 1..n /\ new \in Seq(Acceptors) /\ Len(new) = n
      /\ \A i \in 1..n : new[i].fd = listen[i].fd /\ new[i].addr = listen[i].addr /\ new[i].at = "check"
  <2>1. \A i \in 1..n : new[i] \in Acceptors
    BY <1>2, <1>3 DEF Acceptors
  <2> QED BY <2>1, <1>2
<1>5. acc' = new
  <2> HIDE DEF new
  <2>1. <<>> \o new = new
    BY <1>4
  <2> QED BY <1>1, <2>1
<1>6. its \in Seq(Items) /\ Len(its) = n
      /\ \A i \in 1..n : its[i].run = "acceptor" /\ its[i].id = i
  <2>1. Len(acc) = 0 /\ \A i \in 1..n : Len(acc) + i = i
    BY <1>1
  <2>2. DOMAIN its = 1..n /\ \A i \in 1..n : its[i] = [run |-> "acceptor", id |-> i]
    <3> HIDE DEF new
    <3> QED BY <1>4, <2>1
  <2> HIDE DEF its
  <2>3. \A i \in 1..n : its[i] \in Items
    BY <2>2 DEF Items
  <2>4. its = [i \in 1..n |-> [run |-> "acceptor", id |-> i]]
    BY <2>2, <1>2, <2>1 DEF its
  <2> QED BY <2>2, <2>3, <2>4, <1>2
<1> HIDE DEF new, its, n
<1>7. /\ ready' \in Seq(Items) /\ DOMAIN ready' = 1..(Len(ready) + n)
      /\ \A j \in 1..Len(ready) : ready'[j] = ready[j]
      /\ \A j \in (Len(ready) + 1)..(Len(ready) + n) : ready'[j] = its[j - Len(ready)]
  BY <1>1, <1>2, <1>6
<1>8. \A j \in DOMAIN ready : ready[j].run # "acceptor" /\ ready[j].run # "closer"
  BY <1>1 DEF TcpInv, QueuedOpen, QueuedAcceptor, CloserLast
<1>9. \A j \in DOMAIN ready' : /\ ready'[j].run # "closer"
                               /\ ready'[j].run = "acceptor" =>
                                    j - Len(ready) \in 1..n /\ ready'[j].id = j - Len(ready)
  <2> SUFFICES ASSUME NEW j \in DOMAIN ready'
               PROVE  /\ ready'[j].run # "closer"
                      /\ ready'[j].run = "acceptor" =>
                           j - Len(ready) \in 1..n /\ ready'[j].id = j - Len(ready)
    OBVIOUS
  <2>1. CASE j \in 1..Len(ready)
    BY <2>1, <1>2, <1>7, <1>8
  <2>2. CASE j \notin 1..Len(ready)
    <3>1. j \in (Len(ready) + 1)..(Len(ready) + n) /\ j - Len(ready) \in 1..n
      BY <2>2, <1>2, <1>7
    <3> QED BY <3>1, <1>6, <1>7
  <2> QED BY <2>1, <2>2
<1>10. \A f \in Fds : waiter[f] = None
  BY <1>1 DEF TcpInv, WaitsOpen
<1>11. \A i \in 1..n : i \in DOMAIN acc' /\ acc'[i].at = "check" /\ Open(i)'
  <2> SUFFICES ASSUME NEW i \in 1..n PROVE i \in DOMAIN acc' /\ acc'[i].at = "check" /\ Open(i)'
    OBVIOUS
  <2>1. i \in DOMAIN acc' /\ acc'[i].at = "check" /\ acc'[i].fd = listen[i].fd /\ acc'[i].addr = listen[i].addr
    BY <1>4, <1>5
  <2>2. OnList(acc[i].fd)'
    BY <2>1, <1>1, <1>2 DEF OnList
  <2> QED BY <2>1, <2>2, <1>1, <1>3 DEF Open
<1>12. TcpTypes'
  <2>1. LoopTypes'
    BY <1>1, <1>4, <1>5, <1>7 DEF TcpInv, TcpTypes, LoopTypes
  <2> QED BY <2>1, <1>1 DEF TcpInv, TcpTypes, NetTypes, ServerTypes, BalTypes
<1>13. RunsOpen' /\ WaitsOpen'
  BY <1>1, <1>10 DEF RunsOpen, WaitsOpen
<1>14. QueuedOpen'
  <2> SUFFICES ASSUME NEW j \in DOMAIN ready', ready'[j].run = "acceptor"
               PROVE  /\ ready'[j].id \in DOMAIN acc'
                      /\ acc'[ready'[j].id].at # "ended" /\ Open(ready[j].id)'
    BY DEF QueuedOpen, QueuedAcceptor
  <2>1. PICK i \in 1..n : i = ready'[j].id
    BY <1>9
  <2> QED BY <2>1, <1>11 DEF Open
<1>15. OnePlace'
  <2>1. ASSUME NEW j \in DOMAIN ready', NEW k \in DOMAIN ready', ready'[j].run = "acceptor",
               ready'[k].run = "acceptor", ready'[j].id = ready'[k].id
        PROVE  j = k
    BY <2>1, <1>2, <1>7, <1>9
  <2>2. ASSUME NEW j \in DOMAIN ready', ready'[j].run = "acceptor" PROVE ready'[j].id # 0
    BY <2>2, <1>9
  <2> QED BY <2>1, <2>2, <1>1, <1>10 DEF OnePlace, QueuedAcceptor, None
<1>16. CloserLast'
  <2>1. acc' # <<>>
    BY <1>2, <1>4, <1>5 DEF n
  <2> QED BY <2>1, <1>9 DEF CloserLast
<1>17. HoldersAlive'
  BY <1>1 DEF HoldersAlive
<1>18. ListOpen' /\ NotEarly'
  <2>1. SocketsKept
    BY <1>1 DEF SocketsKept
  <2>2. acc' # <<>>
    BY <1>2, <1>4, <1>5 DEF n
  <2> QED BY <2>1, <2>2, <1>1, PublishedStays, NoneArrives, ListSame
<1> QED BY <1>12, <1>13, <1>14, <1>15, <1>16, <1>17, <1>18 DEF TcpInv

-----------------------------------------------------------------------------
(* Steps that may drop the last reference.                                 *)

\* The server stays as it is, or nothing holds it any more.
Stays(s) == sock' = s /\ life' = life

Dies(s) ==
  /\ life' \in {"joining", "gone", "crashed"}
  /\ sock' \in [Fds -> Sockets] /\ \A f \in Fds : sock'[f] = s[f] \/ sock'[f] = Free
  /\ \A i \in DOMAIN acc' : acc'[i].at = "ended"
  /\ \A j \in DOMAIN ready' : ready'[j].run # "closer"

\* A step that may drop the last reference leaves the server or ends it.
LEMMA ReleaseCases ==
  ASSUME NEW s \in [Fds -> Sockets], NEW l, Release(s, l)
  PROVE  listen' = l /\ (Stays(s) \/ (life = "alive" /\ Dies(s)))
<1> DEFINE dies == life = "alive" /\ ~Held(user', acc', ready')
           fds  == IF dies /\ ~serving THEN {l[i].fd : i \in DOMAIN l} ELSE {}
<1>1. /\ sock' = Closed(s, fds) /\ listen' = l
      /\ life' = CASE ~dies -> life
                   [] dies /\ serving -> "crashed"
                   [] OTHER -> IF kind = "simple" THEN "gone" ELSE "joining"
  BY DEF Release
<1>2. Free \in Sockets
  BY DEF Sockets
<1>3. CASE ~dies
  <2>1. life' = life
    BY <1>1, <1>3
  <2>2. fds = {}
    BY <1>3
  <2> HIDE DEF dies, fds
  <2>3. sock' = [f \in Fds |-> s[f]]
    BY <1>1, <2>2 DEF Closed
  <2>4. sock' = s
    BY <2>3
  <2> QED BY <1>1, <2>1, <2>4 DEF Stays
<1>4. CASE dies
  <2>1. life' \in {"joining", "gone", "crashed"}
    <3> HIDE DEF dies
    <3>1. CASE serving
      BY <1>1, <1>4, <3>1
    <3>2. CASE ~serving
      BY <1>1, <1>4, <3>2
    <3> QED BY <3>1, <3>2
  <2>2. /\ \A i \in DOMAIN acc' : acc'[i].at = "ended"
        /\ \A j \in DOMAIN ready' : ready'[j].run # "closer"
    BY <1>4 DEF Held
  <2>3. life = "alive"
    BY <1>4
  <2> HIDE DEF dies, fds
  <2>4. sock' = [f \in Fds |-> IF f \in fds THEN Free ELSE s[f]]
    BY <1>1 DEF Closed
  <2>5. sock' \in [Fds -> Sockets] /\ \A f \in Fds : sock'[f] = s[f] \/ sock'[f] = Free
    BY <2>4, <1>2
  <2> QED BY <1>1, <2>1, <2>2, <2>3, <2>5 DEF Dies
<1> QED BY <1>3, <1>4

\* A server that dies has no acceptor that could run again.
LEMMA DeadKeeps ==
  ASSUME NEW s, Dies(s), cur' = None, acc' = <<>> => ~serving',
         \A j \in DOMAIN ready' : ready'[j].run = "acceptor" =>
           ready'[j].id \in DOMAIN acc' /\ acc'[ready'[j].id].at # "ended",
         \A f \in Fds : waiter'[f] # None =>
           waiter'[f] \in DOMAIN acc' /\ acc'[waiter'[f]].at = "accept"
  PROVE  RunsOpen' /\ QueuedOpen' /\ WaitsOpen' /\ OnePlace' /\ CloserLast' /\ HoldersAlive'
<1>1. /\ \A j \in DOMAIN ready' : ready'[j].run # "acceptor" /\ ready'[j].run # "closer"
      /\ \A f \in Fds : waiter'[f] = None
      /\ \A i \in DOMAIN acc' : acc'[i].at = "ended"
  BY DEF Dies
<1>2. RunsOpen' /\ QueuedOpen' /\ WaitsOpen'
  BY <1>1 DEF RunsOpen, QueuedOpen, QueuedAcceptor, WaitsOpen
<1>3. OnePlace'
  BY <1>1 DEF OnePlace, QueuedAcceptor
<1>4. CloserLast' /\ HoldersAlive'
  BY <1>1 DEF CloserLast, HoldersAlive, QueuedAcceptor
<1> QED BY <1>2, <1>3, <1>4

\* Nothing arrives when sockets are only closed.
LEMMA NoneArrivesClosing ==
  ASSUME TcpInv, UNCHANGED <<kind, managers>>, \A f \in Fds : sock'[f] = sock[f] \/ sock'[f] = Free
  PROVE  NotEarly'
<1>1. Free.use # "listen"
  BY DEF Free
<1> QED BY <1>1, PublishedStays, NoneArrives

\* The user drops its reference.
LEMMA DropRefKeeps ==
  ASSUME TcpInv, DropRef
  PROVE  TcpInv'
<1>1. /\ cur = None /\ Release(sock, listen)
      /\ UNCHANGED <<acc, ready, reg, waiter, initer, serving, cur, kind, managers, count>>
  BY DEF DropRef, InUser, bal
<1>2. sock \in [Fds -> Sockets]
  BY DEF TcpInv, TcpTypes, NetTypes
<1>3. listen' = listen /\ (Stays(sock) \/ Dies(sock))
  BY <1>1, <1>2, ReleaseCases
<1>4. sock' \in [Fds -> Sockets] /\ \A f \in Fds : sock'[f] = sock[f] \/ sock'[f] = Free
  BY <1>2, <1>3 DEF Stays, Dies
<1>5. TcpTypes'
  <2>1. life' \in {"alive", "joining", "gone", "crashed"}
    BY <1>3 DEF TcpInv, TcpTypes, ServerTypes, Stays, Dies
  <2> QED BY <2>1, <1>1, <1>3, <1>4 DEF TcpInv, TcpTypes, NetTypes, ServerTypes, LoopTypes, BalTypes
<1>6. NotEarly'
  BY <1>1, <1>4, NoneArrivesClosing
<1>7. RunsOpen' /\ QueuedOpen' /\ WaitsOpen' /\ OnePlace' /\ CloserLast' /\ HoldersAlive' /\ ListOpen'
  <2>1. CASE Stays(sock)
    <3>1. SocketsKept /\ life' = life
      BY <2>1, <1>3 DEF SocketsKept, Stays
    <3> QED BY <3>1, <1>1, <1>3, LoopSame, ListSame
  <2>2. CASE Dies(sock)
    <3>1. \A j \in DOMAIN ready : ready[j].run = "acceptor" =>
            ready[j].id \in DOMAIN acc /\ acc[ready[j].id].at # "ended"
      BY DEF TcpInv, QueuedOpen, QueuedAcceptor
    <3>2. \A f \in Fds : waiter[f] # None => waiter[f] \in DOMAIN acc /\ acc[waiter[f]].at = "accept"
      BY DEF TcpInv, WaitsOpen
    <3>3. acc = <<>> => ~serving
      BY DEF TcpInv, CloserLast
    <3>4. ListOpen'
      BY <2>2, <1>1, <1>3 DEF TcpInv, ListOpen, Dies
    <3> QED BY <2>2, <3>1, <3>2, <3>3, <3>4, <1>1, DeadKeeps
  <2> QED BY <1>3, <2>1, <2>2
<1> QED BY <1>5, <1>6, <1>7 DEF TcpInv

\* An acceptor tests serving_, and ends if it is false.
LEMMA CheckServingKeeps ==
  ASSUME TcpInv, CheckServing
  PROVE  TcpInv'
<1> DEFINE a == [acc[cur] EXCEPT !.at = IF serving THEN "accept" ELSE "ended"]
<1>1. /\ cur # None /\ acc[cur].at = "check" /\ Release(sock, listen)
      /\ acc' = [acc EXCEPT ![cur] = a]
      /\ cur' = IF serving THEN cur ELSE None
      /\ UNCHANGED <<ready, reg, waiter, initer, serving, kind, managers, count>>
      /\ life \in {"alive", "gone"}
  BY DEF CheckServing, MainRuns, bal
<1>2. cur \in DOMAIN acc /\ acc \in Seq(Acceptors) /\ sock \in [Fds -> Sockets] /\ cur \in Nat
  BY <1>1 DEF TcpInv, TcpTypes, NetTypes, LoopTypes, RunsOpen
<1>3. a \in Acceptors /\ a.fd = acc[cur].fd /\ a.addr = acc[cur].addr
      /\ a.at = IF serving THEN "accept" ELSE "ended"
  <2>1. acc[cur] \in Acceptors
    BY <1>2
  <2> QED BY <2>1 DEF Acceptors
<1> HIDE DEF a
<1>4. acc' \in Seq(Acceptors) /\ DOMAIN acc' = DOMAIN acc /\ acc' # <<>>
      /\ acc'[cur] = a /\ \A i \in DOMAIN acc : i # cur => acc'[i] = acc[i]
  BY <1>1, <1>2, <1>3
<1>5. life = "alive" /\ listen' = listen /\ (Stays(sock) \/ Dies(sock))
  BY <1>1, <1>2, ReleaseCases DEF TcpInv, HoldersAlive
<1>6. sock' \in [Fds -> Sockets] /\ \A f \in Fds : sock'[f] = sock[f] \/ sock'[f] = Free
  BY <1>2, <1>5 DEF Stays, Dies
<1>7. TcpTypes'
  <2>1. life' \in {"alive", "joining", "gone", "crashed"}
    BY <1>5 DEF Stays, Dies
  <2>2. LoopTypes'
    BY <1>1, <1>2, <1>4 DEF TcpInv, TcpTypes, LoopTypes, None
  <2> QED BY <2>1, <2>2, <1>1, <1>5, <1>6 DEF TcpInv, TcpTypes, NetTypes, ServerTypes, BalTypes
<1>8. NotEarly'
  BY <1>1, <1>6, NoneArrivesClosing
<1>9. \A j \in DOMAIN ready : ready[j].run = "acceptor" =>
        /\ ready[j].id \in DOMAIN acc /\ ready[j].id # cur
        /\ acc[ready[j].id].at # "ended" /\ Open(ready[j].id)
  BY DEF TcpInv, QueuedOpen, QueuedAcceptor, OnePlace
<1>10. \A f \in Fds : waiter[f] # None =>
         /\ waiter[f] \in DOMAIN acc /\ waiter[f] # cur
         /\ acc[waiter[f]].at = "accept" /\ acc[waiter[f]].fd = f
         /\ reg[f] /\ Open(waiter[f])
  BY <1>1 DEF TcpInv, WaitsOpen, OnePlace
<1>11. CASE serving
  <2>1. Stays(sock)
    BY <1>1, <1>2, <1>3, <1>4, <1>5, <1>11 DEF Dies
  <2>2. SocketsKept /\ life' = life
    BY <2>1, <1>5 DEF SocketsKept, Stays
  <2>3. AcceptorsKept
    BY <1>2, <1>3, <1>4, <1>11 DEF AcceptorsKept
  <2>4. ReadyKept(0)
    BY <1>1 DEF TcpInv, TcpTypes, LoopTypes, ReadyKept, Moved
  <2>5. cur' = cur
    BY <1>1, <1>11
  <2> QED BY <2>2, <2>3, <2>4, <2>5, <1>1, <1>4, <1>5, <1>7, <1>8, LoopKept, ListSame DEF TcpInv
<1>12. CASE ~serving /\ Stays(sock)
  <2>1. sock' = sock /\ life' = "alive" /\ cur' = None
    BY <1>1, <1>5, <1>12 DEF Stays
  <2>2. ASSUME NEW i \in DOMAIN acc, Open(i), i # cur PROVE Open(i)'
    BY <2>1, <2>2, <1>4, <1>5 DEF Open, OnList
  <2>3. RunsOpen' /\ HoldersAlive'
    BY <2>1 DEF RunsOpen, HoldersAlive
  <2>4. QueuedOpen'
    <3> SUFFICES ASSUME NEW j \in DOMAIN ready, ready[j].run = "acceptor"
                 PROVE  /\ ready[j].id \in DOMAIN acc'
                        /\ acc'[ready[j].id].at # "ended" /\ Open(ready[j].id)'
      BY <1>1 DEF QueuedOpen, QueuedAcceptor
    <3>1. PICK i \in DOMAIN acc : i = ready[j].id /\ i # cur /\ acc[i].at # "ended" /\ Open(i)
      BY <1>9
    <3>2. Open(i)'
      BY <3>1, <2>2
    <3> QED BY <3>1, <3>2, <1>1, <1>4 DEF Open
  <2>5. WaitsOpen'
    <3> SUFFICES ASSUME NEW f \in Fds, waiter[f] # None
                 PROVE  /\ waiter[f] \in DOMAIN acc'
                        /\ acc'[waiter[f]].at = "accept" /\ acc'[waiter[f]].fd = f
                        /\ reg[f] /\ Open(waiter[f])'
      BY <1>1 DEF WaitsOpen
    <3>1. PICK i \in DOMAIN acc : /\ i = waiter[f] /\ i # cur /\ acc[i].at = "accept" /\ acc[i].fd = f
                                  /\ reg[f] /\ Open(i)
      BY <1>10
    <3>2. Open(i)'
      BY <3>1, <2>2
    <3> QED BY <3>1, <3>2, <1>1, <1>4 DEF Open
  <2>6. OnePlace'
    <3>1. 0 \notin DOMAIN acc
      BY <1>2
    <3>2. \A j \in DOMAIN ready : ready[j].run = "acceptor" => ready[j].id # None
      BY <3>1, <1>9 DEF None
    <3> QED BY <3>2, <2>1, <1>1 DEF TcpInv, OnePlace, QueuedAcceptor
  <2>7. CloserLast'
    BY <1>1, <1>4, <1>12 DEF TcpInv, CloserLast, QueuedAcceptor
  <2>8. ListOpen'
    BY <2>1, <1>4, <1>5 DEF TcpInv, ListOpen
  <2> QED BY <2>3, <2>4, <2>5, <2>6, <2>7, <2>8, <1>7, <1>8 DEF TcpInv
<1>13. CASE ~serving /\ Dies(sock)
  <2>1. cur' = None
    BY <1>1, <1>13
  <2>2. ListOpen'
    BY <1>4, <1>5, <1>13 DEF TcpInv, ListOpen, Dies
  <2>3. \A j \in DOMAIN ready' : ready'[j].run = "acceptor" =>
          ready'[j].id \in DOMAIN acc' /\ acc'[ready'[j].id].at # "ended"
    BY <1>1, <1>4, <1>9
  <2>4. \A f \in Fds : waiter'[f] # None =>
          waiter'[f] \in DOMAIN acc' /\ acc'[waiter'[f]].at = "accept"
    BY <1>1, <1>4, <1>10
  <2> QED BY <2>1, <2>2, <2>3, <2>4, <1>4, <1>7, <1>8, <1>13, DeadKeeps DEF TcpInv
<1> QED BY <1>5, <1>11, <1>12, <1>13

\* The executor of stopServe meets its assertion: the process ends as it is.
LEMMA AbortKeeps ==
  ASSUME TcpInv, Closer, AssertFails
  PROVE  TcpInv'
<1>1. /\ life' = "crashed"
      /\ UNCHANGED <<sock, reg, waiter, listen, initer, serving, acc, ready, cur, kind, managers, count>>
  BY DEF Closer, bal
<1>2. TcpTypes'
  BY <1>1 DEF TcpInv, TcpTypes, NetTypes, ServerTypes, LoopTypes, BalTypes
<1>3. RunsOpen' /\ QueuedOpen' /\ WaitsOpen'
  BY <1>1 DEF TcpInv, RunsOpen, QueuedOpen, WaitsOpen, QueuedAcceptor, Open, OnList
<1>4. OnePlace' /\ CloserLast' /\ HoldersAlive' /\ ListOpen'
  BY <1>1 DEF TcpInv, OnePlace, CloserLast, QueuedAcceptor, HoldersAlive, ListOpen
<1>5. NotEarly'
  BY <1>1, NoneArrivesClosing
<1> QED BY <1>2, <1>3, <1>4, <1>5 DEF TcpInv

\* When stopServe's executor runs, no acceptor is queued and none waits any more.
LEMMA CloserKeeps ==
  ASSUME TcpInv, Closer, ~AssertFails
  PROVE  TcpInv'
<1> DEFINE l == [i \in DOMAIN listen |-> IF listen[i].fd \in ToClose THEN [listen[i] EXCEPT !.fd = None]
                                         ELSE listen[i]]
           s == Closed(sock, ToClose)
<1>1. /\ cur = None /\ ready # <<>> /\ Head(ready).run = "closer" /\ ready' = Tail(ready)
      /\ waiter' = [f \in Fds |-> IF f \in ToClose /\ reg[f] THEN None ELSE waiter[f]]
      /\ Release(s, l)
      /\ UNCHANGED <<acc, reg, initer, serving, cur, kind, managers, count>>
      /\ life \in {"alive", "gone"}
  BY DEF Closer, Runs, MainRuns, bal
<1>2. ready \in Seq(Items) /\ sock \in [Fds -> Sockets] /\ listen \in Seq(Listeners)
      /\ waiter \in [Fds -> Nat]
  BY DEF TcpInv, TcpTypes, NetTypes, LoopTypes, ServerTypes
<1>3. /\ ready' \in Seq(Items)
      /\ 1 \in DOMAIN ready /\ Head(ready) = ready[1] /\ Head(ready) \in Items
      /\ \A j \in DOMAIN ready' : /\ j \in Nat \ {0} /\ j + 1 \in DOMAIN ready
                                  /\ ready'[j] = ready[j + 1]
  BY <1>1, <1>2, TailMoves
<1>4. /\ life = "alive" /\ ~serving /\ acc # <<>>
      /\ \A k \in DOMAIN ready : ready[k].run # "acceptor"
  <2>1. ready[1].run = "closer"
    BY <1>1, <1>3
  <2>2. \A k \in DOMAIN ready : ~(k < 1)
    BY <1>2
  <2>3. life = "alive"
    BY <2>1, <1>1, <1>3 DEF TcpInv, HoldersAlive
  <2> QED BY <2>1, <2>2, <2>3, <1>3 DEF TcpInv, CloserLast, QueuedAcceptor
<1>5. \A f \in Fds : waiter'[f] = None
  <2> SUFFICES ASSUME NEW f \in Fds, waiter[f] # None PROVE f \in ToClose /\ reg[f]
    BY <1>1
  <2>1. reg[f] /\ OnList(f)
    BY DEF TcpInv, WaitsOpen, Open
  <2> QED BY <2>1 DEF OnList, ToClose
<1>6. s \in [Fds -> Sockets] /\ \A f \in Fds : s[f] = sock[f] \/ s[f] = Free
  <2>1. Free \in Sockets
    BY DEF Sockets
  <2> QED BY <2>1, <1>2 DEF Closed
<1>7. l \in Seq(Listeners) /\ \A i \in DOMAIN l : l[i].fd = None
  <2>1. ASSUME NEW i \in DOMAIN listen
        PROVE  l[i] \in Listeners /\ l[i].fd = None
    <3>1. listen[i] \in Listeners
      BY <1>2
    <3>2. listen[i].fd \in ToClose
      BY DEF ToClose
    <3>3. l[i] = [listen[i] EXCEPT !.fd = None]
      BY <3>2
    <3> QED BY <3>1, <3>3 DEF Listeners
  <2>2. DOMAIN l = 1..Len(listen) /\ Len(listen) \in Nat /\ DOMAIN listen = 1..Len(listen)
        /\ l = [i \in 1..Len(listen) |-> l[i]]
    BY <1>2
  <2> HIDE DEF l
  <2> QED BY <2>1, <2>2
<1> HIDE DEF l, s
<1>8. listen' = l /\ (Stays(s) \/ Dies(s))
  BY <1>1, <1>6, ReleaseCases
<1>9. sock' \in [Fds -> Sockets] /\ \A f \in Fds : sock'[f] = sock[f] \/ sock'[f] = Free
  BY <1>6, <1>8 DEF Stays, Dies
<1>10. TcpTypes'
  <2>1. life' \in {"alive", "joining", "gone", "crashed"}
    BY <1>4, <1>8 DEF Stays, Dies
  <2>2. waiter' \in [Fds -> Nat]
    BY <1>1, <1>2 DEF None
  <2>3. NetTypes'
    BY <2>2, <1>1, <1>9 DEF TcpInv, TcpTypes, NetTypes
  <2>4. LoopTypes'
    BY <1>1, <1>3 DEF TcpInv, TcpTypes, LoopTypes
  <2>5. ServerTypes'
    BY <2>1, <1>1, <1>7, <1>8 DEF TcpInv, TcpTypes, ServerTypes
  <2> QED BY <2>3, <2>4, <2>5, <1>1 DEF TcpInv, TcpTypes, BalTypes
<1>11. NotEarly'
  BY <1>1, <1>9, NoneArrivesClosing
<1>12. \A j \in DOMAIN ready' : ready'[j].run # "acceptor"
  BY <1>3, <1>4
<1>13. RunsOpen' /\ QueuedOpen' /\ WaitsOpen' /\ OnePlace'
  BY <1>1, <1>5, <1>12 DEF RunsOpen, QueuedOpen, WaitsOpen, OnePlace, QueuedAcceptor
<1>14. CloserLast'
  BY <1>1, <1>4, <1>12 DEF CloserLast, QueuedAcceptor
<1>15. HoldersAlive'
  BY <1>4, <1>8 DEF Stays, Dies, HoldersAlive
<1>16. ListOpen'
  BY <1>1, <1>4, <1>7, <1>8 DEF ListOpen
<1> QED BY <1>10, <1>11, <1>13, <1>14, <1>15, <1>16 DEF TcpInv

-----------------------------------------------------------------------------
(* Theorems.                                                               *)

\* The invariant holds at first.
LEMMA InitTcpInv ==
  ASSUME Init
  PROVE  TcpInv
<1>1. TcpTypes
  <2>1. Free \in Sockets /\ None \in Nat
    BY DEF Sockets, None
  <2>2. NetTypes
    BY <2>1 DEF Init, NetTypes
  <2>3. ServerTypes
    <3>1. listen \in Seq(Listeners)
      BY DEF Init
    <3> QED BY <3>1 DEF Init, ServerTypes
  <2>4. LoopTypes
    BY <2>1 DEF Init, LoopTypes
  <2>5. BalTypes
    <3>1. managers \in Seq(Managers)
      BY DEF Init
    <3>2. kind \in {"simple", "random", "sequence", "prio"}
      BY TcpAssumption DEF Init
    <3> QED BY <3>1, <3>2 DEF Init, BalTypes
  <2> QED BY <2>2, <2>3, <2>4, <2>5 DEF TcpTypes
<1>2. RunsOpen /\ QueuedOpen /\ WaitsOpen /\ OnePlace
  BY DEF Init, RunsOpen, QueuedOpen, WaitsOpen, OnePlace, QueuedAcceptor
<1>3. CloserLast /\ ListOpen /\ HoldersAlive
  BY DEF Init, CloserLast, ListOpen, HoldersAlive
<1>4. NotEarly
  BY DEF Init, NotEarly, Free
<1> QED BY <1>1, <1>2, <1>3, <1>4 DEF TcpInv

\* Every step keeps the invariant.
LEMMA StepTcpInv ==
  ASSUME Restart = FALSE, StartUnbound = FALSE, EarlyClients = FALSE, TcpInv, [Next]_vars
  PROVE  TcpInv'
<1>1. ASSUME NEW addrs \in Lists, Bind(addrs) PROVE TcpInv'
  BY <1>1, BindsKeeps DEF Bind
<1>2. ASSUME NEW a \in Addrs, AddBindAddr(a) PROVE TcpInv'
  <2>1. <<a>> \in Lists
    BY DEF Lists
  <2> QED BY <1>2, <2>1, BindsKeeps DEF AddBindAddr
<1>3. ASSUME UserNext PROVE TcpInv'
  BY <1>1, <1>2, <1>3, SetSocketIniterKeeps, StartServeKeeps, StopServeKeeps, DropRefKeeps DEF UserNext
<1>4. ASSUME ThreadNext PROVE TcpInv'
  BY <1>4, PopAcceptorKeeps, CheckServingKeeps, AcceptOneKeeps, AcceptWaitKeeps, FireKeeps,
     CloserKeeps, AbortKeeps, RunCallbackKeeps DEF ThreadNext
<1>5. ASSUME UNCHANGED vars PROVE TcpInv'
  <2>1. UNCHANGED <<sock, reg, waiter, listen, initer, serving, life, acc, ready, cur,
                    kind, managers, count>>
    BY <1>5 DEF vars, net, server, loop, bal
  <2>2. SocketsKept
    BY <2>1 DEF SocketsKept
  <2>3. TcpTypes'
    BY <2>1 DEF TcpInv, TcpTypes, NetTypes, ServerTypes, LoopTypes, BalTypes
  <2> QED BY <2>1, <2>2, <2>3, LoopSame, ListSame, PublishedStays, NoneArrives DEF TcpInv
<1> QED BY <1>3, <1>4, <1>5, ConnectKeeps, PublishKeeps, RunRemoteKeeps DEF Next

\* The invariant holds of servers started once, bound, with clients that are not early.
LEMMA TcpInvHolds ==
  ASSUME Restart = FALSE, StartUnbound = FALSE, EarlyClients = FALSE
  PROVE  Spec => []TcpInv
<1>1. Init => TcpInv
  BY InitTcpInv
<1>2. TcpInv /\ [Next]_vars => TcpInv'
  BY StepTcpInv
<1> QED BY <1>1, <1>2, PTL DEF Spec

\* Every acceptor that runs or is queued, whether an event woke it or startServe
\* made it, holds a socket that listens on its address or is about to see that the
\* server has stopped: the executor of stopServe closes no socket under it.
THEOREM AcceptorsAreFresh ==
  ASSUME Restart = FALSE, StartUnbound = FALSE, EarlyClients = FALSE
  PROVE  Spec => []NoStaleAccept
<1>1. TcpInv => NoStaleAccept
  <2> SUFFICES ASSUME TcpInv, NEW i \in DOMAIN acc,
                      cur = i \/ \E j \in DOMAIN ready : ready[j].run = "acceptor" /\ ready[j].id = i
               PROVE  /\ acc[i].fd # None /\ sock[acc[i].fd].use = "listen"
                      /\ sock[acc[i].fd].addr = acc[i].addr
    BY DEF NoStaleAccept
  <2>1. acc \in Seq(Acceptors)
    BY DEF TcpInv, TcpTypes, LoopTypes
  <2>2. acc[i] \in Acceptors /\ i # None
    BY <2>1 DEF None
  <2>3. acc[i].fd \in Fds /\ None \notin Fds
    BY <2>2 DEF Acceptors, None, Fds
  <2>4. Open(i)
    BY <2>2 DEF TcpInv, RunsOpen, QueuedOpen, QueuedAcceptor
  <2> QED BY <2>3, <2>4 DEF Open
<1> QED BY <1>1, TcpInvHolds, PTL

-----------------------------------------------------------------------------
(* PrioBlancer.                                                            *)

\* The number of a set that no other exceeds is its Max.
LEMMA MaxIs ==
  ASSUME NEW S \in SUBSET Int, NEW m \in S, \A x \in S : x <= m
  PROVE  Max(S) = m
<1> DEFINE M == CHOOSE x \in S : \A y \in S : x >= y
<1>1. M \in S /\ \A y \in S : M >= y
  BY DEF Max
<1>2. M >= m /\ m >= M /\ M \in Int /\ m \in Int
  BY <1>1
<1> HIDE DEF M
<1>3. M = m
  BY <1>2
<1> QED BY <1>3 DEF M, Max

\* A non-empty set of numbers that has a bound has a greatest element.
LEMMA MaxIn ==
  ASSUME NEW S \in SUBSET Int, S # {}, NEW b \in Int, \A x \in S : x <= b
  PROVE  Max(S) \in S /\ \A x \in S : x <= Max(S)
<1> DEFINE T == {n \in Nat : b - n \in S}
<1>1. T \in SUBSET Nat /\ T # {}
  <2>1. PICK x \in S : TRUE
    OBVIOUS
  <2>2. b - x \in Nat /\ b - (b - x) = x
    BY <2>1
  <2> QED BY <2>2
<1>2. PICK n \in T : \A k \in T : n <= k
  BY <1>1, LeastNumber
<1>3. b - n \in S
  BY <1>2
<1>4. \A x \in S : x <= b - n
  <2> SUFFICES ASSUME NEW x \in S PROVE x <= b - n
    OBVIOUS
  <2>1. b - x \in Nat /\ b - (b - x) = x
    OBVIOUS
  <2>2. b - x \in T
    BY <2>1
  <2>3. n <= b - x /\ n \in Nat
    BY <1>2, <2>2
  <2> QED BY <2>3
<1>5. Max(S) = b - n
  BY <1>3, <1>4, MaxIs
<1> QED BY <1>3, <1>4, <1>5

\* The levels are numbered from 0, and a level has workers if it was given threads.
LEMMA LevelsAre ==
         /\ Len(PrioThreads) \in Nat \ {0} /\ Levels = 0..(Len(PrioThreads) - 1)
         /\ Max(Levels) = Len(PrioThreads) - 1
         /\ MostOf \in Nat
         /\ \A l \in Levels : PrioThreads[l + 1] \in Nat /\ PrioThreads[l + 1] <= MostOf
<1>1. PrioThreads \in Seq(0..255) /\ Threads # {} /\ Len(PrioThreads) \in Nat
  BY TcpAssumption
<1>2. PICK t \in Threads : TRUE
  BY <1>1
<1>3. PICK k \in Levels, i \in 1..MostOf : t = <<k, i>>
  BY <1>2 DEF Threads, Workers
<1>4. Len(PrioThreads) # 0
  BY <1>1, <1>3 DEF Levels
<1>5. Max(Levels) = Len(PrioThreads) - 1
  <2>1. Levels \in SUBSET Int /\ Len(PrioThreads) - 1 \in Levels
        /\ \A x \in Levels : x <= Len(PrioThreads) - 1
    BY <1>1, <1>4 DEF Levels
  <2> QED BY <2>1, MaxIs
<1> DEFINE S == {PrioThreads[j] : j \in 1..Len(PrioThreads)}
           U == 0..255
<1>6. U \in SUBSET Nat /\ \A x \in U : x <= 255
  OBVIOUS
<1>7. S \subseteq U /\ S # {}
  <2>1. PrioThreads \in Seq(U)
    BY <1>1
  <2> HIDE DEF U
  <2>2. \A j \in 1..Len(PrioThreads) : PrioThreads[j] \in U
    BY <2>1
  <2>3. 1 \in 1..Len(PrioThreads)
    BY <1>1, <1>4
  <2>4. PrioThreads[1] \in S
    BY <2>3
  <2>5. \A x \in S : x \in U
    BY <2>2
  <2> QED BY <2>4, <2>5
<1> HIDE DEF U
<1>8. MostOf = Max(S)
  BY DEF MostOf
<1>9. \A l \in Levels : PrioThreads[l + 1] \in S
  <2>1. \A l \in Levels : l + 1 \in 1..Len(PrioThreads)
    BY <1>1 DEF Levels
  <2> QED BY <2>1
<1> HIDE DEF S
<1>10. Max(S) \in S /\ \A x \in S : x <= Max(S)
  <2>1. S \in SUBSET Int /\ \A x \in S : x <= 255
    BY <1>6, <1>7
  <2>2. 255 \in Int
    OBVIOUS
  <2> QED BY <2>1, <2>2, <1>7, MaxIn
<1>11. MostOf \in Nat /\ \A l \in Levels : PrioThreads[l + 1] \in Nat /\ PrioThreads[l + 1] <= MostOf
  <2>1. \A x \in S : x \in Nat
    BY <1>6, <1>7
  <2> QED BY <2>1, <1>8, <1>9, <1>10
<1> QED BY <1>1, <1>4, <1>5, <1>11 DEF Levels

\* A priority has a thread exactly if its count is positive.
LEMMA LevelHasThread ==
  ASSUME NEW p \in Levels
  PROVE  (\E t \in Threads : t[1] = p) <=> PrioThreads[p + 1] > 0
<1>1. PrioThreads[p + 1] \in Nat /\ PrioThreads[p + 1] <= MostOf /\ MostOf \in Nat
  BY LevelsAre
<1>2. ASSUME NEW t \in Threads, t[1] = p PROVE PrioThreads[p + 1] > 0
  <2>1. PICK l \in Levels, i \in 1..MostOf : t = <<l, i>>
    BY DEF Threads, Workers
  <2>2. i <= PrioThreads[p + 1]
    BY <1>2, <2>1 DEF Threads
  <2> QED BY <2>2, <1>1
<1>3. ASSUME PrioThreads[p + 1] > 0 PROVE \E t \in Threads : t[1] = p
  <2>1. 1 \in 1..MostOf
    BY <1>1, <1>3
  <2>2. <<p, 1>> \in Workers
    BY <2>1 DEF Workers
  <2>3. <<p, 1>> \in Threads /\ <<p, 1>>[1] = p
    BY <2>2, <1>1, <1>3 DEF Threads
  <2> QED BY <2>3
<1> QED BY <1>2, <1>3

\* The priorities up to p that have workers, and -1.
Staffed(p) == {-1} \cup {q \in 0..p : PrioWorkers(q) # {}}

\* The highest priority not above p that has a worker, or -1, is there.
LEMMA StaffedMax ==
  ASSUME NEW p \in Int, p >= -1
  PROVE  /\ Max(Staffed(p)) \in Staffed(p) /\ \A q \in Staffed(p) : q <= Max(Staffed(p))
         /\ p = -1 => Max(Staffed(p)) = -1
         /\ p # -1 /\ PrioWorkers(p) # {} => Max(Staffed(p)) = p
         /\ p # -1 /\ PrioWorkers(p) = {} => Staffed(p) = Staffed(p - 1)
<1>1. Staffed(p) \in SUBSET Int /\ Staffed(p) # {} /\ \A q \in Staffed(p) : q <= p
  BY DEF Staffed
<1>2. Max(Staffed(p)) \in Staffed(p) /\ \A q \in Staffed(p) : q <= Max(Staffed(p))
  BY <1>1, MaxIn
<1>3. ASSUME p = -1 PROVE Max(Staffed(p)) = -1
  <2>1. -1 \in Staffed(p)
    BY DEF Staffed
  <2> QED BY <2>1, <1>1, <1>3, MaxIs
<1>4. ASSUME p # -1, PrioWorkers(p) # {} PROVE Max(Staffed(p)) = p
  <2>1. p \in Staffed(p)
    BY <1>4 DEF Staffed
  <2> QED BY <2>1, <1>1, MaxIs
<1>5. ASSUME p # -1, PrioWorkers(p) = {} PROVE Staffed(p) = Staffed(p - 1)
  <2>1. \A q : q \in 0..p /\ q # p <=> q \in 0..(p - 1)
    OBVIOUS
  <2> QED BY <2>1, <1>5 DEF Staffed
<1> QED BY <1>2, <1>3, <1>4, <1>5

\* The descent of schedule ends at the highest priority that has workers.
LEMMA PrioLevelIs ==
  ASSUME NEW arg \in Nat
  PROVE  PrioLevel(arg) = Max(Staffed(IF arg > Max(Levels) THEN Max(Levels) ELSE arg))
<1> DEFINE M == Max(Levels)
           F(f) == [p \in -1..M |-> IF p = -1 \/ PrioWorkers(p) # {} THEN p ELSE f[p - 1]]
           down == CHOOSE f : f = F(f)
           a == IF arg > M THEN M ELSE arg
           g == [p \in -1..M |-> Max(Staffed(p))]
<1>1. M \in Nat
  BY LevelsAre
<1>2. PrioLevel(arg) = down[a]
  BY DEF PrioLevel
<1> HIDE DEF M
<1>3. g = F(g)
  <2>1. ASSUME NEW p \in -1..M
        PROVE  g[p] = IF p = -1 \/ PrioWorkers(p) # {} THEN p ELSE g[p - 1]
    <3>1. p \in Int /\ p >= -1 /\ g[p] = Max(Staffed(p))
      BY <1>1
    <3>2. CASE p = -1 \/ PrioWorkers(p) # {}
      BY <3>1, <3>2, StaffedMax
    <3>3. CASE ~(p = -1 \/ PrioWorkers(p) # {})
      <4>1. Staffed(p) = Staffed(p - 1) /\ p - 1 \in -1..M
        BY <3>1, <3>3, <1>1, StaffedMax
      <4>2. g[p - 1] = Max(Staffed(p - 1))
        BY <4>1
      <4> QED BY <3>1, <3>3, <4>1, <4>2
    <3> QED BY <3>2, <3>3
  <2> QED BY <2>1
<1> HIDE DEF g, down
<1>4. down = F(down)
  BY <1>3 DEF down
<1>5. \A p \in -1..M : down[p] = g[p]
  <2> SUFFICES ASSUME NEW q \in -1..M, down[q] # g[q] PROVE FALSE
    OBVIOUS
  <2> DEFINE T == {n \in Nat : n - 1 \in -1..M /\ down[n - 1] # g[n - 1]}
  <2>1. q + 1 \in T /\ T \in SUBSET Nat
    <3>1. q + 1 \in Nat /\ (q + 1) - 1 = q
      BY <1>1
    <3> QED BY <3>1
  <2>2. PICK m \in T : \A n \in T : m <= n
    BY <2>1, LeastNumber
  <2>3. m \in Nat /\ m - 1 \in -1..M /\ down[m - 1] # g[m - 1] /\ m - 1 \in Int
    BY <2>2, <1>1
  <2>4. PICK p \in -1..M : p = m - 1
    BY <2>3
  <2>5. /\ down[p] = IF p = -1 \/ PrioWorkers(p) # {} THEN p ELSE down[p - 1]
        /\ g[p] = IF p = -1 \/ PrioWorkers(p) # {} THEN p ELSE g[p - 1]
    BY <1>3, <1>4
  <2>6. ~(p = -1 \/ PrioWorkers(p) # {})
    BY <2>3, <2>4, <2>5
  <2>7. m - 1 \in Nat /\ (m - 1) - 1 \in -1..M /\ (m - 1) - 1 = p - 1
    BY <2>3, <2>4, <2>6, <1>1
  <2>8. m - 1 \notin T
    BY <2>2, <2>3
  <2>9. down[p - 1] = g[p - 1]
    BY <2>7, <2>8
  <2> QED BY <2>3, <2>4, <2>5, <2>6, <2>9
<1>6. a \in -1..M
  BY <1>1
<1> QED BY <1>2, <1>5, <1>6 DEF g, M

\* What PrioHonoured promises for a priority.
BestPrio(arg) == Max({-1} \cup {p \in Levels : p <= arg /\ PrioThreads[p + 1] > 0})

\* With all managers published the descent ends at the best priority there is.
LEMMA PrioLevelIsBest ==
  ASSUME NEW arg \in Nat, Range(managers) = Threads
  PROVE  PrioLevel(arg) = BestPrio(arg)
<1> DEFINE a == IF arg > Max(Levels) THEN Max(Levels) ELSE arg
<1>1. Max(Levels) \in Nat /\ Levels = 0..Max(Levels)
  BY LevelsAre
<1>2. \A p \in Levels : PrioWorkers(p) # {} <=> PrioThreads[p + 1] > 0
  BY LevelHasThread DEF PrioWorkers
<1>3. \A p : p \in 0..a <=> p \in Levels /\ p <= arg
  BY <1>1
<1> HIDE DEF a
<1>4. {q \in 0..a : PrioWorkers(q) # {}} = {p \in Levels : p <= arg /\ PrioThreads[p + 1] > 0}
  BY <1>2, <1>3
<1>5. Staffed(a) = {-1} \cup {p \in Levels : p <= arg /\ PrioThreads[p + 1] > 0}
  BY <1>4 DEF Staffed
<1> QED BY <1>5, PrioLevelIs DEF a, BestPrio

\* The descent ends at a priority that has workers, or at -1.
LEMMA PrioLevelHasWorkers ==
  ASSUME NEW arg \in Nat, PrioLevel(arg) # -1
  PROVE  PrioWorkers(PrioLevel(arg)) # {}
<1> DEFINE a == IF arg > Max(Levels) THEN Max(Levels) ELSE arg
<1>1. a \in Int /\ a >= -1
  BY LevelsAre
<1>2. PrioLevel(arg) = Max(Staffed(a))
  BY PrioLevelIs
<1> HIDE DEF a
<1>3. Max(Staffed(a)) \in Staffed(a)
  BY <1>1, StaffedMax
<1> QED BY <1>2, <1>3 DEF Staffed

\* The server's thread is none of the balancer's.
LEMMA MainIsNoThread == Main \notin Threads
<1> SUFFICES ASSUME NEW t \in Threads PROVE t # Main
  OBVIOUS
<1>1. PICK l \in Levels, i \in 1..MostOf : t = <<l, i>>
  BY DEF Threads, Workers
<1>2. l # -1
  BY DEF Levels
<1> QED BY <1>1, <1>2 DEF Main

\* Each callback handed to a thread of PrioBlancer has, for the priority asked for,
\* the best there is; what was dropped has none.
PrioInv ==
  /\ queue \in [Managers -> SUBSET Callbacks]
  /\ served \in [Managers -> SUBSET Callbacks]
  /\ kind = "prio" =>
       /\ Range(managers) \subseteq Threads
       /\ \A t \in Threads : \A cb \in queue[t] \cup served[t] : t[1] = BestPrio(cb.arg)
       /\ \A cb \in dropped : BestPrio(cb.arg) = -1

\* PrioInv depends on the queues, the dropped callbacks and the managers only.
LEMMA PrioSame ==
  ASSUME PrioInv, UNCHANGED <<queue, served, dropped, kind, managers>>
  PROVE  PrioInv'
  BY DEF PrioInv

\* schedule honours the priority of the callback it is given.
LEMMA SchedulePrio ==
  ASSUME TcpInv, PrioInv, Published, NEW c \in Conns \cup {NoConn}, NEW arg \in Nat,
         Schedule(c, arg), UNCHANGED <<kind, managers, served>>
  PROVE  PrioInv'
<1> DEFINE cb == [conn |-> c, arg |-> arg]
<1>1. cb \in Callbacks /\ cb.arg = arg
  BY DEF Callbacks
<1>2. \/ Candidates(arg) = {} /\ dropped' = dropped \cup {cb} /\ queue' = queue
      \/ \E t \in Candidates(arg) :
           /\ queue' = IF t = Nobody \/ kind = "simple" THEN queue
                       ELSE [queue EXCEPT ![t] = @ \cup {cb}]
           /\ dropped' = dropped
  BY DEF Schedule
<1> HIDE DEF cb
<1>3. queue \in [Managers -> SUBSET Callbacks] /\ served \in [Managers -> SUBSET Callbacks]
  BY DEF PrioInv
<1>4. queue' \in [Managers -> SUBSET Callbacks]
  BY <1>1, <1>2, <1>3
<1>5. ASSUME kind = "prio"
      PROVE  /\ Range(managers) \subseteq Threads
             /\ \A t \in Threads : \A x \in queue'[t] \cup served[t] : t[1] = BestPrio(x.arg)
             /\ \A x \in dropped' : BestPrio(x.arg) = -1
  <2>1. /\ Range(managers) \subseteq Threads
        /\ \A t \in Threads : \A x \in queue[t] \cup served[t] : t[1] = BestPrio(x.arg)
        /\ \A x \in dropped : BestPrio(x.arg) = -1
    BY <1>5 DEF PrioInv
  <2>2. Range(managers) = Threads
    BY <1>5, <2>1 DEF Published, Starting
  <2>3. PrioLevel(arg) = BestPrio(arg)
    BY <2>2, PrioLevelIsBest
  <2>4. Candidates(arg) = IF PrioLevel(arg) = -1 THEN {} ELSE PrioWorkers(PrioLevel(arg))
    BY <1>5 DEF Candidates
  <2>5. CASE Candidates(arg) = {} /\ dropped' = dropped \cup {cb} /\ queue' = queue
    <3>1. BestPrio(arg) = -1
      BY <2>3, <2>4, <2>5, PrioLevelHasWorkers
    <3> QED BY <2>1, <2>5, <3>1, <1>1
  <2>6. ASSUME NEW t \in Candidates(arg), dropped' = dropped,
               queue' = IF t = Nobody \/ kind = "simple" THEN queue
                        ELSE [queue EXCEPT ![t] = @ \cup {cb}]
        PROVE  \A u \in Threads : \A x \in queue'[u] : u[1] = BestPrio(x.arg)
    <3>1. t \in Threads /\ t[1] = BestPrio(arg)
      BY <2>2, <2>3, <2>4 DEF PrioWorkers
    <3>2. t # Nobody /\ t \in Managers
      BY <3>1, NobodyIsNoManager DEF Managers
    <3>3. queue' = [queue EXCEPT ![t] = @ \cup {cb}]
      BY <1>5, <2>6, <3>2
    <3>4. \A u \in Threads : u \in Managers
      BY DEF Managers
    <3>5. ASSUME NEW u \in Threads, NEW x \in queue'[u] PROVE u[1] = BestPrio(x.arg)
      <4>1. x \in queue[u] \/ (u = t /\ x = cb)
        BY <3>2, <3>3, <3>4, <1>3
      <4> QED BY <4>1, <2>1, <3>1, <1>1
    <3> QED BY <3>5
  <2> QED BY <1>2, <2>1, <2>5, <2>6
<1> QED BY <1>3, <1>4, <1>5 DEF PrioInv

\* Every step keeps the priorities.
LEMMA StepPrioInv ==
  ASSUME TcpInv, PrioInv, [Next]_vars
  PROVE  PrioInv'
<1>1. ASSUME UserNext PROVE PrioInv'
  <2>1. UNCHANGED <<queue, served, dropped, kind, managers>>
    BY <1>1 DEF UserNext, Bind, AddBindAddr, Binds, SetSocketIniter, StartServe, StopServe, DropRef,
                bal, work
  <2> QED BY <2>1, PrioSame
<1>2. ASSUME PopAcceptor \/ CheckServing \/ AcceptWait \/ Fire \/ Closer PROVE PrioInv'
  <2>1. UNCHANGED <<queue, served, dropped, kind, managers>>
    BY <1>2 DEF PopAcceptor, CheckServing, AcceptWait, Fire, Closer, bal, work
  <2> QED BY <2>1, PrioSame
<1>3. ASSUME AcceptOne PROVE PrioInv'
  <2>1. UNCHANGED <<kind, managers, served>>
    BY <1>3 DEF AcceptOne
  <2> QED BY <2>1, <1>3, AcceptSchedules, SchedulePrio
<1>4. ASSUME RunCallback PROVE PrioInv'
  <2> DEFINE cb == Head(ready).cb
  <2>1. /\ UNCHANGED <<queue, dropped, kind, managers>>
        /\ served' = [served EXCEPT ![Main] = @ \cup {cb}]
    BY <1>4 DEF RunCallback, Finished, bal
  <2>2. cb \in Callbacks
    <3>1. ready \in Seq(Items) /\ ready # <<>> /\ Head(ready).run = "callback"
      BY <1>4 DEF RunCallback, Runs, TcpInv, TcpTypes, LoopTypes
    <3>2. Head(ready) \in Items
      BY <3>1
    <3> QED BY <3>1, <3>2 DEF Items
  <2> HIDE DEF cb
  <2>3. served' \in [Managers -> SUBSET Callbacks]
    BY <2>1, <2>2 DEF PrioInv
  <2>4. \A t \in Threads : served'[t] = served[t]
    BY <2>1, MainIsNoThread DEF PrioInv, Managers
  <2> QED BY <2>1, <2>3, <2>4 DEF PrioInv
<1>5. ASSUME NEW t \in Managers, RunRemote(t) PROVE PrioInv'
  <2>1. PICK cb \in queue[t] : /\ queue' = [queue EXCEPT ![t] = @ \ {cb}]
                               /\ served' = [served EXCEPT ![t] = @ \cup {cb}]
    BY <1>5 DEF RunRemote, Finished
  <2>2. UNCHANGED <<dropped, kind, managers>>
    BY <1>5 DEF RunRemote, bal
  <2>3. queue \in [Managers -> SUBSET Callbacks] /\ served \in [Managers -> SUBSET Callbacks]
    BY DEF PrioInv
  <2>4. queue' \in [Managers -> SUBSET Callbacks] /\ served' \in [Managers -> SUBSET Callbacks]
    BY <2>1, <2>3
  <2>5. \A u \in Managers : queue'[u] \cup served'[u] \subseteq queue[u] \cup served[u]
    BY <2>1, <2>3
  <2>6. Threads \subseteq Managers
    BY DEF Managers
  <2> QED BY <2>2, <2>4, <2>5, <2>6 DEF PrioInv
<1>6. ASSUME NEW t \in Starting, Publish(t) PROVE PrioInv'
  <2>1. managers' = Append(managers, t) /\ UNCHANGED <<queue, served, dropped, kind>>
    BY <1>6 DEF Publish, work
  <2>2. ASSUME kind = "prio" PROVE Range(managers') \subseteq Threads
    <3>1. t \in Threads /\ Range(managers) \subseteq Threads
      BY <2>2 DEF Starting, PrioInv
    <3>2. managers \in Seq(Managers)
      BY DEF TcpInv, TcpTypes, BalTypes
    <3>3. ASSUME NEW i \in DOMAIN managers' PROVE managers'[i] = t \/ managers'[i] \in Range(managers)
      <4>1. i \in 1..(Len(managers) + 1) /\ Len(managers) \in Nat
        BY <2>1, <3>2
      <4>2. CASE i = Len(managers) + 1
        BY <2>1, <3>2, <4>2
      <4>3. CASE i \in 1..Len(managers)
        BY <2>1, <3>2, <4>3 DEF Range
      <4> QED BY <4>1, <4>2, <4>3
    <3> QED BY <3>1, <3>3 DEF Range
  <2> QED BY <2>1, <2>2 DEF PrioInv
<1>7. ASSUME NEW c \in Conns, Connect(c) PROVE PrioInv'
  <2>1. UNCHANGED <<queue, served, dropped, kind, managers>>
    BY <1>7 DEF Connect, bal
  <2> QED BY <2>1, PrioSame
<1>8. ASSUME UNCHANGED vars PROVE PrioInv'
  BY <1>8, PrioSame DEF vars, bal, work
<1> QED BY <1>1, <1>2, <1>3, <1>4, <1>5, <1>6, <1>7, <1>8 DEF Next, ThreadNext, Managers

\* PrioInv holds under the conditions of TcpInv.
LEMMA PrioInvHolds ==
  ASSUME Restart = FALSE, StartUnbound = FALSE, EarlyClients = FALSE
  PROVE  Spec => []PrioInv
<1>1. Init => PrioInv
  <2> SUFFICES ASSUME Init PROVE PrioInv
    OBVIOUS
  <2>1. \A t \in Managers : queue[t] = {} /\ served[t] = {}
    BY DEF Init, Managers
  <2>2. queue \in [Managers -> SUBSET Callbacks] /\ served \in [Managers -> SUBSET Callbacks]
    BY DEF Init, Managers
  <2>3. Range(managers) = {}
    BY DEF Init, Range
  <2> QED BY <2>1, <2>2, <2>3 DEF PrioInv, Init, Managers
<1>2. TcpInv /\ PrioInv /\ [Next]_vars => PrioInv'
  BY StepPrioInv
<1> QED BY <1>1, <1>2, TcpInvHolds, PTL DEF Spec

\* PrioBlancer hands every callback to a thread of the highest priority that has
\* one and does not exceed the one asked for, and drops it only if none has: the
\* descent of schedule finds it whatever the threads of the priorities are.
THEOREM PrioritiesAreHonoured ==
  ASSUME Restart = FALSE, StartUnbound = FALSE, EarlyClients = FALSE
  PROVE  Spec => []PrioHonoured
<1>1. PrioInv => PrioHonoured
  <2> SUFFICES ASSUME PrioInv, kind = "prio"
               PROVE  /\ \A t \in Threads : \A cb \in Queue(t) : t[1] = BestPrio(cb.arg)
                      /\ \A cb \in dropped : BestPrio(cb.arg) = -1
    BY DEF PrioHonoured, BestPrio
  <2>1. \A t \in Threads : Queue(t) = queue[t] \cup served[t]
    BY MainIsNoThread DEF Queue
  <2> QED BY <2>1 DEF PrioInv
<1> QED BY <1>1, PrioInvHolds, PTL

-----------------------------------------------------------------------------
(* Every connection is in one place.                                       *)

\* The ready list holds a callback of c.
MainHas(c) == \E j \in DOMAIN ready : ready[j].run = "callback" /\ ready[j].cb.conn = c

\* The threads that have a callback of c, queued or run; the backlogs c waits in; the
\* callbacks of c that were dropped.
Handed(c) ==
  {t \in Managers : (\E cb \in queue[t] \cup served[t] : cb.conn = c) \/ (t = Main /\ MainHas(c))}
Pending(c) == {f \in Fds : sock[f].use = "listen" /\ c \in sock[f].pend}
Lost(c)    == {cb \in dropped : cb.conn = c}

OnlyAway(c)    == c \in away /\ Handed(c) = {} /\ Pending(c) = {} /\ Lost(c) = {}
OnlyPending(c) == c \notin away /\ Handed(c) = {} /\ (\E f : Pending(c) = {f}) /\ Lost(c) = {}
OnlyHanded(c)  == c \notin away /\ (\E t : Handed(c) = {t}) /\ Pending(c) = {} /\ Lost(c) = {}
OnlyLost(c)    == c \notin away /\ Handed(c) = {} /\ Pending(c) = {} /\ (\E cb : Lost(c) = {cb})

OnePlaceOf(c) == OnlyAway(c) \/ OnlyPending(c) \/ OnlyHanded(c) \/ OnlyLost(c)

OnceInv == \A c \in Conns : OnePlaceOf(c)

\* The threads that have c depend on the queues and the ready list only.
LEMMA HandedSame ==
  ASSUME NEW c, UNCHANGED <<queue, served>>, MainHas(c)' <=> MainHas(c)
  PROVE  Handed(c)' = Handed(c)
  BY DEF Handed

\* The backlogs c waits in depend on the backlogs only.
LEMMA PendingSame ==
  ASSUME NEW c, \A f \in Fds : (sock'[f].use = "listen" /\ c \in sock'[f].pend)
                                 <=> (sock[f].use = "listen" /\ c \in sock[f].pend)
  PROVE  Pending(c)' = Pending(c)
  BY DEF Pending

\* A connection whose four places are unchanged is still in one.
LEMMA PlaceSame ==
  ASSUME NEW c, OnePlaceOf(c), Handed(c)' = Handed(c), Pending(c)' = Pending(c),
         Lost(c)' = Lost(c), (c \in away') <=> (c \in away)
  PROVE  OnePlaceOf(c)'
  BY DEF OnePlaceOf, OnlyAway, OnlyPending, OnlyHanded, OnlyLost

\* The head of the ready list is taken: its callback, if it is one, is gone.
LEMMA MainTail ==
  ASSUME NEW c, ready \in Seq(Items), ready # <<>>, ready' = Tail(ready)
  PROVE  MainHas(c) <=> (MainHas(c)' \/ (Head(ready).run = "callback" /\ Head(ready).cb.conn = c))
<1>1. /\ 1 \in DOMAIN ready /\ Head(ready) = ready[1]
      /\ \A j \in DOMAIN ready' : j + 1 \in DOMAIN ready /\ ready'[j] = ready[j + 1]
  BY TailMoves
<1>2. \A j \in DOMAIN ready : j = 1 \/ (j - 1 \in DOMAIN ready' /\ ready'[j - 1] = ready[j])
  OBVIOUS
<1>3. ASSUME MainHas(c)' PROVE MainHas(c)
  <2>1. PICK j \in DOMAIN ready' : ready'[j].run = "callback" /\ ready'[j].cb.conn = c
    BY <1>3 DEF MainHas
  <2>2. j + 1 \in DOMAIN ready /\ ready'[j] = ready[j + 1]
    BY <1>1
  <2> QED BY <2>1, <2>2 DEF MainHas
<1>4. ASSUME MainHas(c), ~(Head(ready).run = "callback" /\ Head(ready).cb.conn = c) PROVE MainHas(c)'
  <2>1. PICK j \in DOMAIN ready : ready[j].run = "callback" /\ ready[j].cb.conn = c
    BY <1>4 DEF MainHas
  <2>2. j - 1 \in DOMAIN ready' /\ ready'[j - 1] = ready[j]
    BY <1>1, <1>2, <1>4, <2>1
  <2> QED BY <2>1, <2>2 DEF MainHas
<1>5. ASSUME Head(ready).run = "callback", Head(ready).cb.conn = c PROVE MainHas(c)
  BY <1>1, <1>5 DEF MainHas
<1> QED BY <1>3, <1>4, <1>5

\* An entry is added: its callback, if it is one, is there too.
LEMMA MainAppend ==
  ASSUME NEW c, ready \in Seq(Items), NEW it, ready' = Append(ready, it)
  PROVE  MainHas(c)' <=> (MainHas(c) \/ (it.run = "callback" /\ it.cb.conn = c))
<1>1. /\ DOMAIN ready = 1..Len(ready) /\ DOMAIN ready' = 1..(Len(ready) + 1) /\ Len(ready) \in Nat
      /\ ready'[Len(ready) + 1] = it /\ \A j \in 1..Len(ready) : ready'[j] = ready[j]
  <2> DEFINE S == Items \cup {it}
  <2>1. ready \in Seq(S)
    OBVIOUS
  <2>2. it \in S
    OBVIOUS
  <2> HIDE DEF S
  <2> QED BY <2>1, <2>2
<1>2. \A j \in DOMAIN ready' : j = Len(ready) + 1 \/ j \in DOMAIN ready
  BY <1>1
<1>3. Len(ready) + 1 \in DOMAIN ready' /\ DOMAIN ready \subseteq DOMAIN ready'
  BY <1>1
<1> QED BY <1>1, <1>2, <1>3 DEF MainHas

\* Entries that are no callbacks are added.
LEMMA MainConcat ==
  ASSUME NEW c, ready \in Seq(Items), NEW new \in Seq(Items), ready' = ready \o new,
         \A j \in DOMAIN new : new[j].run # "callback"
  PROVE  MainHas(c)' <=> MainHas(c)
<1>1. /\ DOMAIN ready = 1..Len(ready) /\ Len(ready) \in Nat /\ Len(new) \in Nat
      /\ DOMAIN ready' = 1..(Len(ready) + Len(new)) /\ \A j \in 1..Len(ready) : ready'[j] = ready[j]
  OBVIOUS
<1>2. ASSUME NEW j \in DOMAIN ready' PROVE j \in DOMAIN ready \/ ready'[j].run # "callback"
  <2>1. CASE j > Len(ready)
    <3>1. j - Len(ready) \in DOMAIN new /\ ready'[j] = new[j - Len(ready)]
      BY <2>1, <1>1
    <3> QED BY <3>1
  <2> QED BY <2>1, <1>1
<1>3. DOMAIN ready \subseteq DOMAIN ready'
  BY <1>1
<1> QED BY <1>1, <1>2, <1>3 DEF MainHas

\* A step that leaves the callbacks and the backlogs leaves every connection where it is.
LEMMA StaysPut ==
  ASSUME OnceInv, UNCHANGED <<queue, served, dropped, away>>,
         \A c \in Conns : MainHas(c)' <=> MainHas(c),
         \A c \in Conns : Pending(c)' = Pending(c)
  PROVE  OnceInv'
<1> SUFFICES ASSUME NEW c \in Conns PROVE OnePlaceOf(c)'
  BY DEF OnceInv
<1>1. OnePlaceOf(c)
  BY DEF OnceInv
<1>2. Handed(c)' = Handed(c)
  BY HandedSame
<1>3. Lost(c)' = Lost(c)
  BY DEF Lost
<1> QED BY <1>1, <1>2, <1>3, PlaceSame

\* Binding gives no backlog a connection and takes none.
LEMMA BindsOnce ==
  ASSUME TcpInv, OnceInv, NEW addrs \in Lists, Binds(addrs)
  PROVE  OnceInv'
<1> DEFINE n0 == [sock |-> sock, listen |-> listen, ok |-> TRUE]
           m  == Bound(addrs)
<1>1. sock \in [Fds -> Sockets] /\ listen \in Seq(Listeners) /\ initer \in BOOLEAN
  BY DEF TcpInv, TcpTypes, NetTypes, ServerTypes
<1>2. n0 \in Nets /\ n0.sock = sock
  BY <1>1 DEF Nets
<1>3. Extends(n0, m)
  BY <1>1, <1>2, BoundExtends
<1>4. sock' = m.sock /\ UNCHANGED <<ready, queue, served, dropped, away>>
  BY DEF Binds, loop, work
<1> HIDE DEF n0, m
<1>5. \A f \in Fds : IF sock[f] = Free THEN sock'[f].use = "listen" => sock'[f].pend = {}
                     ELSE sock'[f] = sock[f]
  BY <1>2, <1>3, <1>4 DEF Extends
<1>6. Free.use # "listen"
  BY DEF Free
<1>7. \A c \in Conns : \A f \in Fds : (sock'[f].use = "listen" /\ c \in sock'[f].pend)
                                        <=> (sock[f].use = "listen" /\ c \in sock[f].pend)
  BY <1>5, <1>6
<1>8. \A c \in Conns : Pending(c)' = Pending(c)
  BY <1>7, PendingSame
<1>9. \A c \in Conns : MainHas(c)' <=> MainHas(c)
  BY <1>4 DEF MainHas
<1> QED BY <1>4, <1>8, <1>9, StaysPut

\* A client's connection goes to one backlog.
LEMMA ConnectOnce ==
  ASSUME TcpInv, OnceInv, NEW d \in Conns, Connect(d)
  PROVE  OnceInv'
<1>1. d \in away /\ away' = away \ {d} /\ UNCHANGED <<ready, queue, served, dropped>>
  BY DEF Connect, loop
<1>2. PICK f \in Fds : sock[f].use = "listen" /\ sock' = [sock EXCEPT ![f].pend = @ \cup {d}]
  BY DEF Connect
<1>3. sock \in [Fds -> Sockets]
  BY DEF TcpInv, TcpTypes, NetTypes
<1>4. sock[f] \in Backlogs
  BY <1>2, <1>3 DEF Sockets, Free
<1> DEFINE b == [sock[f] EXCEPT !.pend = @ \cup {d}]
<1>5. b.use = "listen" /\ b.pend = sock[f].pend \cup {d}
  BY <1>4 DEF Backlogs
<1>6. sock' = [sock EXCEPT ![f] = b]
  BY <1>2
<1> HIDE DEF b
<1>7. \A g \in Fds : sock'[g] = IF g = f THEN b ELSE sock[g]
  BY <1>3, <1>6
<1> SUFFICES ASSUME NEW c \in Conns PROVE OnePlaceOf(c)'
  BY DEF OnceInv
<1>8. OnePlaceOf(c)
  BY DEF OnceInv
<1>9. Handed(c)' = Handed(c) /\ Lost(c)' = Lost(c)
  <2>1. MainHas(c)' <=> MainHas(c)
    BY <1>1 DEF MainHas
  <2> QED BY <2>1, <1>1, HandedSame DEF Lost
<1>10. CASE c = d
  <2>1. OnlyAway(c)
    BY <1>1, <1>8, <1>10 DEF OnePlaceOf, OnlyPending, OnlyHanded, OnlyLost
  <2>2. Pending(c)' = {f}
    <3>1. \A g \in Fds : ~(sock[g].use = "listen" /\ c \in sock[g].pend)
      BY <2>1 DEF OnlyAway, Pending
    <3> QED BY <3>1, <1>5, <1>7, <1>10 DEF Pending
  <2>3. c \notin away'
    BY <1>1, <1>10
  <2> QED BY <2>1, <2>2, <2>3, <1>9 DEF OnePlaceOf, OnlyAway, OnlyPending
<1>11. CASE c # d
  <2>1. Pending(c)' = Pending(c)
    BY <1>2, <1>5, <1>7, <1>11, PendingSame
  <2>2. (c \in away') <=> (c \in away)
    BY <1>1, <1>11
  <2> QED BY <2>1, <2>2, <1>8, <1>9, PlaceSame
<1> QED BY <1>10, <1>11

\* A connection that waits in the backlog of a socket that is closed is reset; the
\* others stay where they are.
LEMMA ClosingOnce ==
  ASSUME OnceInv, UNCHANGED <<queue, served, dropped>>,
         \A c \in Conns : MainHas(c)' <=> MainHas(c),
         \A f \in Fds : sock'[f] = sock[f] \/ sock'[f] = Free,
         away' = away \cup Backlog(sock, {f \in Fds : sock'[f] = Free})
  PROVE  OnceInv'
<1> SUFFICES ASSUME NEW c \in Conns PROVE OnePlaceOf(c)'
  BY DEF OnceInv
<1>1. OnePlaceOf(c)
  BY DEF OnceInv
<1>2. Handed(c)' = Handed(c) /\ Lost(c)' = Lost(c)
  BY HandedSame DEF Lost
<1>3. Free.use # "listen"
  BY DEF Free
<1>4. (c \in away') <=> (c \in away \/ \E f \in Pending(c) : sock'[f] = Free)
  <2>1. c \in Backlog(sock, {f \in Fds : sock'[f] = Free})
          <=> \E f \in Fds : sock'[f] = Free /\ sock[f].use = "listen" /\ c \in sock[f].pend
    BY DEF Backlog
  <2> QED BY <2>1 DEF Pending
<1>5. \A f : f \in Pending(c)' <=> (f \in Pending(c) /\ sock'[f] # Free)
  BY <1>3 DEF Pending
<1>6. CASE \E f \in Pending(c) : sock'[f] = Free
  <2>1. OnlyPending(c)
    BY <1>1, <1>6 DEF OnePlaceOf, OnlyAway, OnlyHanded, OnlyLost
  <2>2. Pending(c)' = {}
    BY <2>1, <1>5, <1>6 DEF OnlyPending
  <2> QED BY <2>1, <2>2, <1>2, <1>4, <1>6 DEF OnePlaceOf, OnlyPending, OnlyAway
<1>7. CASE ~\E f \in Pending(c) : sock'[f] = Free
  <2>1. Pending(c)' = Pending(c) /\ ((c \in away') <=> (c \in away))
    BY <1>4, <1>5, <1>7
  <2> QED BY <2>1, <1>1, <1>2, PlaceSame
<1> QED BY <1>6, <1>7

\* Running a callback leaves its connection with its thread.
LEMMA FinishedOnce ==
  ASSUME TcpInv, OnceInv, NEW t, NEW cb, Finished(t, cb), UNCHANGED <<listen, dropped, away>>,
         \A c \in Conns : Handed(c)' = Handed(c)
  PROVE  OnceInv'
<1> SUFFICES ASSUME NEW c \in Conns PROVE OnePlaceOf(c)'
  BY DEF OnceInv
<1>1. /\ \A f \in Fds : sock'[f].use = "listen" => sock'[f] = sock[f]
      /\ \A f \in Fds : sock[f].use = "listen" => sock'[f] = sock[f]
  <2>1. Connected(cb.conn).use # "listen"
    BY DEF Connected
  <2> QED BY <2>1, FinishedKeeps DEF Finished
<1>2. Pending(c)' = Pending(c)
  BY <1>1, PendingSame
<1>3. Lost(c)' = Lost(c)
  BY DEF Lost
<1> QED BY <1>2, <1>3, PlaceSame DEF OnceInv

\* A thread of the balancer runs a callback.
LEMMA RunRemoteOnce ==
  ASSUME TcpInv, PrioInv, OnceInv, NEW t \in Managers, RunRemote(t)
  PROVE  OnceInv'
<1>1. PICK cb \in queue[t] : queue' = [queue EXCEPT ![t] = @ \ {cb}] /\ Finished(t, cb)
  BY DEF RunRemote
<1>2. UNCHANGED <<listen, ready, dropped, away>>
  BY DEF RunRemote, server, loop
<1>3. \A u \in Managers : queue'[u] \cup served'[u] = queue[u] \cup served[u]
  <2>1. queue \in [Managers -> SUBSET Callbacks] /\ served \in [Managers -> SUBSET Callbacks]
    BY DEF PrioInv
  <2>2. served' = [served EXCEPT ![t] = @ \cup {cb}]
    BY <1>1 DEF Finished
  <2> QED BY <1>1, <2>1, <2>2
<1>4. ASSUME NEW c \in Conns PROVE Handed(c)' = Handed(c)
  <2>1. MainHas(c)' <=> MainHas(c)
    BY <1>2 DEF MainHas
  <2> QED BY <2>1, <1>3 DEF Handed
<1> QED BY <1>1, <1>2, <1>4, FinishedOnce

\* The server's thread runs a callback.
LEMMA RunCallbackOnce ==
  ASSUME TcpInv, PrioInv, OnceInv, RunCallback
  PROVE  OnceInv'
<1> DEFINE cb == Head(ready).cb
<1>1. /\ ready # <<>> /\ Head(ready).run = "callback" /\ ready' = Tail(ready) /\ Finished(Main, cb)
      /\ UNCHANGED <<listen, queue, dropped, away>>
  BY DEF RunCallback, Runs, server
<1>2. ready \in Seq(Items)
  BY DEF TcpInv, TcpTypes, LoopTypes
<1>3. ASSUME NEW c \in Conns PROVE Handed(c)' = Handed(c)
  <2>1. MainHas(c) <=> (MainHas(c)' \/ cb.conn = c)
    BY <1>1, <1>2, MainTail
  <2> HIDE DEF cb
  <2>2. served \in [Managers -> SUBSET Callbacks] /\ Main \in Managers
    BY DEF PrioInv, Managers
  <2>3. \A u \in Managers : served'[u] = IF u = Main THEN served[u] \cup {cb} ELSE served[u]
    BY <1>1, <2>2 DEF Finished
  <2>4. \A u \in Managers : (\E x \in queue'[u] \cup served'[u] : x.conn = c)
          <=> ((\E x \in queue[u] \cup served[u] : x.conn = c) \/ (u = Main /\ cb.conn = c))
    BY <1>1, <2>3
  <2> QED BY <2>1, <2>4 DEF Handed
<1> HIDE DEF cb
<1> QED BY <1>1, <1>3, FinishedOnce

\* accept takes a connection out of its backlog, and schedule hands it to one thread
\* or drops it.
LEMMA AcceptOneOnce ==
  ASSUME TcpInv, PrioInv, OnceInv, AcceptOne
  PROVE  OnceInv'
<1>1. UNCHANGED <<listen, served, away>>
  BY DEF AcceptOne
<1>2. Published
  BY AcceptSchedules
<1>3. PICK f \in Fds, d \in Conns \cup {NoConn}, arg \in Nat :
        sock[f] \in Backlogs /\ sock[f].use = "listen" /\ Schedule(d, arg) /\ Taken(f, d)
  BY AcceptSchedules
<1> DEFINE cb == [conn |-> d, arg |-> arg]
           it == [run |-> "callback", cb |-> cb]
<1>4. /\ ready' = IF kind = "simple" THEN Append(ready, it) ELSE ready
      /\ \/ Candidates(arg) = {} /\ dropped' = dropped \cup {cb} /\ queue' = queue
         \/ \E t \in Candidates(arg) :
              /\ queue' = IF t = Nobody \/ kind = "simple" THEN queue
                          ELSE [queue EXCEPT ![t] = @ \cup {cb}]
              /\ dropped' = dropped
  BY <1>3 DEF Schedule
<1>5. it.run = "callback" /\ it.cb = cb /\ cb.conn = d
  OBVIOUS
<1> HIDE DEF it, cb
<1>6. Candidates(arg) \subseteq Managers /\ Nobody \notin Candidates(arg)
  BY <1>2, CandidatesAreManagers DEF TcpInv
<1>7. kind = "simple" => Candidates(arg) = {Main}
  BY DEF Candidates
<1>8. queue \in [Managers -> SUBSET Callbacks] /\ ready \in Seq(Items)
  BY DEF PrioInv, TcpInv, TcpTypes, LoopTypes
<1>9. \A g \in Fds : /\ sock'[g].use = "listen" <=> sock[g].use = "listen"
                     /\ sock[g].use = "listen" =>
                          sock'[g].pend = sock[g].pend \ (IF g = f THEN {d} ELSE {})
  BY <1>1, <1>3, TakenKeeps DEF SocketsKept
<1>10. \A c \in Conns : MainHas(c)' <=> (MainHas(c) \/ (kind = "simple" /\ c = d))
  <2>1. CASE kind = "simple"
    BY <2>1, <1>4, <1>5, <1>8, MainAppend
  <2>2. CASE kind # "simple"
    BY <2>2, <1>4 DEF MainHas
  <2> QED BY <2>1, <2>2
<1> SUFFICES ASSUME NEW c \in Conns PROVE OnePlaceOf(c)'
  BY DEF OnceInv
<1>11. OnePlaceOf(c)
  BY DEF OnceInv
<1>12. CASE c # d
  <2>1. Pending(c)' = Pending(c)
    BY <1>9, <1>12, PendingSame
  <2>2. Lost(c)' = Lost(c)
    BY <1>4, <1>5, <1>12 DEF Lost
  <2>3. \A u \in Managers : (\E x \in queue'[u] : x.conn = c) <=> (\E x \in queue[u] : x.conn = c)
    BY <1>4, <1>5, <1>8, <1>12
  <2>4. Handed(c)' = Handed(c)
    BY <2>3, <1>1, <1>10, <1>12 DEF Handed
  <2> QED BY <2>1, <2>2, <2>4, <1>1, <1>11, PlaceSame
<1>13. CASE c = d
  <2>1. f \in Pending(c)
    BY <1>3, <1>13, TcpAssumption DEF Taken, Pending
  <2>2. OnlyPending(c) /\ Pending(c) = {f}
    BY <2>1, <1>11 DEF OnePlaceOf, OnlyAway, OnlyPending, OnlyHanded, OnlyLost
  <2>3. Pending(c)' = {}
    <3>1. \A g \in Fds : sock[g].use = "listen" /\ c \in sock[g].pend => g = f
      BY <2>2 DEF Pending
    <3> QED BY <3>1, <1>9, <1>13 DEF Pending
  <2>4. c \notin away'
    BY <2>2, <1>1 DEF OnlyPending
  <2>5. /\ \A u \in Managers : \A x \in queue[u] \cup served[u] : x.conn # c
        /\ ~MainHas(c)
    <3>1. Handed(c) = {} /\ Main \in Managers
      BY <2>2 DEF OnlyPending, Managers
    <3> QED BY <3>1 DEF Handed
  <2>6. CASE Candidates(arg) = {} /\ dropped' = dropped \cup {cb} /\ queue' = queue
    <3>1. Handed(c)' = {}
      BY <2>5, <2>6, <1>1, <1>7, <1>10 DEF Handed
    <3>2. Lost(c)' = {cb}
      BY <2>2, <2>6, <1>5, <1>13 DEF OnlyPending, Lost
    <3> QED BY <3>1, <3>2, <2>3, <2>4 DEF OnePlaceOf, OnlyLost
  <2>7. ASSUME NEW t \in Candidates(arg), dropped' = dropped,
               queue' = IF t = Nobody \/ kind = "simple" THEN queue
                        ELSE [queue EXCEPT ![t] = @ \cup {cb}]
        PROVE  OnePlaceOf(c)'
    <3>1. t \in Managers /\ t # Nobody
      BY <1>6
    <3>2. Lost(c)' = {}
      BY <2>2, <2>7 DEF OnlyPending, Lost
    <3>3. Handed(c)' = {t}
      <4>1. CASE kind = "simple"
        BY <4>1, <2>5, <2>7, <3>1, <1>1, <1>7, <1>10, <1>13 DEF Handed
      <4>2. CASE kind # "simple"
        <5>1. \A u \in Managers : queue'[u] = IF u = t THEN queue[u] \cup {cb} ELSE queue[u]
          BY <4>2, <2>7, <3>1, <1>8
        <5>2. \A u \in Managers : (\E x \in queue'[u] \cup served'[u] : x.conn = c) <=> u = t
          BY <5>1, <2>5, <1>1, <1>5, <1>13
        <5>3. ~MainHas(c)'
          BY <4>2, <2>5, <1>10
        <5> QED BY <5>2, <5>3, <3>1 DEF Handed
      <4> QED BY <4>1, <4>2
    <3> QED BY <3>2, <3>3, <2>3, <2>4 DEF OnePlaceOf, OnlyHanded
  <2> QED BY <1>4, <2>6, <2>7
<1> QED BY <1>12, <1>13

\* Dropping the last reference and closing the sockets reset what waits on them.
LEMMA ReleaseOnce ==
  ASSUME TcpInv, OnceInv, NEW s \in [Fds -> Sockets], NEW l, Release(s, l),
         \A f \in Fds : s[f] = sock[f] \/ s[f] = Free,
         UNCHANGED <<queue, served, dropped>>, \A c \in Conns : MainHas(c)' <=> MainHas(c)
  PROVE  OnceInv'
<1>1. \A f \in Fds : sock'[f] = sock[f] \/ sock'[f] = Free
  BY ReleaseCases DEF Stays, Dies
<1>2. away' = away \cup Backlog(sock, {f \in Fds : sock'[f] = Free})
  BY DEF Release
<1> QED BY <1>1, <1>2, ClosingOnce

\* Every step keeps each connection in one place.
LEMMA StepOnceInv ==
  ASSUME TcpInv, PrioInv, OnceInv, [Next]_vars
  PROVE  OnceInv'
<1>0. sock \in [Fds -> Sockets] /\ ready \in Seq(Items) /\ acc \in Seq(Acceptors)
      /\ listen \in Seq(Listeners)
  BY DEF TcpInv, TcpTypes, NetTypes, LoopTypes, ServerTypes
<1>1. ASSUME UNCHANGED <<sock, ready, queue, served, dropped, away>> PROVE OnceInv'
  BY <1>1, StaysPut DEF MainHas, Pending
<1>2. ASSUME NEW addrs \in Lists, Bind(addrs) PROVE OnceInv'
  BY <1>2, BindsOnce DEF Bind
<1>3. ASSUME NEW a \in Addrs, AddBindAddr(a) PROVE OnceInv'
  <2>1. <<a>> \in Lists
    BY DEF Lists
  <2> QED BY <1>3, <2>1, BindsOnce DEF AddBindAddr
<1>4. ASSUME UNCHANGED <<sock, queue, served, dropped, away>>,
             \A c \in Conns : MainHas(c)' <=> MainHas(c)
      PROVE  OnceInv'
  BY <1>4, StaysPut DEF Pending
<1>5. ASSUME SetSocketIniter PROVE OnceInv'
  BY <1>1, <1>5 DEF SetSocketIniter, net, loop, work
<1>6. ASSUME StartServe PROVE OnceInv'
  <2> DEFINE new == [i \in DOMAIN listen |-> [fd |-> listen[i].fd, addr |-> listen[i].addr, at |-> "check"]]
             q   == [i \in DOMAIN new |-> [run |-> "acceptor", id |-> Len(acc) + i]]
  <2>1. ready' = ready \o q /\ UNCHANGED <<sock, queue, served, dropped, away>>
    BY <1>6 DEF StartServe, net, work
  <2>2. DOMAIN new = 1..Len(listen) /\ Len(listen) \in Nat /\ Len(acc) \in Nat
    BY <1>0
  <2>3. q \in Seq(Items) /\ \A j \in DOMAIN q : q[j].run # "callback"
    <3>1. \A i \in 1..Len(listen) : [run |-> "acceptor", id |-> Len(acc) + i] \in Items
      BY <2>2 DEF Items
    <3> HIDE DEF new
    <3> QED BY <3>1, <2>2
  <2> HIDE DEF new, q
  <2> QED BY <2>1, <2>3, <1>0, <1>4, MainConcat
<1>7. ASSUME StopServe PROVE OnceInv'
  <2> DEFINE it == [run |-> "closer"]
  <2>1. ready' = Append(ready, it) /\ UNCHANGED <<sock, queue, served, dropped, away>>
    BY <1>7 DEF StopServe, net, work
  <2>2. it.run # "callback"
    OBVIOUS
  <2> HIDE DEF it
  <2> QED BY <2>1, <2>2, <1>0, <1>4, MainAppend
<1>8. ASSUME DropRef PROVE OnceInv'
  <2>1. Release(sock, listen) /\ UNCHANGED <<ready, queue, served, dropped>>
    BY <1>8 DEF DropRef
  <2>2. \A c \in Conns : MainHas(c)' <=> MainHas(c)
    BY <2>1 DEF MainHas
  <2> QED BY <2>1, <2>2, <1>0, ReleaseOnce
<1>9. ASSUME PopAcceptor PROVE OnceInv'
  <2>1. /\ ready # <<>> /\ Head(ready).run # "callback" /\ ready' = Tail(ready)
        /\ UNCHANGED <<sock, queue, served, dropped, away>>
    BY <1>9 DEF PopAcceptor, Runs, net, work
  <2> QED BY <2>1, <1>0, <1>4, MainTail
<1>10. ASSUME CheckServing PROVE OnceInv'
  <2>1. Release(sock, listen) /\ UNCHANGED <<ready, queue, served, dropped>>
    BY <1>10 DEF CheckServing
  <2>2. \A c \in Conns : MainHas(c)' <=> MainHas(c)
    BY <2>1 DEF MainHas
  <2> QED BY <2>1, <2>2, <1>0, ReleaseOnce
<1>11. ASSUME AcceptWait PROVE OnceInv'
  BY <1>1, <1>11 DEF AcceptWait, work
<1>12. ASSUME Fire PROVE OnceInv'
  <2>1. ready = <<>> /\ UNCHANGED <<sock, queue, served, dropped, away>>
    BY <1>12 DEF Fire, work
  <2>2. \A j \in DOMAIN ready' : ready'[j].run = "acceptor"
    <3>1. PICK F \in SUBSET Fds : \E s \in SetToSeqs(F) :
             ready' = [i \in DOMAIN s |-> [run |-> "acceptor", id |-> waiter[s[i]]]]
      BY <1>12 DEF Fire
    <3>2. PICK s \in SetToSeqs(F) :
             ready' = [i \in DOMAIN s |-> [run |-> "acceptor", id |-> waiter[s[i]]]]
      BY <3>1
    <3> QED BY <3>2
  <2>3. \A c \in Conns : MainHas(c)' <=> MainHas(c)
    BY <2>1, <2>2 DEF MainHas
  <2> QED BY <2>1, <2>3, <1>4
<1>13. ASSUME Closer, AssertFails PROVE OnceInv'
  <2>1. UNCHANGED <<sock, ready, queue, served, dropped, away>>
    BY <1>13 DEF Closer
  <2>2. \A c \in Conns : MainHas(c)' <=> MainHas(c)
    BY <2>1 DEF MainHas
  <2> QED BY <2>1, <2>2, <1>4
<1>18. ASSUME Closer, ~AssertFails PROVE OnceInv'
  <2> DEFINE l == [i \in DOMAIN listen |-> IF listen[i].fd \in ToClose THEN [listen[i] EXCEPT !.fd = None]
                                           ELSE listen[i]]
             s == Closed(sock, ToClose)
  <2>1. /\ ready # <<>> /\ Head(ready).run # "callback" /\ ready' = Tail(ready)
        /\ Release(s, l) /\ UNCHANGED <<queue, served, dropped>>
    BY <1>18 DEF Closer, Runs
  <2>2. s \in [Fds -> Sockets] /\ \A f \in Fds : s[f] = sock[f] \/ s[f] = Free
    <3>1. Free \in Sockets
      BY DEF Sockets
    <3> QED BY <3>1, <1>0 DEF Closed
  <2> HIDE DEF l, s
  <2>3. \A c \in Conns : MainHas(c)' <=> MainHas(c)
    BY <2>1, <1>0, MainTail
  <2> QED BY <2>1, <2>2, <2>3, ReleaseOnce
<1>14. ASSUME NEW t \in Starting, Publish(t) PROVE OnceInv'
  BY <1>1, <1>14 DEF Publish, net, loop, work
<1>15. ASSUME UNCHANGED vars PROVE OnceInv'
  BY <1>1, <1>15 DEF vars, net, loop, work
<1>16. ASSUME UserNext PROVE OnceInv'
  BY <1>2, <1>3, <1>5, <1>6, <1>7, <1>8, <1>16 DEF UserNext
<1>17. ASSUME ThreadNext PROVE OnceInv'
  BY <1>9, <1>10, <1>11, <1>12, <1>13, <1>18, <1>17, AcceptOneOnce, RunCallbackOnce DEF ThreadNext
<1> QED BY <1>14, <1>15, <1>16, <1>17, ConnectOnce, RunRemoteOnce DEF Next, Managers

\* Each connection is in one place all the time.
LEMMA OnceInvHolds ==
  ASSUME Restart = FALSE, StartUnbound = FALSE, EarlyClients = FALSE
  PROVE  Spec => []OnceInv
<1>1. Init => OnceInv
  <2> SUFFICES ASSUME Init, NEW c \in Conns PROVE OnlyAway(c)
    BY DEF OnceInv, OnePlaceOf
  <2>1. c \in away /\ Lost(c) = {}
    BY DEF Init, Lost
  <2>2. Pending(c) = {}
    BY DEF Init, Pending, Free
  <2>3. Handed(c) = {}
    <3>1. \A t \in Managers : queue[t] = {} /\ served[t] = {}
      BY DEF Init, Managers
    <3>2. ~MainHas(c)
      BY DEF Init, MainHas
    <3> QED BY <3>1, <3>2 DEF Handed
  <2> QED BY <2>1, <2>2, <2>3 DEF OnlyAway
<1>2. TcpInv /\ PrioInv /\ OnceInv /\ [Next]_vars => OnceInv'
  BY StepOnceInv
<1> QED BY <1>1, <1>2, TcpInvHolds, PrioInvHolds, PTL DEF Spec

\* No connection is accepted and then forgotten, or handed to two threads: from the
\* client's connect to the callback's run each is in exactly one place, also when
\* stopServe's executor or the destructor closes the socket it waits on.
THEOREM ConnectionsAreInOnePlace ==
  ASSUME Restart = FALSE, StartUnbound = FALSE, EarlyClients = FALSE
  PROVE  Spec => []ExactlyOnce
<1>1. OnceInv => ExactlyOnce
  <2> SUFFICES ASSUME OnceInv, NEW c \in Conns
               PROVE  LET cbs  == (UNION {Queue(t) : t \in Threads \cup {Main}}) \cup dropped
                          mine == {cb \in cbs : cb.conn = c}
                      IN  Cardinality({t \in Threads \cup {Main} : \E cb \in mine : cb \in Queue(t)})
                            + Cardinality({f \in Fds : sock[f].use = "listen" /\ c \in sock[f].pend})
                            + Cardinality(dropped \cap mine) + (IF c \in away THEN 1 ELSE 0) = 1
    BY DEF ExactlyOnce
  <2> DEFINE cbs  == (UNION {Queue(t) : t \in Threads \cup {Main}}) \cup dropped
             mine == {cb \in cbs : cb.conn = c}
  <2>1. \A t \in Managers : (\E cb \in Queue(t) : cb.conn = c)
          <=> ((\E cb \in queue[t] \cup served[t] : cb.conn = c) \/ (t = Main /\ MainHas(c)))
    <3>1. (\E cb \in {ready[i].cb : i \in {j \in DOMAIN ready : ready[j].run = "callback"}} : cb.conn = c)
            <=> MainHas(c)
      BY DEF MainHas
    <3> QED BY <3>1 DEF Queue
  <2>2. \A t \in Managers : (\E cb \in mine : cb \in Queue(t)) <=> (\E cb \in Queue(t) : cb.conn = c)
    BY DEF Managers
  <2>3. {t \in Threads \cup {Main} : \E cb \in mine : cb \in Queue(t)} = Handed(c)
    BY <2>1, <2>2 DEF Handed, Managers
  <2>4. dropped \cap mine = Lost(c)
    <3>1. dropped \subseteq cbs
      OBVIOUS
    <3> HIDE DEF cbs
    <3>2. \A cb : cb \in dropped \cap mine <=> cb \in Lost(c)
      BY <3>1 DEF Lost
    <3> HIDE DEF mine
    <3> QED BY <3>2
  <2>5. {f \in Fds : sock[f].use = "listen" /\ c \in sock[f].pend} = Pending(c)
    BY DEF Pending
  <2> HIDE DEF cbs, mine
  <2>6. Cardinality({}) = 0 /\ \A x : Cardinality({x}) = 1
    BY FS_EmptySet, FS_Singleton
  <2>7. Cardinality(Handed(c)) + Cardinality(Pending(c)) + Cardinality(Lost(c))
          + (IF c \in away THEN 1 ELSE 0) = 1
    <3>1. CASE OnlyAway(c)
      BY <3>1, <2>6 DEF OnlyAway
    <3>2. CASE OnlyPending(c)
      <4>1. Cardinality(Pending(c)) = 1 /\ Handed(c) = {} /\ Lost(c) = {} /\ c \notin away
        BY <3>2, <2>6 DEF OnlyPending
      <4> QED BY <4>1, <2>6
    <3>3. CASE OnlyHanded(c)
      <4>1. Cardinality(Handed(c)) = 1 /\ Pending(c) = {} /\ Lost(c) = {} /\ c \notin away
        BY <3>3, <2>6 DEF OnlyHanded
      <4> QED BY <4>1, <2>6
    <3>4. CASE OnlyLost(c)
      <4>1. Cardinality(Lost(c)) = 1 /\ Handed(c) = {} /\ Pending(c) = {} /\ c \notin away
        BY <3>4, <2>6 DEF OnlyLost
      <4> QED BY <4>1, <2>6
    <3> QED BY <3>1, <3>2, <3>3, <3>4 DEF OnceInv, OnePlaceOf
  <2> QED BY <2>3, <2>4, <2>5, <2>7 DEF cbs, mine
<1> QED BY <1>1, OnceInvHolds, PTL

-----------------------------------------------------------------------------
(* SequenceIOBalancer spreads the callbacks.                               *)

\* The callbacks a thread was handed, run or not, and that none is of a failed
\* accept: all of these look alike, and a set holds one of them.
Given(t) == queue[t] \cup served[t]
NoneFailed == \A t \in Managers : \A cb \in Given(t) : cb.conn # NoConn

\* The places from st up to count c, round the end: they have one callback more.
Ahead(st, c, x) == IF st <= c THEN st <= x /\ x < c ELSE st <= x \/ x < c

Even ==
  \E m \in Nat, st \in 0..(Cardinality(Threads) - 1) :
    \A x \in 0..(Cardinality(Threads) - 1) :
      Cardinality(Given(managers[x + 1])) = m + (IF Ahead(st, count, x) THEN 1 ELSE 0)

\* The managers are different threads, none gets a callback before all are
\* published, and then they are even.
EvenInv ==
  kind = "sequence" =>
    /\ \A c : ~MainHas(c)
    /\ \A i, j \in DOMAIN managers : managers[i] = managers[j] => i = j
    /\ \A t \in Managers : IsFiniteSet(Given(t))
    /\ ~Published => \A t \in Managers : Given(t) = {}
    /\ Published /\ NoneFailed => Even

\* One turn of the count.
LEMMA Turned ==
  ASSUME NEW N \in Nat \ {0}, NEW c \in 0..(N - 1), NEW st \in 0..(N - 1), NEW x \in 0..(N - 1),
         NEW d, d = (c + 1) % N
  PROVE  /\ d \in 0..(N - 1) /\ ~Ahead(st, c, c)
         /\ d # st => (Ahead(st, d, x) <=> (Ahead(st, c, x) \/ x = c))
         /\ d = st => ~Ahead(st, d, x) /\ (x # c => Ahead(st, c, x))
<1>1. d = IF c + 1 = N THEN 0 ELSE c + 1
  OBVIOUS
<1> QED BY <1>1 DEF Ahead

\* N numbers f that are even, and g that are f with one more in place c.
Level(N, f, m, st, c) == \A x \in 0..(N - 1) : f[x] = m + (IF Ahead(st, c, x) THEN 1 ELSE 0)
OneMore(N, f, g, c)   == \A x \in 0..(N - 1) : g[x] = IF x = c THEN f[x] + 1 ELSE f[x]

\* The next of the managers that are even gets a callback.
LEMMA EvenNext ==
  ASSUME NEW N \in Nat \ {0}, NEW c \in 0..(N - 1), NEW d, d = (c + 1) % N,
         NEW f, NEW g, NEW m \in Nat, NEW st \in 0..(N - 1),
         Level(N, f, m, st, c), OneMore(N, f, g, c)
  PROVE  \E k \in Nat, s \in 0..(N - 1) : Level(N, g, k, s, d)
<1>1. \A x \in 0..(N - 1) : /\ ~Ahead(st, c, c)
                            /\ d # st => (Ahead(st, d, x) <=> (Ahead(st, c, x) \/ x = c))
                            /\ d = st => ~Ahead(st, d, x) /\ (x # c => Ahead(st, c, x))
  BY Turned
<1>2. CASE d # st
  <2>1. \A x \in 0..(N - 1) : g[x] = m + (IF Ahead(st, d, x) THEN 1 ELSE 0)
    BY <1>1, <1>2 DEF Level, OneMore
  <2> QED BY <2>1 DEF Level
<1>3. CASE d = st
  <2>1. \A x \in 0..(N - 1) : g[x] = (m + 1) + (IF Ahead(st, d, x) THEN 1 ELSE 0)
    BY <1>1, <1>3 DEF Level, OneMore
  <2>2. m + 1 \in Nat
    OBVIOUS
  <2> QED BY <2>1, <2>2 DEF Level
<1> QED BY <1>2, <1>3

\* Steps that schedule nothing and publish nothing.
LEMMA EvenSame ==
  ASSUME EvenInv, UNCHANGED <<kind, managers, count>>, \A t \in Managers : Given(t)' = Given(t),
         kind = "sequence" => \A c : MainHas(c)' => MainHas(c),
         TcpTypes
  PROVE  EvenInv'
<1> SUFFICES ASSUME kind = "sequence"
             PROVE  (/\ \A c : ~MainHas(c)
                     /\ \A i, j \in DOMAIN managers : managers[i] = managers[j] => i = j
                     /\ \A t \in Managers : IsFiniteSet(Given(t))
                     /\ ~Published => \A t \in Managers : Given(t) = {}
                     /\ Published /\ NoneFailed => Even)'
  BY DEF EvenInv
<1>1. Published' <=> Published
  BY DEF Published, Starting
<1>2. NoneFailed' <=> NoneFailed
  BY DEF NoneFailed
<1>3. ASSUME Published, Even PROVE Even'
  <2>1. \A x \in 0..(Cardinality(Threads) - 1) : managers[x + 1] \in Managers
    <3>1. Cardinality(Threads) \in Nat /\ Cardinality(Threads) <= Len(managers) /\ managers \in Seq(Managers)
      BY <1>3, EnoughManagers DEF TcpTypes, BalTypes
    <3> SUFFICES ASSUME NEW x \in 0..(Cardinality(Threads) - 1) PROVE managers[x + 1] \in Managers
      OBVIOUS
    <3>2. x + 1 \in 1..Len(managers)
      BY <3>1
    <3> QED BY <3>1, <3>2
  <2> QED BY <1>3, <2>1 DEF Even
<1> QED BY <1>1, <1>2, <1>3 DEF EvenInv

\* A connection that is handed over is given to a manager that had none of it, and
\* the count moves on to the next one.
LEMMA EvenAccept ==
  ASSUME TcpInv, PrioInv, OnceInv, EvenInv, AcceptOne
  PROVE  EvenInv'
<1> SUFFICES ASSUME kind = "sequence"
             PROVE  (/\ \A c : ~MainHas(c)
                     /\ \A i, j \in DOMAIN managers : managers[i] = managers[j] => i = j
                     /\ \A t \in Managers : IsFiniteSet(Given(t))
                     /\ ~Published => \A t \in Managers : Given(t) = {}
                     /\ Published /\ NoneFailed => Even)'
  <2>1. kind' = kind
    BY DEF AcceptOne
  <2> QED BY <2>1 DEF EvenInv
<1> DEFINE N == Cardinality(Threads)
<1>1. UNCHANGED <<served, kind, managers>>
  BY DEF AcceptOne
<1>2. Published /\ Published'
  <2>1. Published
    BY AcceptSchedules
  <2> QED BY <2>1, <1>1 DEF Published, Starting
<1>3. PICK f \in Fds, d \in Conns \cup {NoConn}, arg \in Nat :
        sock[f] \in Backlogs /\ sock[f].use = "listen" /\ Schedule(d, arg) /\ Taken(f, d)
  BY AcceptSchedules
<1>4. /\ N \in Nat \ {0} /\ N <= Len(managers) /\ count \in 0..(N - 1)
      /\ managers \in Seq(Managers) /\ Len(managers) \in Nat
  BY <1>2, EnoughManagers DEF TcpInv, TcpTypes, BalTypes
<1> DEFINE cb == [conn |-> d, arg |-> arg]
<1>5. PICK t \in Managers : t = managers[count + 1] /\ Candidates(arg) = {t} /\ t # Nobody
  <2>1. count + 1 \in 1..Len(managers) /\ count < Len(managers)
    BY <1>4
  <2>2. Slot(count) = managers[count + 1] /\ managers[count + 1] \in Managers
    BY <2>1, <1>4 DEF Slot
  <2> QED BY <2>2, NobodyIsNoManager DEF Candidates
<1>6. cb.conn = d
  OBVIOUS
<1>7. ready' = ready /\ count' = (count + 1) % N /\ queue' = [queue EXCEPT ![t] = @ \cup {cb}]
  BY <1>3, <1>5 DEF Schedule, NextCount
<1> HIDE DEF cb, N
<1>8. \A u \in Managers : Given(u)' = IF u = t THEN Given(u) \cup {cb} ELSE Given(u)
  BY <1>1, <1>5, <1>7 DEF Given, PrioInv
<1>9. \A c : ~MainHas(c)'
  BY <1>7 DEF EvenInv, MainHas
<1>10. \A u \in Managers : IsFiniteSet(Given(u)) /\ IsFiniteSet(Given(u)')
  BY <1>8, FS_AddElement DEF EvenInv
<1>11. ASSUME NoneFailed' PROVE Even'
  <2>1. NoneFailed /\ d # NoConn
    BY <1>5, <1>6, <1>8, <1>11 DEF NoneFailed
  <2>2. d \in Conns
    BY <2>1
  <2>3. cb \notin Given(t)
    <3>1. f \in Pending(d)
      BY <2>1, <1>3 DEF Taken, Pending
    <3>2. OnePlaceOf(d)
      BY <2>2 DEF OnceInv
    <3>3. Handed(d) = {}
      BY <3>1, <3>2 DEF OnePlaceOf, OnlyAway, OnlyPending, OnlyHanded, OnlyLost
    <3> QED BY <3>3, <1>5, <1>6 DEF Handed, Given
  <2>4. Cardinality(Given(t)') = Cardinality(Given(t)) + 1
    <3>1. Given(t)' = Given(t) \cup {cb} /\ IsFiniteSet(Given(t))
      BY <1>8, <1>10
    <3>2. Cardinality(Given(t) \cup {cb}) = Cardinality(Given(t)) + 1
      BY <3>1, <2>3, FS_AddElement
    <3> QED BY <3>1, <3>2
  <2> DEFINE g0 == [x \in 0..(N - 1) |-> Cardinality(Given(managers[x + 1]))]
             g1 == [x \in 0..(N - 1) |-> Cardinality(queue'[managers[x + 1]] \cup served'[managers[x + 1]])]
  <2>5. PICK m \in Nat, st \in 0..(N - 1) :
          \A x \in 0..(N - 1) : Cardinality(Given(managers[x + 1])) = m + (IF Ahead(st, count, x) THEN 1 ELSE 0)
    BY <2>1, <1>2 DEF EvenInv, Even, N
  <2>6. Level(N, g0, m, st, count)
    BY <2>5 DEF Level
  <2>7. ASSUME NEW x \in 0..(N - 1) PROVE g1[x] = IF x = count THEN g0[x] + 1 ELSE g0[x]
    <3>1. x + 1 \in DOMAIN managers /\ managers[x + 1] \in Managers /\ count + 1 \in DOMAIN managers
      BY <1>4
    <3>2. CASE x = count
      BY <3>2, <2>4, <1>5 DEF Given
    <3>3. CASE x # count
      <4>1. managers[x + 1] # t
        <5>1. \A i, j \in DOMAIN managers : managers[i] = managers[j] => i = j
          BY DEF EvenInv
        <5>2. managers[x + 1] = managers[count + 1] => x + 1 = count + 1
          BY <5>1, <3>1
        <5> QED BY <5>2, <3>3, <1>4, <1>5
      <4>2. queue'[managers[x + 1]] \cup served'[managers[x + 1]] = Given(managers[x + 1])
        BY <4>1, <3>1, <1>8 DEF Given
      <4> QED BY <4>2, <3>3
    <3> QED BY <3>2, <3>3
  <2> HIDE DEF g0
  <2>8. OneMore(N, g0, g1, count)
    BY <2>7 DEF OneMore
  <2>9. PICK k \in Nat, s \in 0..(N - 1) : Level(N, g1, k, s, count')
    <3> HIDE DEF g1
    <3> QED BY <2>6, <2>8, <1>4, <1>7, EvenNext
  <2>10. \A x \in 0..(N - 1) : (Cardinality(Given(managers[x + 1])) = k + (IF Ahead(s, count, x) THEN 1 ELSE 0))'
    BY <2>9, <1>1 DEF Given, Level
  <2> QED BY <2>10 DEF Even, N
<1>12. \A i, j \in DOMAIN managers : managers[i] = managers[j] => i = j
  BY DEF EvenInv
<1> QED BY <1>1, <1>2, <1>9, <1>10, <1>11, <1>12

\* A manager is published once; the last one finds all without a callback.
LEMMA EvenPublish ==
  ASSUME TcpInv, EvenInv, NEW t \in Starting, Publish(t), TcpTypes'
  PROVE  EvenInv'
<1>1. /\ kind' = kind /\ count' = count /\ managers' = Append(managers, t) /\ t \notin Range(managers)
      /\ UNCHANGED <<ready, queue, served>>
  BY DEF Publish, loop, work
<1> SUFFICES ASSUME kind = "sequence"
             PROVE  (/\ \A c : ~MainHas(c)
                     /\ \A i, j \in DOMAIN managers : managers[i] = managers[j] => i = j
                     /\ \A u \in Managers : IsFiniteSet(Given(u))
                     /\ ~Published => \A u \in Managers : Given(u) = {}
                     /\ Published /\ NoneFailed => Even)'
  BY <1>1 DEF EvenInv
<1>2. ~Published
  BY <1>1 DEF Published
<1>3. \A u \in Managers : Given(u) = {} /\ Given(u)' = {}
  BY <1>1, <1>2 DEF EvenInv, Given
<1>4. \A c : ~MainHas(c)'
  BY <1>1 DEF EvenInv, MainHas
<1>5. \A u \in Managers : IsFiniteSet(Given(u)')
  BY <1>3, FS_EmptySet
<1>6. managers \in Seq(Managers) /\ t \in Managers
  BY DEF TcpInv, TcpTypes, BalTypes, Starting, Managers
<1>7. ASSUME NEW i \in DOMAIN managers', NEW j \in DOMAIN managers', managers'[i] = managers'[j] PROVE i = j
  <2>1. /\ DOMAIN managers' = 1..(Len(managers) + 1) /\ Len(managers) \in Nat
        /\ \A k \in 1..Len(managers) : managers'[k] = managers[k] /\ managers[k] # t
        /\ managers'[Len(managers) + 1] = t /\ DOMAIN managers = 1..Len(managers)
    <3>1. \A k \in DOMAIN managers : managers[k] # t
      BY <1>1 DEF Range
    <3> QED BY <3>1, <1>1, <1>6
  <2>2. \A k, l \in 1..Len(managers) : managers[k] = managers[l] => k = l
    BY <2>1 DEF EvenInv
  <2>3. \A k \in 1..(Len(managers) + 1) : k = Len(managers) + 1 \/ k \in 1..Len(managers)
    BY <2>1
  <2> QED BY <2>1, <2>2, <2>3, <1>7
<1>8. ASSUME Published' PROVE Even'
  <2>1. /\ Cardinality(Threads) \in Nat \ {0} /\ Cardinality(Threads) <= Len(managers')
        /\ managers' \in Seq(Managers) /\ count' \in 0..(Cardinality(Threads) - 1)
    <3>1. kind' # "simple"
      BY <1>1
    <3>2. (TcpTypes /\ Published /\ kind # "simple"
             => Cardinality(Threads) \in Nat \ {0} /\ Cardinality(Threads) <= Len(managers))'
      BY EnoughManagers, PTL
    <3> QED BY <3>1, <3>2, <1>8 DEF TcpTypes, BalTypes
  <2>2. ASSUME NEW x \in 0..(Cardinality(Threads) - 1)
        PROVE  (Cardinality(Given(managers[x + 1])) = 0 + (IF Ahead(count, count, x) THEN 1 ELSE 0))'
    <3>1. x + 1 \in 1..Len(managers')
      BY <2>1
    <3>2. managers'[x + 1] \in Managers
      BY <2>1, <3>1
    <3>3. Given(managers[x + 1])' = {}
      BY <3>2, <1>1, <1>3 DEF Given
    <3>4. ~Ahead(count, count, x)'
      BY <2>1 DEF Ahead
    <3> QED BY <3>3, <3>4, FS_EmptySet
  <2> QED BY <2>1, <2>2 DEF Even
<1> QED BY <1>3, <1>4, <1>5, <1>7, <1>8

\* Every step keeps the callbacks even.
LEMMA StepEvenInv ==
  ASSUME TcpInv, PrioInv, OnceInv, EvenInv, [Next]_vars, TcpInv'
  PROVE  EvenInv'
<1>0. TcpTypes /\ TcpTypes' /\ ready \in Seq(Items) /\ acc \in Seq(Acceptors) /\ listen \in Seq(Listeners)
  BY DEF TcpInv, TcpTypes, LoopTypes, ServerTypes
<1>1. ASSUME UNCHANGED <<bal, queue, served>>, \A c : MainHas(c)' => MainHas(c) PROVE EvenInv'
  <2>1. UNCHANGED <<kind, managers, count>> /\ \A t \in Managers : Given(t)' = Given(t)
    BY <1>1 DEF bal, Given
  <2> QED BY <1>0, <1>1, <2>1, EvenSame
<1>2. ASSUME UNCHANGED <<bal, queue, served, ready>> PROVE EvenInv'
  BY <1>1, <1>2 DEF MainHas
<1>3. ASSUME NEW addrs, Binds(addrs) PROVE EvenInv'
  BY <1>2, <1>3 DEF Binds, loop, work
<1>4. ASSUME SetSocketIniter PROVE EvenInv'
  BY <1>2, <1>4 DEF SetSocketIniter, loop, work
<1>5. ASSUME StartServe PROVE EvenInv'
  <2> DEFINE new == [i \in DOMAIN listen |-> [fd |-> listen[i].fd, addr |-> listen[i].addr, at |-> "check"]]
             q   == [i \in DOMAIN new |-> [run |-> "acceptor", id |-> Len(acc) + i]]
  <2>1. ready' = ready \o q /\ UNCHANGED <<bal, queue, served>>
    BY <1>5 DEF StartServe, work
  <2>2. DOMAIN new = 1..Len(listen) /\ Len(listen) \in Nat /\ Len(acc) \in Nat
    BY <1>0
  <2>3. q \in Seq(Items) /\ \A j \in DOMAIN q : q[j].run # "callback"
    <3>1. \A i \in 1..Len(listen) : [run |-> "acceptor", id |-> Len(acc) + i] \in Items
      BY <2>2 DEF Items
    <3> HIDE DEF new
    <3> QED BY <3>1, <2>2
  <2> HIDE DEF new, q
  <2>4. \A c : MainHas(c)' <=> MainHas(c)
    BY <2>1, <2>3, <1>0, MainConcat
  <2> QED BY <2>1, <2>4, <1>1
<1>6. ASSUME StopServe PROVE EvenInv'
  <2> DEFINE it == [run |-> "closer"]
  <2>1. ready' = Append(ready, it) /\ UNCHANGED <<bal, queue, served>>
    BY <1>6 DEF StopServe, work
  <2>2. it.run # "callback"
    OBVIOUS
  <2> HIDE DEF it
  <2>3. \A c : MainHas(c)' <=> MainHas(c)
    BY <2>1, <2>2, <1>0, MainAppend
  <2> QED BY <2>1, <2>3, <1>1
<1>7. ASSUME DropRef PROVE EvenInv'
  BY <1>2, <1>7 DEF DropRef
<1>8. ASSUME ready # <<>>, ready' = Tail(ready), UNCHANGED <<bal, queue, served>> PROVE EvenInv'
  BY <1>0, <1>1, <1>8, MainTail
<1>9. ASSUME PopAcceptor PROVE EvenInv'
  BY <1>8, <1>9 DEF PopAcceptor, Runs, work
<1>10. ASSUME CheckServing PROVE EvenInv'
  BY <1>2, <1>10 DEF CheckServing
<1>11. ASSUME AcceptWait PROVE EvenInv'
  BY <1>2, <1>11 DEF AcceptWait, work
<1>12. ASSUME Fire PROVE EvenInv'
  <2>1. UNCHANGED <<bal, queue, served>>
    BY <1>12 DEF Fire, work
  <2>2. \A j \in DOMAIN ready' : ready'[j].run = "acceptor"
    <3>1. PICK F \in SUBSET Fds : \E s \in SetToSeqs(F) :
             ready' = [i \in DOMAIN s |-> [run |-> "acceptor", id |-> waiter[s[i]]]]
      BY <1>12 DEF Fire
    <3>2. PICK s \in SetToSeqs(F) :
             ready' = [i \in DOMAIN s |-> [run |-> "acceptor", id |-> waiter[s[i]]]]
      BY <3>1
    <3> QED BY <3>2
  <2>3. \A c : ~MainHas(c)'
    BY <2>2 DEF MainHas
  <2> QED BY <2>1, <2>3, <1>1
<1>13. ASSUME Closer PROVE EvenInv'
  <2>1. CASE AssertFails
    BY <1>2, <1>13, <2>1 DEF Closer
  <2>2. CASE ~AssertFails
    BY <1>8, <1>13, <2>2 DEF Closer, Runs
  <2> QED BY <2>1, <2>2
<1>14. ASSUME RunCallback PROVE EvenInv'
  <2>1. ready # <<>> /\ Head(ready).run = "callback" /\ kind' = kind
    BY <1>14 DEF RunCallback, Runs, bal
  <2>2. 1 \in DOMAIN ready /\ Head(ready) = ready[1]
    BY <2>1, <1>0
  <2>3. MainHas(ready[1].cb.conn)
    BY <2>1, <2>2 DEF MainHas
  <2> QED BY <2>1, <2>3 DEF EvenInv
<1>15. ASSUME NEW t \in Managers, RunRemote(t) PROVE EvenInv'
  <2>1. PICK cb \in queue[t] : queue' = [queue EXCEPT ![t] = @ \ {cb}] /\ Finished(t, cb)
    BY <1>15 DEF RunRemote
  <2>2. UNCHANGED <<ready, kind, managers, count>>
    BY <1>15 DEF RunRemote, loop, bal
  <2>3. \A u \in Managers : Given(u)' = Given(u)
    <3>1. queue \in [Managers -> SUBSET Callbacks] /\ served \in [Managers -> SUBSET Callbacks]
      BY DEF PrioInv
    <3>2. served' = [served EXCEPT ![t] = @ \cup {cb}]
      BY <2>1 DEF Finished
    <3> QED BY <2>1, <3>1, <3>2 DEF Given
  <2>4. \A c : MainHas(c)' => MainHas(c)
    BY <2>2 DEF MainHas
  <2> QED BY <1>0, <2>2, <2>3, <2>4, EvenSame
<1>16. ASSUME NEW c \in Conns, Connect(c) PROVE EvenInv'
  BY <1>2, <1>16 DEF Connect, loop
<1>17. ASSUME UNCHANGED vars PROVE EvenInv'
  BY <1>2, <1>17 DEF vars, loop, work
<1>18. ASSUME UserNext PROVE EvenInv'
  BY <1>3, <1>4, <1>5, <1>6, <1>7, <1>18 DEF UserNext, Bind, AddBindAddr
<1>19. ASSUME ThreadNext PROVE EvenInv'
  BY <1>9, <1>10, <1>11, <1>12, <1>13, <1>14, <1>19, EvenAccept DEF ThreadNext
<1> QED BY <1>0, <1>15, <1>16, <1>17, <1>18, <1>19, EvenPublish DEF Next, Managers

\* Wherever the static count of SequenceIOBalancer::schedule stands when the balancer
\* is made, none of the first threads_.size() managers is ever more than one callback
\* ahead of another, while no other balancer of the process moves the count: each
\* connection gets the next manager, also while threads run what they were handed.
\* Callbacks of accepts that fail (for want of descriptors) carry the same null
\* connection, and the sets that the property counts hold one of them: the theorem
\* is about servers on which no accept has failed.
THEOREM CallbacksAreSpread ==
  ASSUME Restart = FALSE, StartUnbound = FALSE, EarlyClients = FALSE
  PROVE  Spec => [](NoneFailed => EvenlySpread)
<1>1. Init => EvenInv
  <2> SUFFICES ASSUME Init PROVE EvenInv
    OBVIOUS
  <2>1. \A t \in Managers : Given(t) = {}
    BY DEF Init, Managers, Given
  <2>2. \A c : ~MainHas(c)
    BY DEF Init, MainHas
  <2>3. managers = <<>> /\ DOMAIN managers = {} /\ Range(managers) = {}
    BY DEF Init, Range
  <2>4. kind = "sequence" => ~Published
    BY <2>3, TcpAssumption DEF Published, Starting
  <2> QED BY <2>1, <2>2, <2>3, <2>4, FS_EmptySet DEF EvenInv
<1>2. TcpInv /\ PrioInv /\ OnceInv /\ EvenInv /\ [Next]_vars /\ TcpInv' => EvenInv'
  BY StepEvenInv
<1>3. TcpInv /\ EvenInv => (NoneFailed => EvenlySpread)
  <2> SUFFICES ASSUME TcpInv, EvenInv, NoneFailed, kind = "sequence", Published,
                      NEW i \in 1..Cardinality(Threads), NEW j \in 1..Cardinality(Threads)
               PROVE  Cardinality(Queue(managers[i])) - Cardinality(Queue(managers[j])) \in -1..1
    BY DEF EvenlySpread
  <2>1. \A t : Queue(t) = Given(t)
    <3>1. {ready[k].cb : k \in {n \in DOMAIN ready : ready[n].run = "callback"}} = {}
      BY DEF EvenInv, MainHas
    <3> QED BY <3>1 DEF Queue, Given
  <2>2. PICK m \in Nat, st \in 0..(Cardinality(Threads) - 1) :
          \A x \in 0..(Cardinality(Threads) - 1) :
            Cardinality(Given(managers[x + 1])) = m + (IF Ahead(st, count, x) THEN 1 ELSE 0)
    BY DEF EvenInv, Even
  <2>3. Cardinality(Threads) \in Nat
    BY EnoughManagers DEF TcpInv
  <2>4. ASSUME NEW k \in 1..Cardinality(Threads)
        PROVE  Cardinality(Given(managers[k])) = m \/ Cardinality(Given(managers[k])) = m + 1
    <3>1. k - 1 \in 0..(Cardinality(Threads) - 1) /\ (k - 1) + 1 = k
      BY <2>3
    <3>2. Cardinality(Given(managers[(k - 1) + 1])) = m + (IF Ahead(st, count, k - 1) THEN 1 ELSE 0)
      BY <2>2, <3>1
    <3> QED BY <3>1, <3>2
  <2>5. /\ Cardinality(Given(managers[i])) \in {m, m + 1}
        /\ Cardinality(Given(managers[j])) \in {m, m + 1}
    BY <2>4
  <2> QED BY <2>1, <2>5
<1> QED BY <1>1, <1>2, <1>3, TcpInvHolds, PrioInvHolds, OnceInvHolds, PTL DEF Spec
=============================================================================
