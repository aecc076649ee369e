------------------------------ MODULE TcpServer ------------------------------
(***************************************************************************)
(* A TcpServer on the IOManager of one thread, its listening Sockets, the  *)
(* coroutines that accept on them, and the balancer that hands accepted    *)
(* connections to IOManagers: its own (SimpleIOBalancer) or those of the   *)
(* balancer's threads (Random-, SequenceIOBalancer, PrioBlancer).          *)
(*                                                                         *)
(* The server's user and its coroutines run on the server's thread, in the *)
(* FIFO order of Scheduler::ready_executors_; the user's coroutine may be  *)
(* resumed between any two others.                                         *)
(***************************************************************************)
EXTENDS Integers, Sequences, FiniteSets, FiniteSetsExt, SequencesExt

CONSTANTS
  Addrs,         \* local addresses
  Conns,         \* connections that clients open
  Kinds,         \* balancers the server may be given
  PrioThreads,   \* prio_threads_count: the threads of each priority, from 0
  PrioArgs,      \* priorities an onAccept asks for; the default asks for 0
  UseCurrent,    \* use_current_thread of the averaging balancers
  Restart,       \* may startServe be called again after stopServe?
  StartUnbound,  \* may startServe be called with no listening socket?
  EarlyClients,  \* may clients connect before all managers are published?
  Asserts,       \* is the build without NDEBUG?  A failed LON_ERROR_INVOKE_ASSERT
                 \* ends the process; with NDEBUG (Release) it is only logged
  MaxFd          \* bound: descriptors are 1..MaxFd

Levels  == 0..(Len(PrioThreads) - 1)
MostOf  == Max({PrioThreads[j] : j \in 1..Len(PrioThreads)})
Workers == {<<l, i>> : l \in Levels, i \in 1..MostOf}
Threads == {w \in Workers : w[2] <= PrioThreads[w[1] + 1]}   \* threads_
Main    == <<-1, 0>>                                         \* the server's thread
Nobody  == <<-2, 0>>                                         \* no manager: memory that holds none
None    == 0                                                 \* -1, or a null pointer
NoConn  == "no connection"

ASSUME TcpAssumption ==
  /\ MaxFd \in Nat /\ Threads # {} /\ PrioArgs \subseteq Nat
  /\ PrioThreads \in Seq(0..255)   \* uint8_t
  /\ NoConn \notin Conns
  /\ {UseCurrent, Restart, StartUnbound, EarlyClients, Asserts} \subseteq BOOLEAN
  /\ Kinds \subseteq {"simple", "random", "sequence", "prio"}

VARIABLES
  sock,      \* kernel: what each descriptor is
  reg,       \* IOManager's registered_events & Read, per descriptor
  ep,        \* kernel: is the descriptor in the epoll set?
  waiter,    \* IOManager's read_executor, per descriptor: an acceptor or None
  listen,    \* listen_sockets_
  initer,    \* is a socket_initer_ set (it asks for SO_REUSEPORT)?
  serving,   \* serving_
  user,      \* does the user hold a reference to the server?
  life,      \* "alive", "joining" (its destructor blocks), "gone"; or the
             \* process has "crashed"
  acc,       \* the executors made by startServe
  ready,     \* the thread's ready_executors_
  cur,       \* the acceptor that runs, or None
  kind,      \* which balancer
  managers,  \* managers_ or, for "prio", prio_workers in one sequence
  count,     \* SequenceIOBalancer::schedule's static count, modulo the threads
  queue,     \* callbacks handed to each thread
  served,    \* callbacks each thread has run
  dropped,   \* callbacks the balancer has dropped
  away       \* connections not opened yet, or reset by a close

net    == <<sock, reg, ep, waiter>>
server == <<listen, initer, serving, user, life>>
loop   == <<acc, ready, cur>>
bal    == <<kind, managers, count>>
work   == <<queue, served, dropped, away>>
vars   == <<net, server, loop, bal, work>>

Fds    == 1..MaxFd
Free   == [use |-> "free"]
New(r) == [use |-> "socket", reuse |-> r]
Listening(a, r) == [use |-> "listen", addr |-> a, reuse |-> r, pend |-> {}]
Connected(c)    == [use |-> "conn", conn |-> c]

Init ==
  /\ sock = [f \in Fds |-> Free] /\ reg = [f \in Fds |-> FALSE]
  /\ ep = [f \in Fds |-> FALSE] /\ waiter = [f \in Fds |-> None]
  /\ listen = <<>> /\ initer = FALSE /\ serving = FALSE /\ user = TRUE /\ life = "alive"
  /\ acc = <<>> /\ ready = <<>> /\ cur = None
  /\ kind \in Kinds /\ managers = <<>> /\ count \in 0..(Cardinality(Threads) - 1)
  /\ queue = [t \in Threads \cup {Main} |-> {}] /\ served = [t \in Threads \cup {Main} |-> {}]
  /\ dropped = {} /\ away = Conns

-----------------------------------------------------------------------------
(* Balancers.                                                              *)

\* The constructors' threads, each of which adds its manager and runs it.  They
\* add one at a time here: two inside emplace_back at once are a data race on
\* the vector, after which nothing can be said.
Starting == Threads \cup (IF UseCurrent /\ kind \in {"random", "sequence"} THEN {Main} ELSE {})

Publish(t) ==
  /\ life # "crashed" /\ kind # "simple" /\ t \in Starting \ Range(managers)
  /\ managers' = Append(managers, t)
  /\ UNCHANGED <<net, server, loop, kind, count, work>>

Published == kind = "simple" \/ Starting \subseteq Range(managers)

\* PrioBlancer: prio_workers[p].
PrioWorkers(p) == {t \in Range(managers) : t[1] = p}

\* Mutant: the search goes up, not down.
PrioLevelUp(arg) ==
  LET at == {p \in Levels : p >= arg /\ PrioWorkers(p) # {}}
  IN  IF at = {} THEN -1 ELSE Min(at)

\* PrioBlancer::schedule: a priority above the last is lowered to the last;
\* while no thread has it, it is lowered by one, down to -1.  There the loop reads
\* the size of prio_workers[-1], bytes of the heap in front of the vector's own
\* block, and ends whatever it reads: its second condition, prio >= 0, is false.
PrioLevel(arg) ==
  LET down[p \in -1..Max(Levels)] ==
        IF p = -1 \/ PrioWorkers(p) # {} THEN p ELSE down[p - 1]
  IN  down[IF arg > Max(Levels) THEN Max(Levels) ELSE arg]

\* Mutant: the static count is not advanced.
NextCountStuck == count

NextCount == (count + 1) % Cardinality(Threads)

\* The threads a balancer may choose for a callback: Nobody is a manager that is
\* not there (yet), the empty set means that the callback is dropped.
Slot(i) == IF i < Len(managers) THEN managers[i + 1] ELSE Nobody

Candidates(arg) ==
  CASE kind = "simple"   -> {Main}
    [] kind = "random"   -> {Slot(i) : i \in 0..(Cardinality(Threads) - 1)}
    [] kind = "sequence" -> {Slot(count)}
    [] kind = "prio"     -> IF PrioLevel(arg) = -1 THEN {} ELSE PrioWorkers(PrioLevel(arg))

\* onAccept: the callback of connection c goes to a thread's remote tasks, with
\* SimpleIOBalancer to the end of ready list r.  Reading a missing manager is
\* undefined behaviour: the process ends.
Schedule(c, arg) ==
  LET cb == [conn |-> c, arg |-> arg]
      where == Candidates(arg)
  IN  /\ count' = IF kind = "sequence" THEN NextCount ELSE count
      /\ ready' = IF kind = "simple" THEN Append(ready, [run |-> "callback", cb |-> cb]) ELSE ready
      /\ \/ where = {} /\ dropped' = dropped \cup {cb} /\ UNCHANGED <<queue, life>>
         \/ \E t \in where :
              /\ life' = IF t = Nobody THEN "crashed" ELSE life
              /\ queue' = IF t = Nobody \/ kind = "simple" THEN queue
                          ELSE [queue EXCEPT ![t] = @ \cup {cb}]
              /\ UNCHANGED dropped

\* The priority asked for is 0, unless onAccept is overridden.
Args == IF kind = "prio" THEN PrioArgs ELSE {0}

\* Mutant: a connection that arrives after stopServe is not handed over.
OnAcceptIfServing(c) ==
  IF serving THEN \E arg \in Args : Schedule(c, arg)
  ELSE UNCHANGED <<count, ready, queue, dropped, life>>

OnAccept(c) == \E arg \in Args : Schedule(c, arg)

-----------------------------------------------------------------------------
(* The kernel and the thread's event table.                                *)

Unused == {f \in Fds : sock[f] = Free}

\* bind (or listen) fails on an address in use, unless every socket on it, the
\* new one included, asked for SO_REUSEPORT.
InUse(s, a, reuse) ==
  \E f \in Fds : s[f].use = "listen" /\ s[f].addr = a /\ ~(s[f].reuse /\ reuse)

\* The connections that wait in the backlog of a closed socket are reset.
Backlog(s, fds) == UNION {s[f].pend : f \in {g \in fds : s[g].use = "listen"}}

\* Socket::close on each of a set of descriptors.
Closed(s, fds) == [f \in Fds |-> IF f \in fds THEN Free ELSE s[f]]

\* A client connects to a listening socket; SO_REUSEPORT picks one of several.
Connect(c) ==
  /\ life # "crashed" /\ c \in away /\ (EarlyClients \/ Published)
  /\ \E f \in Fds : /\ sock[f].use = "listen"
                    /\ sock' = [sock EXCEPT ![f].pend = @ \cup {c}]
  /\ away' = away \ {c}
  /\ UNCHANGED <<reg, ep, waiter, server, loop, bal, queue, served, dropped>>

-----------------------------------------------------------------------------
(* The server's user.  Each call runs on the server's thread between two   *)
(* executors.                                                              *)

\* The balancer is constructed first, on this thread.
InUser == life = "alive" /\ user /\ cur = None /\ Starting \cap {Main} \subseteq Range(managers)

\* bindOne on kernel table s and list l: socket(), the initer, bind, listen.
\* The descriptor of a failed bind stays open.
BindOne(n, a) ==
  IF \A f \in Fds : n.sock[f] # Free THEN [n EXCEPT !.ok = FALSE]
  ELSE LET f == Min({g \in Fds : n.sock[g] = Free})
       IN  IF InUse(n.sock, a, initer)
           THEN [n EXCEPT !.sock[f] = New(initer), !.ok = FALSE]
           ELSE [sock |-> [n.sock EXCEPT ![f] = Listening(a, initer)],
                 listen |-> Append(n.listen, [fd |-> f, addr |-> a]), ok |-> TRUE]

Bound(as) ==
  LET after[k \in 0..Len(as)] ==
        IF k = 0 THEN [sock |-> sock, listen |-> listen, ok |-> TRUE]
        ELSE IF after[k - 1].ok THEN BindOne(after[k - 1], as[k]) ELSE after[k - 1]
  IN  after[Len(as)]

Binds(as) ==
  /\ InUser
  /\ Cardinality(Unused) > Cardinality(Conns)   \* bound: descriptors are left for accept
  /\ sock' = Bound(as).sock /\ listen' = Bound(as).listen
  /\ UNCHANGED <<reg, ep, waiter, initer, serving, user, life, loop, bal, work>>

\* bind of one address or of a list, which stops at the first that fails; a
\* server that has sockets refuses.
Bind(as) == listen = <<>> /\ Binds(as)

AddBindAddr(a) == Binds(<<a>>)

SetSocketIniter ==
  /\ InUser /\ initer' = TRUE
  /\ UNCHANGED <<net, listen, serving, user, life, loop, bal, work>>

\* One executor for each listening socket, with a copy of the Socket.
StartServe ==
  /\ InUser /\ ~serving
  /\ acc = <<>> \/ Restart
  /\ listen # <<>> \/ StartUnbound
  /\ LET new == [i \in DOMAIN listen |-> [fd |-> listen[i].fd, addr |-> listen[i].addr, at |-> "check"]]
     IN  /\ acc' = acc \o new
         /\ ready' = ready \o [i \in DOMAIN new |-> [run |-> "acceptor", id |-> Len(acc) + i]]
  /\ serving' = TRUE
  /\ UNCHANGED <<net, listen, initer, user, life, cur, bal, work>>

\* Mutant: the sockets are closed before the executors that are queued run.
StopServeAtOnce ==
  /\ InUser /\ serving /\ serving' = FALSE
  /\ ready' = <<[run |-> "closer"]>> \o ready
  /\ UNCHANGED <<net, listen, initer, user, life, acc, cur, bal, work>>

StopServe ==
  /\ InUser /\ serving /\ serving' = FALSE
  /\ ready' = Append(ready, [run |-> "closer"])
  /\ UNCHANGED <<net, listen, initer, user, life, acc, cur, bal, work>>

\* Mutant: the callbacks of the listening sockets hold the server too, a cycle.
HeldByCycle(u, ac, rd) ==
  \/ u
  \/ listen # <<>>
  \/ \E i \in DOMAIN ac : ac[i].at # "ended"
  \/ \E i \in DOMAIN rd : rd[i].run = "closer"

\* What keeps the server alive: its user, the executors' hold_this, and the
\* suspended acceptors' stacks.
Held(u, ac, rd) ==
  \/ u
  \/ \E i \in DOMAIN ac : ac[i].at # "ended"
  \/ \E i \in DOMAIN rd : rd[i].run = "closer"

\* A step leaves the descriptors s and the list l, and may have dropped the last
\* reference: ~TcpServer closes the listening sockets and destroys the
\* balancer, which joins threads that nobody stops.  While serving_ it calls
\* stopServe, whose shared_from_this throws: the process ends.
Release(s, l) ==
  LET dies == life = "alive" /\ ~Held(user', acc', ready')
      fds  == IF dies /\ ~serving THEN {l[i].fd : i \in DOMAIN l} ELSE {}
  IN  /\ sock' = Closed(s, fds) /\ listen' = l
      /\ away' = away \cup Backlog(sock, {f \in Fds : sock'[f] = Free})
      /\ life' = CASE ~dies -> life
                   [] dies /\ serving -> "crashed"
                   [] OTHER -> IF kind = "simple" THEN "gone" ELSE "joining"

DropRef ==
  /\ InUser /\ user' = FALSE
  /\ UNCHANGED <<acc, ready>> /\ Release(sock, listen)
  /\ UNCHANGED <<reg, ep, waiter, initer, serving, cur, bal, queue, served, dropped>>

-----------------------------------------------------------------------------
(* The server's thread: the accept loop of startServe and the executor of  *)
(* stopServe.                                                              *)

MainRuns == life \in {"alive", "gone"}
Runs(what) == MainRuns /\ cur = None /\ ready # <<>> /\ Head(ready).run = what

PopAcceptor ==
  /\ Runs("acceptor") /\ cur' = Head(ready).id /\ ready' = Tail(ready)
  /\ UNCHANGED <<net, server, acc, bal, work>>

\* while (serving_)
CheckServing ==
  /\ MainRuns /\ cur # None /\ acc[cur].at = "check"
  /\ acc' = [acc EXCEPT ![cur].at = IF serving THEN "accept" ELSE "ended"]
  /\ cur' = IF serving THEN cur ELSE None
  /\ UNCHANGED <<ready, user>> /\ Release(sock, listen)
  /\ UNCHANGED <<reg, ep, waiter, initer, serving, bal, queue, served, dropped>>

\* Socket::accept.  NoConn is the connection with descriptor -1 it makes when
\* accept fails: the socket is closed, or there is no descriptor left.
Incoming(f) ==
  CASE sock[f].use # "listen" -> {NoConn}
    [] sock[f].use = "listen" -> IF Unused = {} /\ sock[f].pend # {} THEN {NoConn} ELSE sock[f].pend

\* accept succeeds, or fails with something else than EAGAIN, and onAccept.  An
\* acceptor started on a Socket that is closed (fd -1) gets a null pointer and goes
\* round without yielding: the thread does nothing else, and here nothing.
AcceptOne ==
  /\ MainRuns /\ cur # None /\ acc[cur].at = "accept" /\ acc[cur].fd # None
  /\ \E c \in Incoming(acc[cur].fd) :
       /\ sock' = IF c = NoConn THEN sock
                  ELSE [sock EXCEPT ![acc[cur].fd].pend = @ \ {c}, ![Min(Unused)] = Connected(c)]
       /\ OnAccept(c)
  /\ acc' = [acc EXCEPT ![cur].at = "check"]
  /\ UNCHANGED <<reg, ep, waiter, listen, initer, serving, user, cur, kind, managers, served, away>>

\* accept would block: co_accept registers the executor and yields.  epoll is
\* asked to modify a descriptor it does not know if registered_events is stale,
\* as only a Closer that passed its assertion leaves it.
AcceptWait ==
  /\ MainRuns /\ cur # None /\ acc[cur].at = "accept" /\ acc[cur].fd # None
  /\ Incoming(acc[cur].fd) = {}
  /\ LET f == acc[cur].fd
     IN  /\ ep' = [ep EXCEPT ![f] = @ \/ ~reg[f]]
         /\ reg' = [reg EXCEPT ![f] = TRUE]
         /\ waiter' = [waiter EXCEPT ![f] = cur]
  /\ cur' = None
  /\ UNCHANGED <<sock, server, acc, ready, bal, work>>

\* Mutant: registered_events stays.
StillRegisteredAll(F) == reg

\* blockPending takes the events of F out of registered_events.
StillRegistered(F) == [f \in Fds |-> reg[f] /\ f \notin F]

\* epoll_wait returns the events of the descriptors in F; called with an empty
\* ready list.
Fire ==
  /\ MainRuns /\ cur = None /\ ready = <<>>
  /\ \E F \in SUBSET {f \in Fds : ep[f] /\ waiter[f] # None /\ sock[f].use = "listen" /\ sock[f].pend # {}} :
       /\ F # {}
       /\ \E s \in SetToSeqs(F) : ready' = [i \in DOMAIN s |-> [run |-> "acceptor", id |-> waiter[s[i]]]]
       /\ ep' = [f \in Fds |-> ep[f] /\ f \notin F]
       /\ reg' = StillRegistered(F)
       /\ waiter' = [f \in Fds |-> IF f \in F THEN None ELSE waiter[f]]
  /\ UNCHANGED <<sock, server, acc, cur, bal, work>>

\* Mutant: the loop ends after the first socket.
ToCloseFirst == {listen[1].fd}

\* for (auto& socket : listen_sockets_)
ToClose == {listen[i].fd : i \in DOMAIN listen}

\* stopServe's executor: shutdownWrite, stopRead, close.  stopRead takes a socket
\* that is registered out of epoll and forgets its acceptor, which is never
\* resumed, but leaves registered_events: close then has epoll modify a
\* descriptor it does not know, and the assertion of epollMod fails.
AssertFails == Asserts /\ \E f \in Fds : f \in ToClose /\ reg[f]

Closer ==
  /\ Runs("closer")
  /\ IF AssertFails
     THEN life' = "crashed" /\ UNCHANGED <<sock, ep, waiter, listen, user, acc, ready, away>>
     ELSE /\ ready' = Tail(ready)
          /\ ep' = [f \in Fds |-> ep[f] /\ f \notin ToClose]
          /\ waiter' = [f \in Fds |-> IF f \in ToClose /\ reg[f] THEN None ELSE waiter[f]]
          /\ UNCHANGED <<acc, user>>
          /\ Release(Closed(sock, ToClose),
                     [i \in DOMAIN listen |-> IF listen[i].fd \in ToClose
                                              THEN [listen[i] EXCEPT !.fd = None] ELSE listen[i]])
  /\ UNCHANGED <<reg, initer, serving, cur, bal, queue, served, dropped>>

-----------------------------------------------------------------------------
(* Callbacks: on_connection, which closes its socket when it is done.      *)

Finished(t, cb) ==
  /\ served' = [served EXCEPT ![t] = @ \cup {cb}]
  /\ sock' = [f \in Fds |-> IF sock[f] = Connected(cb.conn) THEN Free ELSE sock[f]]

RunCallback ==
  /\ Runs("callback") /\ ready' = Tail(ready) /\ Finished(Main, Head(ready).cb)
  /\ UNCHANGED <<reg, ep, waiter, server, acc, cur, bal, queue, dropped, away>>

RunRemote(t) ==
  /\ t = Main => MainRuns /\ cur = None
  /\ \E cb \in queue[t] :
       /\ queue' = [queue EXCEPT ![t] = @ \ {cb}]
       /\ Finished(t, cb)
  /\ life # "crashed"
  /\ UNCHANGED <<reg, ep, waiter, server, loop, bal, dropped, away>>

-----------------------------------------------------------------------------
Lists == {<<a>> : a \in Addrs} \cup {<<a, b>> : a \in Addrs, b \in Addrs}

UserNext ==
  \/ \E as \in Lists : Bind(as)
  \/ \E a \in Addrs : AddBindAddr(a)
  \/ SetSocketIniter
  \/ StartServe
  \/ StopServe
  \/ DropRef

ThreadNext ==
  PopAcceptor \/ CheckServing \/ AcceptOne \/ AcceptWait \/ Fire \/ Closer \/ RunCallback

Next ==
  \/ UserNext
  \/ ThreadNext
  \/ \E c \in Conns : Connect(c)
  \/ \E t \in Starting : Publish(t)
  \/ \E t \in Threads \cup {Main} : RunRemote(t)

Spec == Init /\ [][Next]_vars

\* Every thread that can run does so: the server's own and the balancer's.
FairSpec ==
  /\ Spec
  /\ WF_vars(ThreadNext)
  /\ \A t \in Threads \cup {Main} : WF_vars(Publish(t)) /\ WF_vars(RunRemote(t))

-----------------------------------------------------------------------------
(* Properties.                                                             *)

\* An acceptor that is about to call accept, woken by an event or not, holds the
\* descriptor of a socket that still listens on its address: the executor of
\* stopServe closes the sockets only after the acceptors queued before it.
NoStaleAccept ==
  \A i \in DOMAIN acc :
    (cur = i \/ \E j \in DOMAIN ready : ready[j].run = "acceptor" /\ ready[j].id = i)
      => LET f == acc[i].fd
         IN  \/ acc[i].at = "check" /\ ~serving
             \/ f # None /\ sock[f].use = "listen" /\ sock[f].addr = acc[i].addr

Queue(t) == queue[t] \cup served[t] \cup
            (IF t = Main THEN {ready[i].cb : i \in {j \in DOMAIN ready : ready[j].run = "callback"}} ELSE {})

\* Every connection is in exactly one place: with its client, in one backlog, with
\* exactly one callback queued or run, or dropped because the balancer has no
\* thread of its priority or below.  None is accepted and then forgotten, or
\* handed to two threads, by accept, onAccept and schedule.
ExactlyOnce ==
  \A c \in Conns :
    LET cbs  == (UNION {Queue(t) : t \in Threads \cup {Main}}) \cup dropped
        mine == {cb \in cbs : cb.conn = c}
    IN  Cardinality({t \in Threads \cup {Main} : \E cb \in mine : cb \in Queue(t)})
          + Cardinality({f \in Fds : sock[f].use = "listen" /\ c \in sock[f].pend})
          + Cardinality(dropped \cap mine) + (IF c \in away THEN 1 ELSE 0) = 1

\* PrioBlancer runs a callback with the highest priority that has a thread and
\* does not exceed the one asked for, and drops it only if there is none.
PrioHonoured ==
  kind = "prio" =>
    LET best(arg) == Max({-1} \cup {p \in Levels : p <= arg /\ PrioThreads[p + 1] > 0})
    IN  /\ \A t \in Threads : \A cb \in Queue(t) : t[1] = best(cb.arg)
        /\ \A cb \in dropped : best(cb.arg) = -1

\* SequenceIOBalancer spreads the callbacks evenly over the first threads_.size()
\* managers, wherever its count stood at first.
EvenlySpread ==
  (kind = "sequence" /\ Published) =>
    \A i, j \in 1..Cardinality(Threads) :
      Cardinality(Queue(managers[i])) - Cardinality(Queue(managers[j])) \in -1..1

\* A connection that waits on a socket the server was started with is accepted
\* and its callback run, unless the balancer drops it or the server is stopped.
\* (A socket that addBindAddr adds to a serving server has no acceptor.)
ConnectionServed ==
  \A c \in Conns :
    (serving /\ c \in Backlog(sock, {listen[i].fd : i \in DOMAIN acc} \ {None}))
      ~> (~serving \/ c \in {cb.conn : cb \in dropped \cup UNION {served[t] : t \in Threads \cup {Main}}})

\* stopServe ends the service ("关闭服务", tcp_server.h:67): the sockets the server
\* was started with are closed, whatever else is queued on its thread.
StopCloses ==
  (acc # <<>> /\ ~serving) ~> (serving \/ \A i \in DOMAIN acc : listen[i].fd = None)

\* stopRead has taken an acceptor that was suspended in accept out of the table,
\* and nothing refers to it but its own stack, which holds the server.
Forgotten(i) ==
  /\ acc[i].at = "accept" /\ cur # i
  /\ \A f \in Fds : waiter[f] # i
  /\ \A j \in DOMAIN ready : ready[j].run # "acceptor" \/ ready[j].id # i

\* The server's executors hold it "while accepting" (tcp_server.cpp:69) and no longer:
\* when it has stopped and its user has let go of it, it is destroyed.  It is not if
\* stopServe finds an acceptor suspended in accept.
ReleasedAfterStop == (~user /\ ~serving) ~> (life # "alive" \/ serving)

\* The same, unless stopServe has forgotten a suspended acceptor.
ReleasedAtLast ==
  (~user /\ ~serving) ~> (life # "alive" \/ \E i \in DOMAIN acc : Forgotten(i))
=============================================================================
