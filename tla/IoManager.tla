------------------------------ MODULE IoManager ------------------------------
(***************************************************************************)
(* One IOManager seen from its own thread: the event table fd_events_      *)
(* against the kernel's epoll set, the TimerManager, and the coroutines    *)
(* suspended in the hooked calls of co_io_function.cpp.  Remote tasks, the *)
(* wakeup pipe and stop() are the subject of module EventLoop.             *)
(*                                                                         *)
(* Coroutines call ioInner (read, write, accept), sleepInner, co_connect   *)
(* and co_close; the environment makes descriptors ready, completes        *)
(* connects, hangs up and lets time pass.                                  *)
(***************************************************************************)
EXTENDS Naturals, Sequences, FiniteSets, SequencesExt

CONSTANTS
  Coroutines,   \* executors that use the hooked calls
  Fds,          \* descriptors of sockets in the FdManager
  None,         \* a null Executor::Ptr
  Timeout,      \* readTimeout and writeTimeout; 0 stands for size_t(-1)
  Naps,         \* intervals the coroutines sleep for
  HangUps,      \* with which events EPOLLHUP or EPOLLERR may come
  CloseBusy,    \* may a descriptor be closed while a coroutine waits on it?
  MaxCalls,     \* bound: hooked calls each coroutine makes
  MaxTime       \* bound: ticks of the clock

ASSUME IoAssumption ==
  /\ Timeout \in Nat /\ MaxCalls \in Nat /\ MaxTime \in Nat /\ Naps \subseteq Nat
  /\ None \notin Coroutines \cup Fds /\ IsFiniteSet(Coroutines \cup Fds)
  /\ CloseBusy \in BOOLEAN

Read  == "Read"
Write == "Write"
Events == {Read, Write}

ASSUME HangUpAssumption == HangUps \subseteq SUBSET Events

Hup == "Hup"          \* EPOLLHUP and EPOLLERR: reported whatever is asked for
Absent == {"absent"}  \* the descriptor is not in the epoll set

VARIABLES
  reg,      \* FdEvents::registered_events
  exec,     \* FdEvents::read_executor and write_executor
  ep,       \* kernel: the events asked for, or Absent
  edge,     \* kernel: the descriptors epoll_wait has something to report of
  open,     \* kernel: open descriptors
  avail,    \* kernel: the readiness of each descriptor
  conn,     \* kernel: "no", "pending" or "done", the connect on a descriptor
  now,      \* currentMs()
  timers,   \* TimerManager::timers_, in its order
  limit,    \* when the current epoll_wait gives up
  ready,    \* Scheduler::ready_executors_
  pc,       \* where the loop thread is
  cur,      \* the coroutine being run
  evq,      \* epoll_events that are still to be handled
  co,       \* where each coroutine is, and its locals there
  calls     \* hooked calls made by each coroutine

fdEvents == <<reg, exec, ep>>
table  == <<fdEvents, edge>>
kernel == <<open, avail, conn, now>>
loop   == <<timers, limit, ready, pc, cur, evq>>
vars   == <<table, kernel, loop, co, calls>>

Forever == 1000 + MaxTime             \* the stamp size_t(-1)

\* Entries of the ready list: an executor to resume, the executor made for an
\* expired timer, or null (addExecutor does not look at its argument).
Resume(e)  == [run |-> "executor", who |-> e]
Expired(t) == [run |-> "timer", timer |-> t]

InUser == [at |-> "user", fd |-> None, ev |-> Read, until |-> 0, id |-> 0, flag |-> FALSE]

Init ==
  /\ reg = [fd \in Fds |-> {}]
  /\ exec = [fd \in Fds |-> [e \in Events |-> None]]
  /\ ep = [fd \in Fds |-> Absent] /\ edge = {}
  /\ open = Fds /\ avail = [fd \in Fds |-> {}] /\ conn = [fd \in Fds |-> "no"]
  /\ now = 0 /\ timers = <<>> /\ limit = 0
  /\ ready \in SetToSeqs({Resume(c) : c \in Coroutines})
  /\ pc = "pop" /\ cur = None /\ evq = <<>>
  /\ co = [c \in Coroutines |-> InUser] /\ calls = [c \in Coroutines |-> 0]

-----------------------------------------------------------------------------
(* TimerManager: a multiset ordered by target_timestamp.                   *)

\* How many timers are at the front of ts before the first one beyond stamp.
UpperBound(ts, stamp) ==
  CHOOSE n \in 0..Len(ts) :
    /\ \A i \in 1..n : ts[i].stamp <= stamp
    /\ n = Len(ts) \/ ts[n + 1].stamp > stamp

\* TimerManager::addTimer: std::multiset::insert goes after its equals.
AddTimer(ts, t) == InsertAt(ts, UpperBound(ts, t.stamp) + 1, t)

\* TimerManager::removeTimer finds by stamp alone and erases the first match.
HasStamp(ts, stamp) == \E i \in 1..Len(ts) : ts[i].stamp = stamp

\* Mutant: nothing is erased.
RemoveTimerNothing(ts, stamp) == ts

RemoveTimer(ts, stamp) ==
  RemoveAt(ts, SelectInSeq(ts, LAMBDA u : u.stamp = stamp))

\* An identity for the next timer of coroutine c: not that of another timer
\* of c that is still in the manager or queued for its callback.
Queued == {ready[i].timer : i \in {j \in 1..Len(ready) : ready[j].run = "timer"}}

FreshId(c) ==
  LET used == {t.id : t \in {u \in Range(timers) \cup Queued : u.owner = c}}
  IN  CHOOSE i \in 0..Cardinality(used) : i \notin used

NewTimer(c, stamp) == [stamp |-> stamp, owner |-> c, id |-> FreshId(c)]

-----------------------------------------------------------------------------
(* The event table and epoll_ctl.  A failing epoll_ctl meets the assertion *)
(* of epollAdd, epollMod or epollDel: the process is "crashed".            *)

Crash == pc' = "crashed" /\ UNCHANGED <<table, kernel, timers, limit, ready,
                                        cur, evq, co, calls>>

\* The registrations are edge-triggered (EPOLLET): a descriptor is reported
\* once for each epoll_ctl and each change of its readiness.
Watch(fd, es) ==
  /\ ep' = [ep EXCEPT ![fd] = IF es = {} THEN Absent ELSE es]
  /\ edge' = IF es = {} THEN edge \ {fd} ELSE edge \cup {fd}

Changed(fd) == edge' = IF ep[fd] = Absent THEN edge ELSE edge \cup {fd}

\* Mutant: registered_events is not updated.
RegisterEventUnmarked(fd, ev, c) ==
  LET ok == fd \in open /\ (reg[fd] = {}) = (ep[fd] = Absent)
  IN  /\ exec' = [exec EXCEPT ![fd][ev] = c]
      /\ IF ok THEN Watch(fd, reg[fd] \cup {ev}) ELSE UNCHANGED <<ep, edge>>
      /\ pc' = IF ok THEN "pop" ELSE "crashed"
      /\ UNCHANGED reg

\* Mutant: EPOLL_CTL_MOD is given the new event alone.
RegisterEventModOne(fd, ev, c) ==
  LET ok == fd \in open /\ (reg[fd] = {}) = (ep[fd] = Absent)
  IN  /\ exec' = [exec EXCEPT ![fd][ev] = c]
      /\ reg' = IF ok THEN [reg EXCEPT ![fd] = @ \cup {ev}] ELSE reg
      /\ IF ok THEN Watch(fd, {ev}) ELSE UNCHANGED <<ep, edge>>
      /\ pc' = IF ok THEN "pop" ELSE "crashed"

\* IOManager::registerEvent(fd, ev, c, true), whose caller then yields.
RegisterEvent(fd, ev, c) ==
  LET dst == reg[fd] \cup {ev}
      ok  == fd \in open /\ (reg[fd] = {}) = (ep[fd] = Absent)
  IN  /\ exec' = [exec EXCEPT ![fd][ev] = c]
      /\ reg' = IF ok THEN [reg EXCEPT ![fd] = dst] ELSE reg
      /\ IF ok THEN Watch(fd, dst) ELSE UNCHANGED <<ep, edge>>
      /\ pc' = IF ok THEN "pop" ELSE "crashed"

\* IOManager::removeEvent: it leaves registered_events as it was.
Removes(fd, es) == reg[fd] \cap es # {}
RemoveOk(fd, es) == Removes(fd, es) => ep[fd] # Absent

RemoveEvent(fd, es) ==
  LET dst == es \ reg[fd] IN
  IF Removes(fd, es)
  THEN /\ Watch(fd, dst)
       /\ exec' = [exec EXCEPT ![fd] = [e \in Events |-> IF e \in dst THEN @[e] ELSE None]]
       /\ UNCHANGED reg
  ELSE UNCHANGED table

-----------------------------------------------------------------------------
(* The scheduler's loop: pop an entry and execute it.                      *)

\* An empty list, or a null entry, sends the loop to blockPending.
PopNothing ==
  /\ pc = "pop" /\ (ready # <<>> => Head(ready) = Resume(None))
  /\ ready' = IF ready = <<>> THEN ready ELSE Tail(ready)
  /\ pc' = "poll"
  /\ UNCHANGED <<table, kernel, timers, limit, cur, evq, co, calls>>

PopCoroutine(c) ==
  /\ pc = "pop" /\ ready # <<>> /\ Head(ready) = Resume(c)
  /\ ready' = Tail(ready)
  /\ IF co[c].at = "done" THEN UNCHANGED <<pc, cur>> ELSE pc' = "run" /\ cur' = c
  /\ UNCHANGED <<table, kernel, timers, limit, evq, co, calls>>

\* The callback of an expired timer.  ioInner's holds a weak pointer to the
\* flag of the suspension that made it; sleepInner's has nothing to check.
RunTimer ==
  /\ pc = "pop" /\ ready # <<>> /\ Head(ready).run = "timer"
  /\ LET t == Head(ready).timer
         c == t.owner
         live == co[c].at = "io" /\ co[c].id = t.id /\ ~co[c].flag
     IN IF live /\ ~RemoveOk(co[c].fd, {co[c].ev})
        THEN Crash
        ELSE /\ IF live
                THEN /\ RemoveEvent(co[c].fd, {co[c].ev})
                     /\ co' = [co EXCEPT ![c].flag = TRUE]
                ELSE UNCHANGED <<table, co>>
             /\ ready' = Append(Tail(ready), Resume(c))
             /\ UNCHANGED <<kernel, timers, limit, pc, cur, evq, calls>>

-----------------------------------------------------------------------------
(* The hooked calls of coroutine cur.                                      *)

InCall(c, at) == pc = "run" /\ cur = c /\ co[c].at = at

\* May c start another call, and use descriptor fd for event ev?  A second
\* registration for the same event would replace the first (io_manager.h:29).
Calls(c) == InCall(c, "user") /\ calls[c] < MaxCalls
InTime(ms) == now + ms <= MaxTime   \* bound: no stamp beyond the last tick
Usable(fd, ev) ==
  /\ fd \in open
  /\ \A c \in Coroutines : co[c].at \in {"io", "connect"} => co[c].fd # fd \/ co[c].ev # ev

\* One round of ioInner's loop: the system call, and on EAGAIN a timer, a
\* registration and the yield.  A closed descriptor fails at once; an error
\* that left the connection up is gone when a call has returned it.
IoRound(c, fd, ev, ts) ==
  \/ /\ fd \notin open \/ avail[fd] \cap {ev, Hup} # {}
     /\ \/ UNCHANGED avail
        \/ Hup \notin avail[fd] /\ avail' = [avail EXCEPT ![fd] = @ \ {ev}]
        \/ ~(Events \subseteq avail[fd]) /\ avail' = [avail EXCEPT ![fd] = @ \ {Hup}]
     /\ co' = [co EXCEPT ![c] = InUser]
     /\ timers' = ts
     /\ UNCHANGED <<table, pc>>
  \/ /\ fd \in open /\ avail[fd] \cap {ev, Hup} = {}
     /\ LET t == NewTimer(c, IF Timeout = 0 THEN Forever ELSE now + Timeout) IN
        /\ timers' = AddTimer(ts, t)
        /\ co' = [co EXCEPT ![c] = [at |-> "io", fd |-> fd, ev |-> ev,
                                    until |-> t.stamp, id |-> t.id, flag |-> FALSE]]
     /\ RegisterEvent(fd, ev, c)
     /\ UNCHANGED avail

\* co_read, co_write, co_accept and the others that end in ioInner.
IoCall(c) ==
  /\ Calls(c) /\ InTime(Timeout)
  /\ \E fd \in Fds, ev \in Events : Usable(fd, ev) /\ IoRound(c, fd, ev, timers)
  /\ calls' = [calls EXCEPT ![c] = @ + 1]
  /\ UNCHANGED <<open, conn, now, limit, ready, cur, evq>>

\* Back from the yield: -1 when the flag is set, else cancelTimer and retry.
\* Erasing a timer that is not there is undefined: here, a crash.
IoResume(c) ==
  /\ InCall(c, "io")
  /\ IF co[c].flag
     THEN /\ co' = [co EXCEPT ![c] = InUser]
          /\ UNCHANGED <<table, avail, timers, pc>>
     ELSE IF HasStamp(timers, co[c].until)
          THEN IoRound(c, co[c].fd, co[c].ev, RemoveTimer(timers, co[c].until))
          ELSE pc' = "crashed" /\ UNCHANGED <<table, avail, timers, co>>
  /\ UNCHANGED <<open, conn, now, limit, ready, cur, evq, calls>>

\* sleepInner: co_sleep, co_usleep and co_nanosleep.
SleepInner(c) ==
  /\ Calls(c)
  /\ \E ms \in {n \in Naps : InTime(n)} :
       LET t == NewTimer(c, now + ms) IN
       /\ timers' = AddTimer(timers, t)
       /\ co' = [co EXCEPT ![c] = [InUser EXCEPT !.at = "sleep", !.until = t.stamp, !.id = t.id]]
  /\ calls' = [calls EXCEPT ![c] = @ + 1]
  /\ pc' = "pop"
  /\ UNCHANGED <<table, kernel, limit, ready, cur, evq>>

SleepReturns(c) ==
  /\ InCall(c, "sleep")
  /\ co' = [co EXCEPT ![c] = InUser]
  /\ UNCHANGED <<table, kernel, loop, calls>>

\* co_connect: EINPROGRESS leads to a registration without a timer.
Connect(c) ==
  /\ Calls(c)
  /\ \E fd \in Fds :
       /\ Usable(fd, Write) /\ conn[fd] = "no" /\ Hup \notin avail[fd]
       /\ \/ /\ conn' = [conn EXCEPT ![fd] = "done"]
             /\ UNCHANGED <<table, avail, pc, co>>
          \/ /\ conn' = [conn EXCEPT ![fd] = "pending"]
             /\ avail' = [avail EXCEPT ![fd] = @ \ {Write}]
             /\ co' = [co EXCEPT ![c] = [InUser EXCEPT !.at = "connect", !.fd = fd, !.ev = Write]]
             /\ RegisterEvent(fd, Write, c)
  /\ calls' = [calls EXCEPT ![c] = @ + 1]
  /\ UNCHANGED <<open, now, timers, limit, ready, cur, evq>>

\* SO_ERROR is 0 while the connect is still in progress, so co_connect
\* returns whatever woke it.
ConnectReturns(c) ==
  /\ InCall(c, "connect")
  /\ co' = [co EXCEPT ![c] = InUser]
  /\ UNCHANGED <<table, kernel, loop, calls>>

\* co_close, and the kernel's part of close: the descriptor leaves epoll.
Close(c) ==
  /\ Calls(c)
  /\ \E fd \in open :
       /\ CloseBusy \/ \A ev \in Events : Usable(fd, ev)
       /\ IF RemoveOk(fd, Events)
          THEN /\ exec' = [exec EXCEPT ![fd] = [e \in Events |->
                   IF e \in reg[fd] THEN None ELSE @[e]]]
               /\ Watch(fd, {})
               /\ open' = open \ {fd}
               /\ avail' = [avail EXCEPT ![fd] = {}]
               /\ conn' = [conn EXCEPT ![fd] = "no"]
               /\ UNCHANGED <<reg, pc>>
          ELSE pc' = "crashed" /\ UNCHANGED <<table, open, avail, conn>>
  /\ calls' = [calls EXCEPT ![c] = @ + 1]
  /\ UNCHANGED <<now, timers, limit, ready, cur, evq, co>>

\* co_socket or co_accept: the kernel hands out a descriptor again.
Socket(c) ==
  /\ Calls(c)
  /\ \E fd \in Fds \ open : open' = open \cup {fd}
  /\ calls' = [calls EXCEPT ![c] = @ + 1]
  /\ UNCHANGED <<table, avail, conn, now, loop, co>>

Finish(c) ==
  /\ InCall(c, "user")
  /\ co' = [co EXCEPT ![c].at = "done"]
  /\ pc' = "pop"
  /\ UNCHANGED <<table, kernel, timers, limit, ready, cur, evq, calls>>

-----------------------------------------------------------------------------
(* IOManager::blockPending.                                                *)

\* TimerManager::getNextInterval: the clock is read for the comparison and
\* again for the difference, which wraps to "forever" when the stamp has
\* passed in between.
Interval(stamp) == IF stamp < now THEN Forever ELSE stamp

GetNextInterval ==
  /\ pc = "poll"
  /\ \/ /\ timers # <<>> => Head(timers).stamp < now
        /\ limit' = IF timers = <<>> THEN Forever ELSE now
        /\ pc' = "wait"
     \/ /\ timers # <<>> /\ Head(timers).stamp >= now
        /\ limit' = Head(timers).stamp
        /\ pc' = "interval"
  /\ UNCHANGED <<table, kernel, timers, ready, cur, evq, co, calls>>

SecondClockRead ==
  /\ pc = "interval"
  /\ limit' = Interval(limit)
  /\ pc' = "wait"
  /\ UNCHANGED <<table, kernel, timers, ready, cur, evq, co, calls>>

\* What epoll_wait reports of a descriptor.
Reported(fd) == IF fd \notin edge \/ ep[fd] = Absent THEN {} ELSE avail[fd] \cap (ep[fd] \cup {Hup})

\* Mutant: timers that are due in the next millisecond too.
TakeExpiredSoon(ts) == SubSeq(ts, 1, UpperBound(ts, now + 1))

\* Mutant: a timer that is due in this very millisecond is left out.
TakeExpiredStrict(ts) == IF now = 0 THEN <<>> ELSE SubSeq(ts, 1, UpperBound(ts, now - 1))

\* TimerManager::takeExpiredTimers: the front of timers_ up to now.
TakeExpired(ts) == SubSeq(ts, 1, UpperBound(ts, now))

\* epoll_wait returns; takeExpiredTimers, one executor for each of them.  The
\* distance to size_t(-1) is cut to an int and may be any timeout at all.
EpollWait ==
  /\ pc = "wait"
  /\ LET hot == {fd \in Fds : Reported(fd) # {}}
         due == TakeExpired(timers)
     IN /\ \/ hot # {} \/ now >= limit
           \/ timers # <<>> /\ Head(timers).stamp = Forever
        /\ timers' = SubSeq(timers, Len(due) + 1, Len(timers))
        /\ ready' = ready \o [i \in 1..Len(due) |-> Expired(due[i])]
        /\ evq' \in SetToSeqs({[fd |-> fd, es |-> Reported(fd)] : fd \in hot})
        /\ edge' = edge \ hot
  /\ pc' = "events" /\ limit' = 0
  /\ UNCHANGED <<fdEvents, kernel, cur, co, calls>>

\* Mutant: all the events of the descriptor are taken away.
LeftNothing(fd, es) == {}

\* Mutant: only Read is handled.
WokenReadOnly(e, es) == e = Read /\ es \cap {Read, Hup} # {}

\* One pass of the loop over epoll_events.  Every registration is one-shot:
\* no caller of registerEvent passes call_once = false.
Left(fd, es) == reg[fd] \ es
Woken(e, es) == es \cap {e, Hup} # {}

HandleEvent ==
  /\ pc = "events" /\ evq # <<>>
  /\ LET fd == Head(evq).fd
         es == Head(evq).es
         left == Left(fd, es)
         wake(e) == IF Woken(e, es) THEN <<Resume(exec[fd][e])>> ELSE <<>>
     IN IF left # reg[fd] /\ ep[fd] = Absent THEN Crash ELSE
        /\ IF left = reg[fd] THEN UNCHANGED <<ep, edge>> ELSE Watch(fd, left)
        /\ reg' = [reg EXCEPT ![fd] = left]
        /\ ready' = ready \o wake(Read) \o wake(Write)
        /\ exec' = [exec EXCEPT ![fd] = [e \in Events |-> IF Woken(e, es) THEN None ELSE @[e]]]
        /\ evq' = Tail(evq)
        /\ UNCHANGED <<kernel, timers, limit, pc, cur, co, calls>>

EventsDone ==
  /\ pc = "events" /\ evq = <<>>
  /\ pc' = "pop"
  /\ UNCHANGED <<table, kernel, timers, limit, ready, cur, evq, co, calls>>

-----------------------------------------------------------------------------
(* The environment.                                                        *)

BecomesReady(fd, ev) ==
  /\ fd \in open /\ ev \notin avail[fd] /\ ~(ev = Write /\ conn[fd] = "pending")
  /\ avail' = [avail EXCEPT ![fd] = @ \cup {ev}] /\ Changed(fd)
  /\ UNCHANGED <<fdEvents, open, conn, now, loop, co, calls>>

ConnectCompletes(fd) ==
  /\ conn[fd] = "pending"
  /\ conn' = [conn EXCEPT ![fd] = "done"]
  /\ avail' = [avail EXCEPT ![fd] = @ \cup {Write}] /\ Changed(fd)
  /\ UNCHANGED <<fdEvents, open, now, loop, co, calls>>

\* EPOLLHUP or EPOLLERR.  A reset of a TCP connection makes the socket readable
\* and writable too; an asynchronous error, such as an ICMP message for a UDP
\* socket, need not.
HangUp(fd) ==
  /\ fd \in open /\ Hup \notin avail[fd]
  /\ \E es \in HangUps : avail' = [avail EXCEPT ![fd] = @ \cup es \cup {Hup}]
  /\ conn' = [conn EXCEPT ![fd] = IF @ = "pending" THEN "done" ELSE @]
  /\ Changed(fd)
  /\ UNCHANGED <<fdEvents, open, now, loop, co, calls>>

Tick ==
  /\ now < MaxTime /\ now' = now + 1
  /\ UNCHANGED <<table, open, avail, conn, loop, co, calls>>

-----------------------------------------------------------------------------
UserStep(c) == IoCall(c) \/ SleepInner(c) \/ Connect(c) \/ Close(c) \/ Socket(c)
ReturnStep(c) == IoResume(c) \/ SleepReturns(c) \/ ConnectReturns(c)
LoopStep == PopNothing \/ RunTimer \/ GetNextInterval \/ SecondClockRead \/ EpollWait
            \/ HandleEvent \/ EventsDone

Next ==
  \/ LoopStep
  \/ \E c \in Coroutines : PopCoroutine(c) \/ UserStep(c) \/ ReturnStep(c) \/ Finish(c)
  \/ \E fd \in Fds : ConnectCompletes(fd) \/ HangUp(fd) \/ \E ev \in Events : BecomesReady(fd, ev)
  \/ Tick

Spec == Init /\ [][Next]_vars

\* The loop thread runs on, the coroutines' own code ends or calls again, and
\* time passes; nothing is assumed of the peers.
Fairness ==
  /\ WF_vars(LoopStep)
  /\ \A c \in Coroutines :
       /\ WF_vars(PopCoroutine(c))
       /\ WF_vars(UserStep(c) \/ ReturnStep(c) \/ Finish(c))
  /\ WF_vars(Tick)

FairSpec == Spec /\ Fairness

-----------------------------------------------------------------------------
(* Properties.                                                             *)

Places == {"pop", "run", "poll", "interval", "wait", "events", "crashed"}

\* Every variable keeps its type, and timers_ its order: the loop only looks
\* at the front of it.
TypeOK ==
  /\ reg \in [Fds -> SUBSET Events]
  /\ exec \in [Fds -> [Events -> Coroutines \cup {None}]]
  /\ ep \in [Fds -> (SUBSET Events) \cup {Absent}] /\ edge \in SUBSET Fds
  /\ open \in SUBSET Fds /\ avail \in [Fds -> SUBSET (Events \cup {Hup})]
  /\ conn \in [Fds -> {"no", "pending", "done"}] /\ now \in 0..MaxTime
  /\ pc \in Places /\ cur \in Coroutines \cup {None} /\ limit \in Nat
  /\ \A i \in 1..Len(timers), j \in 1..Len(timers) : i < j => timers[i].stamp <= timers[j].stamp
  /\ \A c \in Coroutines : co[c].at \in {"user", "io", "sleep", "connect", "done"}
  /\ calls \in [Coroutines -> 0..MaxCalls]

\* No epoll_ctl fails and no absent timer is erased: the assertions of
\* epollAdd, epollMod and epollDel hold (io_manager.cpp:149-162).
EpollCtlSucceeds == pc # "crashed"

\* registered_events is what the kernel watches, so registerEvent chooses
\* between EPOLL_CTL_ADD and EPOLL_CTL_MOD rightly.
TableMatchesEpoll ==
  \A fd \in Fds : ep[fd] = IF reg[fd] = {} THEN Absent ELSE reg[fd]

\* What may still resume c: registrations, entries of the ready list, and
\* timers that can expire.
Wakes(c) ==
  Cardinality({p \in Fds \X Events : p[2] \in reg[p[1]] /\ exec[p[1]][p[2]] = c})
  + Cardinality({i \in 1..Len(ready) : ready[i] = Resume(c)})
  + Cardinality({i \in 1..Len(timers) : timers[i].owner = c /\ timers[i].stamp # Forever})
  + Cardinality({t \in Queued : t.owner = c})

\* A suspended coroutine has exactly one thing that will resume it: it is
\* neither forgotten by the table, the timers and the list, nor resumed twice.
OneWake ==
  \A c \in Coroutines :
    Wakes(c) = IF co[c].at = "done" \/ (pc = "run" /\ cur = c) THEN 0 ELSE 1

\* ioInner leaves no timer behind: there is one size_t(-1) timer for each
\* coroutine inside a suspended call, though removeTimer goes by stamp alone.
NoTimerLeak ==
  Cardinality({i \in 1..Len(timers) : timers[i].stamp = Forever})
    = Cardinality({c \in Coroutines : co[c].at = "io"})

\* The loop blocks in epoll_wait only when there is no task to run: the comment
\* at scheduler.cpp:72 says that there is none ("当前没有任务.").
BlocksOnlyWhenIdle == pc \in {"interval", "wait"} => ready = <<>>

\* A hooked call returns only when what it waited for has happened: the
\* connect is over, the time has passed.
NoEarlyReturn ==
  [][\A c \in Coroutines :
       /\ ConnectReturns(c) => conn[co[c].fd] # "pending"
       /\ SleepReturns(c) => now >= co[c].until]_vars

\* The loop is not left blocked for ever by a null executor it has popped, with
\* entries behind it.
NotBehindNull == []<>~(pc = "wait" /\ ready # <<>>)

\* The interval of a timer that is due has not wrapped to an endless wait that
\* no event ends.
NotWrapped ==
  []<>~(pc = "wait" /\ limit = Forever /\ timers # <<>> /\ Head(timers).stamp # Forever)

\* A coroutine waiting in ioInner returns from the wait once its descriptor
\* is ready, though other descriptors may hang up; unless the loop stays blocked
\* on a null executor.
EventResumes ==
  NotBehindNull =>
    \A c \in Coroutines, fd \in Fds, ev \in Events :
      (co[c].at = "io" /\ co[c].fd = fd /\ co[c].ev = ev /\ ev \in avail[fd])
        ~> ~(co[c].at = "io" /\ co[c].fd = fd /\ co[c].ev = ev /\ ev \in avail[fd])

\* Every sleep ends: sleep(1) is expected to last "except ms: {}" (runner_hook.cpp:33).
SleepEnds == \A c \in Coroutines : (co[c].at = "sleep") ~> (co[c].at # "sleep")

\* A sleep ends, with or without any other event, unless the loop stays blocked on
\* a null executor or in an interval that wrapped.
SleepEndsAtLast == NotBehindNull /\ NotWrapped => SleepEnds
=============================================================================
