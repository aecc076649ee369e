------------------------------ MODULE EventLoop ------------------------------
(***************************************************************************)
(* One IOManager: the thread that runs Scheduler::threadScheduleFunc with  *)
(* IOManager::blockPending as its blocking function, and the threads that  *)
(* hand it executors through IOManager::addRemoteTask.                     *)
(*                                                                         *)
(* The lock-free RemoteTaskList is used here as the atomic stack that      *)
(* module RemoteTaskList shows it to implement.  fds and timestamps are    *)
(* abstracted to "some waiting tasks become runnable"; module IoManager    *)
(* models the event table itself, and timers with equal stamps.            *)
(***************************************************************************)
EXTENDS Naturals, Sequences, FiniteSets

CONSTANTS
  Tasks,          \* executors user code may create
  Producers,      \* threads other than the loop that call addRemoteTask
  LoopThread,     \* the thread inside IOManager::run
  NoThread,       \* wake_lock_ is clear
  NoEntry,        \* a null Executor::Ptr
  PipeCapacity,   \* bytes the wakeup pipe holds before write() blocks
  ReadSize,       \* sizeof(dummy) in blockPending
  PipeModes,      \* possible O_NONBLOCK settings of the pipe's read end
  StopModes,      \* possible <<exit_with_tasks_processed, stop_pending_func_()>>
  SelfPush,       \* may a coroutine call addRemoteTask on its own manager?
  ForeignStop,    \* may a thread other than the loop call IOManager::stop?
  HangUps,        \* may an event come with EPOLLERR or EPOLLHUP?
  IoTimeouts      \* may SO_RCVTIMEO or SO_SNDTIMEO be set?

ASSUME ThreadsAssumption ==
  LoopThread \notin Producers /\ NoThread \notin Producers \cup {LoopThread}
ASSUME PipeAssumption ==
  PipeCapacity \in Nat \ {0} /\ ReadSize \in Nat \ {0} /\ PipeModes \subseteq BOOLEAN
ASSUME ModesAssumption ==
  /\ StopModes \subseteq BOOLEAN \X BOOLEAN
  /\ {SelfPush, ForeignStop, HangUps, IoTimeouts} \subseteq BOOLEAN

Threads == Producers \cup {LoopThread}

\* An executor in ready_executors_: a task, or the one made from the callback of
\* an expired timer, sleepInner's ("wake") or ioInner's ("timeout").
Entries == {"task", "wake", "timeout"} \X Tasks

ASSUME NoEntryAssumption == NoEntry \notin Entries

VARIABLES
  state,      \* Executor::state_ of each task, "none" before it is created
  ready,      \* Scheduler::ready_executors_
  remote,     \* RemoteTaskList, front first
  taken,      \* the chain scheduleAll took and has not yet added
  pc,         \* where the loop thread is
  cur,        \* the executor threadScheduleFunc is running
  stopping,   \* Scheduler::stopping_
  stopped,    \* Scheduler::stopped_
  ioStopped,  \* IOManager::stopped
  mode,       \* <<exit_with_tasks_processed, result of stop_pending_func_>>
  sleeping,   \* tasks whose sleepInner timer is in the TimerManager
  limited,    \* tasks whose ioInner timer is in the TimerManager and may expire
  waiting,    \* tasks registered for an fd event
  expired,    \* sleepInner's timers blockPending took out and has not yet queued
  overdue,    \* ioInner's timers, likewise
  call,       \* ioInner's suspension with a time limit: "no", "waits", "late"
  fired,      \* fd events epoll_wait returned and not yet handled
  sawPipe,    \* epoll_wait reported the wakeup pipe
  pipe,       \* bytes in the wakeup pipe
  nonblock,   \* O_NONBLOCK is set on the pipe's read end
  wakeLock,   \* holder of wake_lock_
  ppc,        \* where each thread is inside addRemoteTask
  dropped,    \* history: tasks an addExecutor refused or removeExecutor erased
  raced       \* history: tasks whose timeout and event came for one suspension

schedVars == <<state, ready, taken, cur, dropped>>
stopVars  == <<stopping, stopped, ioStopped, mode>>
ioVars    == <<limited, overdue, call, raced>>
pollVars  == <<sleeping, waiting, expired, fired, sawPipe, ioVars>>
wakeVars  == <<remote, pipe, nonblock, wakeLock, ppc>>
vars      == <<schedVars, stopVars, pollVars, wakeVars, pc>>

LoopPC == {"setup", "top", "schedule", "pop", "run", "wait", "timers",
           "events", "drain", "exited", "crashed", "undefined"}

\* Every variable keeps its type, and the pipe never holds more than its capacity.
TypeOK ==
  /\ state \in [Tasks -> {"none", "Init", "Exec", "HoldUp", "Terminal"}]
  /\ ready \in Seq(Entries \cup {NoEntry})
  /\ remote \in Seq(Tasks)
  /\ taken \in Seq(Tasks)
  /\ pc \in LoopPC
  /\ cur \in Entries \cup {NoEntry}
  /\ stopping \in BOOLEAN /\ stopped \in BOOLEAN /\ ioStopped \in BOOLEAN
  /\ mode \in BOOLEAN \X BOOLEAN
  /\ sleeping \in SUBSET Tasks /\ waiting \in SUBSET Tasks
  /\ expired \in SUBSET Tasks /\ fired \in SUBSET Tasks
  /\ limited \in SUBSET Tasks /\ overdue \in SUBSET Tasks /\ raced \in SUBSET Tasks
  /\ call \in [Tasks -> {"no", "waits", "late"}]
  /\ sawPipe \in BOOLEAN
  /\ pipe \in 0..PipeCapacity
  /\ nonblock \in BOOLEAN
  /\ wakeLock \in Threads \cup {NoThread}
  /\ ppc \in [Threads -> {"idle", "lock", "write", "unlock"}]
  /\ dropped \in SUBSET Tasks

Init ==
  /\ state = [t \in Tasks |-> "none"]
  /\ ready = <<>> /\ remote = <<>> /\ taken = <<>>
  /\ pc = "setup" /\ cur = NoEntry
  /\ stopping = FALSE /\ stopped = FALSE /\ ioStopped = FALSE
  /\ mode \in StopModes
  /\ sleeping = {} /\ waiting = {} /\ expired = {} /\ fired = {}
  /\ limited = {} /\ overdue = {} /\ raced = {} /\ call = [t \in Tasks |-> "no"]
  /\ sawPipe = FALSE
  /\ pipe = 0 /\ nonblock \in PipeModes /\ wakeLock = NoThread
  /\ ppc = [p \in Threads |-> "idle"]
  /\ dropped = {}

-----------------------------------------------------------------------------
(* addRemoteTask: insertFront, then wakeup() with its spin lock.           *)

\* A loop-thread coroutine is between two library calls.
UserCode == ppc[LoopThread] = "idle" /\ pc = "run" /\ cur[1] = "task"

\* Mutant: wakeup() is skipped for the push that finds the list empty.
InsertFrontNoWake(p, t) ==
  /\ ppc[p] = "idle"
  /\ p = LoopThread => SelfPush /\ UserCode
  /\ state[t] = "none"
  /\ state' = [state EXCEPT ![t] = "Init"]
  /\ remote' = <<t>> \o remote
  /\ ppc' = [ppc EXCEPT ![p] = IF remote = <<>> THEN "idle" ELSE "lock"]
  /\ UNCHANGED <<ready, taken, cur, dropped, stopVars, pollVars, pipe, nonblock, wakeLock, pc>>

InsertFront(p, t) ==
  /\ ppc[p] = "idle"
  /\ p = LoopThread => SelfPush /\ UserCode
  /\ state[t] = "none"
  /\ state' = [state EXCEPT ![t] = "Init"]
  /\ remote' = <<t>> \o remote
  /\ ppc' = [ppc EXCEPT ![p] = "lock"]
  /\ UNCHANGED <<ready, taken, cur, dropped, stopVars, pollVars, pipe, nonblock, wakeLock, pc>>

AcquireWakeLock(p) ==
  /\ ppc[p] = "lock" /\ wakeLock = NoThread
  /\ wakeLock' = p
  /\ ppc' = [ppc EXCEPT ![p] = "write"]
  /\ UNCHANGED <<schedVars, stopVars, pollVars, remote, pipe, nonblock, pc>>

\* The write end is a blocking descriptor: no step while the pipe is full.
WritePipe(p) ==
  /\ ppc[p] = "write" /\ pipe < PipeCapacity
  /\ pipe' = pipe + 1
  /\ ppc' = [ppc EXCEPT ![p] = "unlock"]
  /\ UNCHANGED <<schedVars, stopVars, pollVars, remote, nonblock, wakeLock, pc>>

\* Mutant: wake_lock_.clear() is forgotten.
ReleaseWakeLockNoClear(p) ==
  /\ ppc[p] = "unlock"
  /\ ppc' = [ppc EXCEPT ![p] = "idle"]
  /\ UNCHANGED <<schedVars, stopVars, pollVars, remote, pipe, nonblock, wakeLock, pc>>

ReleaseWakeLock(p) ==
  /\ ppc[p] = "unlock"
  /\ wakeLock' = NoThread
  /\ ppc' = [ppc EXCEPT ![p] = "idle"]
  /\ UNCHANGED <<schedVars, stopVars, pollVars, remote, pipe, nonblock, pc>>

AddRemoteTask(p) ==
  \/ \E t \in Tasks : InsertFront(p, t)
  \/ AcquireWakeLock(p)
  \/ WritePipe(p)
  \/ ReleaseWakeLock(p)

-----------------------------------------------------------------------------
(* Scheduler::addExecutor and the calls user code makes on the loop thread. *)

\* addExecutor(e): refused, and the refusal ignored by its callers, once
\* stopping_ is set.
Enqueue(e) ==
  IF stopping
    THEN ready' = ready /\ dropped' = dropped \cup {e[2]}
    ELSE ready' = Append(ready, e) /\ dropped' = dropped

AddExecutor(t) ==
  /\ pc = "setup" \/ UserCode
  /\ state[t] = "none"
  /\ state' = [state EXCEPT ![t] = "Init"]
  /\ Enqueue(<<"task", t>>)
  /\ UNCHANGED <<taken, cur, stopVars, pollVars, wakeVars, pc>>

RemoveExecutor(t) == \* erases the first entry std::find meets
  /\ UserCode
  /\ \E k \in 1..Len(ready) :
       /\ ready[k] = <<"task", t>>
       /\ \A j \in 1..(k-1) : ready[j] # <<"task", t>>
       /\ ready' = SubSeq(ready, 1, k - 1) \o SubSeq(ready, k + 1, Len(ready))
  /\ dropped' = dropped \cup {t}
  /\ UNCHANGED <<state, taken, cur, stopVars, pollVars, wakeVars, pc>>

\* Executor::kill of a task that is not running (killing oneself is Finish).
Kill(t) ==
  /\ UserCode /\ t # cur[2]
  /\ state[t] \in {"Init", "HoldUp"}
  /\ state' = [state EXCEPT ![t] = "Terminal"]
  /\ UNCHANGED <<ready, taken, cur, dropped, stopVars, pollVars, wakeVars, pc>>

\* Mutant: stop() sets the other flag.
SetStopSwapped ==
  /\ ioStopped' = TRUE
  /\ stopping' = (stopping \/ ~mode[1])
  /\ stopped' = (stopped \/ mode[1])
  /\ mode' = mode

\* IOManager::stop with Scheduler::stop.
SetStop ==
  /\ ioStopped' = TRUE
  /\ stopping' = (stopping \/ mode[1])
  /\ stopped' = (stopped \/ ~mode[1])
  /\ mode' = mode

Stop ==
  /\ pc = "setup" \/ UserCode \/ ForeignStop
  /\ ~ioStopped
  /\ SetStop
  /\ UNCHANGED <<schedVars, pollVars, wakeVars, pc>>

Run == \* IOManager::run
  /\ pc = "setup"
  /\ pc' = "top"
  /\ UNCHANGED <<schedVars, stopVars, pollVars, wakeVars>>

-----------------------------------------------------------------------------
(* What a running coroutine does: exec() returns when it ends or yields.   *)

LeaveTask(s) ==
  /\ state' = [state EXCEPT ![cur[2]] = s]
  /\ cur' = NoEntry
  /\ pc' = "top"

Finish == \* the callback returns or throws, or the task kills itself
  /\ UserCode
  /\ LeaveTask("Terminal")
  /\ UNCHANGED <<ready, taken, dropped, stopVars, pollVars, wakeVars>>

Sleep == \* sleepInner: registerTimer is refused once the manager is stopped
  /\ UserCode
  /\ sleeping' = IF ioStopped THEN sleeping ELSE sleeping \cup {cur[2]}
  /\ dropped' = IF ioStopped THEN dropped \cup {cur[2]} ELSE dropped
  /\ LeaveTask("HoldUp")
  /\ UNCHANGED <<ready, taken, stopVars, waiting, expired, fired, sawPipe, ioVars, wakeVars>>

\* co_connect: registerEvent(current), yield; and ioInner whose time limit is
\* size_t(-1), where the timer registered with the event never expires.
WaitEvent ==
  /\ UserCode
  /\ waiting' = IF ioStopped THEN waiting ELSE waiting \cup {cur[2]}
  /\ dropped' = IF ioStopped THEN dropped \cup {cur[2]} ELSE dropped
  /\ LeaveTask("HoldUp")
  /\ UNCHANGED <<ready, taken, stopVars, sleeping, expired, fired, sawPipe, ioVars, wakeVars>>

\* Bound: a task makes no call with a time limit once a timeout of it has met
\* its event; each such meeting adds an entry to the ready list.
MayLimit(t) == IoTimeouts /\ t \notin raced

\* ioInner with a time limit: registerTimer, registerEvent(current), yield.
WaitLimited ==
  /\ UserCode /\ MayLimit(cur[2])
  /\ waiting' = IF ioStopped THEN waiting ELSE waiting \cup {cur[2]}
  /\ limited' = IF ioStopped THEN limited ELSE limited \cup {cur[2]}
  /\ call' = [call EXCEPT ![cur[2]] = "waits"]
  /\ dropped' = IF ioStopped THEN dropped \cup {cur[2]} ELSE dropped
  /\ LeaveTask("HoldUp")
  /\ UNCHANGED <<ready, taken, stopVars, sleeping, expired, fired, sawPipe, overdue, raced, wakeVars>>

Requeue == \* addExecutor(current), yield
  /\ UserCode
  /\ Enqueue(cur)
  /\ LeaveTask("HoldUp")
  /\ UNCHANGED <<taken, stopVars, pollVars, wakeVars>>

\* Mutant: the timer callback does not re-add the sleeper.
RunWakeNoAdd ==
  /\ pc = "run" /\ cur[1] = "wake"
  /\ cur' = NoEntry
  /\ pc' = "top"
  /\ UNCHANGED <<state, ready, dropped, taken, stopVars, pollVars, wakeVars>>

\* The executor of an expired sleep timer: addExecutor(current); then it ends.
RunWake ==
  /\ pc = "run" /\ cur[1] = "wake"
  /\ Enqueue(<<"task", cur[2]>>)
  /\ cur' = NoEntry
  /\ pc' = "top"
  /\ UNCHANGED <<state, taken, stopVars, pollVars, wakeVars>>

\* The executor of an expired ioInner timer: removeEvent and the flag, if the
\* suspension it was made for is still there and not yet flagged (removeEvent
\* does nothing when the event has fired); in any case addExecutor(current).
RunTimeout ==
  /\ pc = "run" /\ cur[1] = "timeout"
  /\ IF call[cur[2]] = "waits"
       THEN waiting' = waiting \ {cur[2]} /\ call' = [call EXCEPT ![cur[2]] = "late"]
       ELSE UNCHANGED <<waiting, call>>
  /\ Enqueue(<<"task", cur[2]>>)
  /\ cur' = NoEntry
  /\ pc' = "top"
  /\ UNCHANGED <<state, taken, stopVars, sleeping, expired, fired, sawPipe, limited, overdue,
                 raced, wakeVars>>

-----------------------------------------------------------------------------
(* Scheduler::threadScheduleFunc.                                          *)

StopPending == stopped /\ mode[2]

\* while (!stop_pending()) ... head.exchange(nullptr)
TakeRemote ==
  /\ pc = "top" /\ ~StopPending
  /\ taken' = remote /\ remote' = <<>>
  /\ pc' = "schedule"
  /\ UNCHANGED <<state, ready, cur, dropped, stopVars, pollVars, pipe, nonblock, wakeLock, ppc>>

LeaveLoop ==
  /\ pc = "top" /\ StopPending
  /\ pc' = "exited"
  /\ UNCHANGED <<schedVars, stopVars, pollVars, wakeVars>>

ScheduleOne == \* the body of scheduleAll's loop
  /\ pc = "schedule" /\ taken # <<>>
  /\ Enqueue(<<"task", Head(taken)>>)
  /\ taken' = Tail(taken)
  /\ UNCHANGED <<state, cur, stopVars, pollVars, wakeVars, pc>>

ScheduleDone ==
  /\ pc = "schedule" /\ taken = <<>>
  /\ pc' = "pop"
  /\ UNCHANGED <<schedVars, stopVars, pollVars, wakeVars>>

\* A task that ended while it was queued is popped and skipped; doExec would
\* do nothing with it either.
Skipped(e) == e[1] = "task" /\ state[e[2]] = "Terminal"

\* A task suspended in ioInner with a time limit goes on there: return if the
\* flag is set, else cancelTimer, which erases end() if the timer is gone.
ResumeTask(t) ==
  /\ state' = [state EXCEPT ![t] = "Exec"]
  /\ call' = [call EXCEPT ![t] = "no"]
  /\ limited' = IF call[t] = "waits" THEN limited \ {t} ELSE limited
  /\ pc' = IF call[t] = "waits" /\ t \notin limited THEN "undefined" ELSE "run"

PopAndExec ==
  /\ pc = "pop" /\ ready # <<>> /\ Head(ready) # NoEntry
  /\ ready' = Tail(ready)
  /\ IF Skipped(Head(ready))
       THEN UNCHANGED <<state, cur, call, limited>> /\ pc' = "top"
       ELSE /\ cur' = Head(ready)
            /\ IF Head(ready)[1] = "task" THEN ResumeTask(Head(ready)[2])
               ELSE pc' = "run" /\ UNCHANGED <<state, call, limited>>
  /\ UNCHANGED <<taken, dropped, stopVars, sleeping, waiting, expired, fired, sawPipe, overdue,
                 raced, wakeVars>>

\* Mutant: stopping_ does not break the loop.
PopEmptyNoBreak ==
  /\ pc = "pop" /\ (ready # <<>> => Head(ready) = NoEntry)
  /\ ready' = IF ready = <<>> THEN ready ELSE Tail(ready)
  /\ pc' = "wait"
  /\ UNCHANGED <<state, taken, cur, dropped, stopVars, pollVars, wakeVars>>

\* No executor, because the list is empty or its front is null: what is behind
\* a null is not looked at.
PopEmpty ==
  /\ pc = "pop" /\ (ready # <<>> => Head(ready) = NoEntry)
  /\ ready' = IF ready = <<>> THEN ready ELSE Tail(ready)
  /\ pc' = IF stopping THEN "exited" ELSE "wait"
  /\ UNCHANGED <<state, taken, cur, dropped, stopVars, pollVars, wakeVars>>

-----------------------------------------------------------------------------
(* IOManager::blockPending.                                                *)

\* The tasks whose timeout waits in the ready list for its callback to be run.
TimedOut == {t \in Tasks : \E k \in 1..Len(ready) : ready[k] = <<"timeout", t>>}

\* Mutant: expired timers stay in the TimerManager.
EpollReturnKeepsTimers ==
  /\ pc = "wait"
  /\ \E T \in SUBSET sleeping, U \in SUBSET limited, F \in SUBSET waiting :
       /\ pipe > 0 \/ T # {} \/ U # {} \/ F # {}
       /\ expired' = T /\ sleeping' = sleeping
       /\ overdue' = U /\ limited' = limited
       /\ fired' = F /\ waiting' = waiting \ F
  /\ raced' = raced \cup ((TimedOut \cup overdue') \ waiting')
  /\ sawPipe' = (pipe > 0)
  /\ pc' = "timers"
  /\ UNCHANGED <<schedVars, stopVars, call, wakeVars>>

\* epoll_wait returns because the pipe is readable, a timer's interval has
\* passed or fd events are ready; takeExpiredTimers follows at once.
EpollReturn ==
  /\ pc = "wait"
  /\ \E T \in SUBSET sleeping, U \in SUBSET limited, F \in SUBSET waiting :
       /\ pipe > 0 \/ T # {} \/ U # {} \/ F # {}
       /\ expired' = T /\ sleeping' = sleeping \ T
       /\ overdue' = U /\ limited' = limited \ U
       /\ fired' = F /\ waiting' = waiting \ F
  /\ raced' = raced \cup ((TimedOut \cup overdue') \ waiting')
  /\ sawPipe' = (pipe > 0)
  /\ pc' = "timers"
  /\ UNCHANGED <<schedVars, stopVars, call, wakeVars>>

QueueTimer ==
  /\ pc = "timers"
  /\ \/ \E t \in expired :
          /\ expired' = expired \ {t} /\ overdue' = overdue
          /\ Enqueue(<<"wake", t>>)
     \/ \E t \in overdue :
          /\ overdue' = overdue \ {t} /\ expired' = expired
          /\ Enqueue(<<"timeout", t>>)
  /\ UNCHANGED <<state, taken, cur, stopVars, sleeping, waiting, fired, sawPipe, limited, call,
                 raced, wakeVars, pc>>

TimersDone ==
  /\ pc = "timers" /\ expired = {} /\ overdue = {}
  /\ pc' = "events"
  /\ UNCHANGED <<schedVars, stopVars, pollVars, wakeVars>>

\* What the event of t adds to the ready list: its executor; with EPOLLERR or
\* EPOLLHUP also the other direction's, before or after it, which is null
\* unless that direction is waited for (then it is an event of its own here).
Added(t) ==
  {<<<<"task", t>>>>}
    \cup IF HangUps THEN {<<<<"task", t>>, NoEntry>>, <<NoEntry, <<"task", t>>>>} ELSE {}

\* Mutant: the tests of call_once are inverted, so that reuse() is called for a
\* one-shot registration and makes an executor that has ended ready again.
QueueEventReuses ==
  /\ pc = "events"
  /\ \E t \in fired :
       /\ fired' = fired \ {t}
       /\ state' = [state EXCEPT ![t] = IF @ = "Terminal" THEN "Init" ELSE @]
       /\ IF stopping THEN ready' = ready /\ dropped' = dropped \cup {t}
          ELSE dropped' = dropped /\ \E es \in Added(t) : ready' = ready \o es
  /\ pc' = IF stopping THEN "crashed" ELSE pc
  /\ UNCHANGED <<taken, cur, stopVars, sleeping, waiting, expired, sawPipe, ioVars, wakeVars>>

\* One fd event: addExecutor with assert(add_ret).
QueueEvent ==
  /\ pc = "events"
  /\ \E t \in fired :
       /\ fired' = fired \ {t}
       /\ IF stopping THEN ready' = ready /\ dropped' = dropped \cup {t}
          ELSE dropped' = dropped /\ \E es \in Added(t) : ready' = ready \o es
  /\ pc' = IF stopping THEN "crashed" ELSE pc
  /\ UNCHANGED <<state, taken, cur, stopVars, sleeping, waiting, expired, sawPipe, ioVars, wakeVars>>

\* Mutant: the wakeup bytes are not read.
StartDrainSkipped ==
  /\ pc = "events" /\ sawPipe
  /\ sawPipe' = FALSE
  /\ UNCHANGED <<schedVars, stopVars, sleeping, waiting, expired, fired, ioVars, wakeVars, pc>>

\* The pipe's entry of the event list may come at any place in it.
StartDrain ==
  /\ pc = "events" /\ sawPipe
  /\ sawPipe' = FALSE
  /\ pc' = "drain"
  /\ UNCHANGED <<schedVars, stopVars, sleeping, waiting, expired, fired, ioVars, wakeVars>>

EventsDone ==
  /\ pc = "events" /\ ~sawPipe /\ fired = {}
  /\ pc' = "top"
  /\ UNCHANGED <<schedVars, stopVars, pollVars, wakeVars>>

\* while (read(pipe, dummy, sizeof(dummy)) > 0);
DrainRead ==
  /\ pc = "drain" /\ pipe > 0
  /\ pipe' = IF pipe > ReadSize THEN pipe - ReadSize ELSE 0
  /\ UNCHANGED <<schedVars, stopVars, pollVars, remote, nonblock, wakeLock, ppc, pc>>

\* The empty pipe ends the loop with EAGAIN, if the descriptor is non-blocking.
DrainEmpty ==
  /\ pc = "drain" /\ pipe = 0 /\ nonblock
  /\ pc' = "events"
  /\ UNCHANGED <<schedVars, stopVars, pollVars, wakeVars>>

-----------------------------------------------------------------------------
UserCalls ==
  \/ \E t \in Tasks : AddExecutor(t) \/ RemoveExecutor(t) \/ Kill(t)
  \/ Stop
  \/ Run

TaskEnds == Finish \/ Sleep \/ WaitEvent \/ WaitLimited \/ Requeue

LoopStep ==
  \/ RunWake \/ RunTimeout
  \/ TakeRemote \/ LeaveLoop \/ ScheduleOne \/ ScheduleDone
  \/ PopAndExec \/ PopEmpty
  \/ EpollReturn \/ QueueTimer \/ TimersDone \/ QueueEvent
  \/ StartDrain \/ EventsDone \/ DrainRead \/ DrainEmpty

Next ==
  \/ \E p \in Threads : AddRemoteTask(p)
  \/ UserCalls
  \/ TaskEnds
  \/ LoopStep

Spec == Init /\ [][Next]_vars

\* The operating system keeps scheduling every thread and time passes; a
\* coroutine does not keep the processor for ever.
Fairness ==
  /\ WF_vars(Run \/ LoopStep \/ TaskEnds)
  /\ \A p \in Producers : SF_vars(AcquireWakeLock(p))
  /\ \A p \in Threads : WF_vars(WritePipe(p) \/ ReleaseWakeLock(p))
  /\ \A t \in Tasks : SF_vars(EpollReturn /\ t \in expired')

FairSpec == Spec /\ Fairness

-----------------------------------------------------------------------------
(* Properties.                                                             *)

\* Between insertFront and the write that follows it.
AboutToWrite(p) == ppc[p] \in {"lock", "write"}

\* From the exchange in scheduleAll until the pipe is drained, a task that
\* is pushed stays in the list, and only the wakeup can bring the loop back.
AfterExchange == {"schedule", "pop", "run", "wait", "timers"}

\* No lost wakeup: once scheduleAll has emptied the list, a task pushed since
\* is announced by a byte in the pipe or its producer has yet to write one.
\* The loop therefore never sleeps in epoll_wait on a task it was not told of.
NoLostWakeup ==
  pc \in AfterExchange /\ remote # <<>>
    => pipe > 0 \/ \E p \in Threads : AboutToWrite(p)

CountIn(q, x) == Cardinality({k \in 1..Len(q) : q[k] = x})

Holds(b) == IF b THEN 1 ELSE 0

\* How many references the queues, the timers, the event table and the loop
\* hold to executor t.  ioInner's timer is no reference of its own: it is there
\* to take the place of the event.
Places(t) ==
  CountIn(ready, <<"task", t>>) + CountIn(ready, <<"wake", t>>)
    + CountIn(remote, t) + CountIn(taken, t)
    + Holds(t \in sleeping) + Holds(t \in waiting)
    + Holds(t \in expired) + Holds(t \in fired)
    + Holds(cur \in {<<"task", t>>, <<"wake", t>>})

\* An executor is never referenced twice, so it is never resumed twice for one
\* suspension; and a live one is referenced exactly once, so it is never
\* forgotten, unless addExecutor refused it or removeExecutor took it out, or
\* an ioInner call of it met its timeout and its event together.
ExactlyOnePlace ==
  \A t \in Tasks \ raced :
    /\ Places(t) <= 1
    /\ state[t] \in {"Init", "Exec", "HoldUp"} /\ t \notin dropped => Places(t) = 1

\* "go back to ioInner(return error)" (co_io_function.cpp:63): when a timeout has
\* set its flag, the entry its callback adds is the one that resumes the
\* coroutine, in that ioInner call.
TimeoutGoesBack ==
  \A t \in Tasks : call[t] = "late" => Places(t) <= 1

\* assert(add_ret) in blockPending: an fd event is never refused, because
\* stop() called on the loop thread makes the loop leave before it polls again.
EventAddSucceeds == pc # "crashed"

\* After a graceful stop the loop leaves no queued work behind: what is still
\* alive is asleep, waits for an event, or was pushed by another thread
\* (scheduler.cpp:74: all tasks are executed before the stop).
NoQueuedWorkAtExit ==
  pc = "exited" /\ stopping =>
    \A t \in Tasks :
      state[t] \in {"Init", "Exec", "HoldUp"} /\ t \notin dropped
        => t \in sleeping \cup waiting \/ CountIn(remote, t) = 1

\* A killed or finished executor is never run again, though the ready list, a
\* timer or the event table may still refer to it.
TerminalIsFinal ==
  [][\A t \in Tasks : state[t] = "Terminal" => state'[t] = "Terminal"]_vars

\* The loop thread is not held for ever by a popped null executor, blocked in
\* epoll_wait with work behind it, or past an erased end().
NotStranded == []<>~(pc = "undefined" \/ (pc = "wait" /\ ready # <<>>))

\* A task given to addRemoteTask is run, unless the manager is stopped first or
\* the loop stays blocked on a null executor with the task queued behind it.
RemoteTaskRuns ==
  NotStranded =>
    \A t \in Tasks :
      CountIn(remote, t) = 1 ~> state[t] \in {"Exec", "HoldUp", "Terminal"} \/ ioStopped
                                \/ t \in dropped

\* Coroutines that re-add themselves for ever keep the loop from polling: the
\* ready list comes first.  Otherwise it polls again and again, or leaves.
PollsAgain == []<>(pc \in {"wait", "exited"})

\* While the loop keeps polling, and is not held by a null executor, a sleeping
\* coroutine is resumed, unless it is taken out of the ready list or the manager
\* is stopped first.
SleeperResumes ==
  PollsAgain /\ NotStranded =>
    \A t \in Tasks :
      t \in sleeping ~> state[t] \in {"Exec", "Terminal"} \/ ioStopped \/ t \in dropped

\* stop() ends the loop.
StopTerminates == ioStopped /\ pc # "setup" ~> pc = "exited"

\* addRemoteTask returns: a producer blocked on the full pipe, and those that
\* spin on wake_lock_ behind it, are released by the loop while it keeps polling.
ProducerReturns ==
  PollsAgain =>
    \A p \in Producers : ppc[p] # "idle" ~> ppc[p] = "idle" \/ pc = "exited"
=============================================================================
