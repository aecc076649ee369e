-------------------------- MODULE EventLoopProofs --------------------------
(***************************************************************************)
(* What holds of EventLoop for every set of tasks and producers, every     *)
(* pipe capacity, both settings of the pipe's read end, with and without   *)
(* hang-ups and I/O timeouts.                                              *)
(***************************************************************************)
EXTENDS EventLoop, FiniteSetTheorems, SequenceTheorems, TLAPS

\* While the loop is inside exec(), it runs an entry it popped, and a task
\* that is being run is in state Exec.
RunningIsExec ==
  pc = "run" => /\ cur \in Entries
                /\ cur[1] = "task" => state[cur[2]] = "Exec"

TypeInv == TypeOK /\ RunningIsExec

\* What ready_executors_ holds: executors and null pointers.
Slots == Entries \cup {NoEntry}

\* The tasks and kinds an entry is made of.
LEMMA EntryParts ==
  ASSUME NEW e \in Entries
  PROVE  e[1] \in {"task", "wake", "timeout"} /\ e[2] \in Tasks /\ e = <<e[1], e[2]>>
BY DEF Entries

\* addExecutor leaves the ready list a list of executors, whether it accepts
\* or refuses.
LEMMA EnqueueType ==
  ASSUME TypeOK, NEW e \in Entries, Enqueue(e)
  PROVE  ready' \in Seq(Slots) /\ dropped' \in SUBSET Tasks
<1>1. e[2] \in Tasks
  BY EntryParts
<1>2. CASE stopping
  BY <1>1, <1>2 DEF TypeOK, Enqueue, Slots
<1>3. CASE ~stopping
  <2>1. ready' = Append(ready, e) /\ dropped' = dropped
    BY <1>3 DEF Enqueue
  <2>2. ready \in Seq(Slots) /\ dropped \in SUBSET Tasks /\ e \in Slots
    BY DEF TypeOK, Slots
  <2> QED BY <2>1, <2>2
<1> QED BY <1>2, <1>3

\* What an fd event adds to the ready list.
LEMMA AddedType ==
  ASSUME NEW t \in Tasks, NEW es \in Added(t)
  PROVE  /\ es \in Seq(Slots)
         /\ \/ es = <<<<"task", t>>>>
            \/ es = <<<<"task", t>>>> \o <<NoEntry>>
            \/ es = <<NoEntry>> \o <<<<"task", t>>>>
<1> DEFINE x == <<"task", t>>
<1>1. x \in Slots /\ NoEntry \in Slots
  BY DEF Entries, Slots
<1>2. es = <<x>> \/ es = <<x, NoEntry>> \/ es = <<NoEntry, x>>
  BY DEF Added
<1> HIDE DEF x
<1>3. <<x, NoEntry>> = <<x>> \o <<NoEntry>> /\ <<NoEntry, x>> = <<NoEntry>> \o <<x>>
  OBVIOUS
<1>4. es \in Seq(Slots)
  <2>1. <<x>> \in Seq(Slots) /\ <<NoEntry>> \in Seq(Slots)
    BY <1>1
  <2>2. <<x>> \o <<NoEntry>> \in Seq(Slots) /\ <<NoEntry>> \o <<x>> \in Seq(Slots)
    BY <2>1
  <2> QED BY <1>2, <1>3, <2>1, <2>2
<1> QED BY <1>2, <1>3, <1>4 DEF x

\* Init establishes the type invariant.
LEMMA TypeInit == Init => TypeInv
<1> SUFFICES ASSUME Init PROVE TypeInv
  OBVIOUS
<1>1. state \in [Tasks -> {"none", "Init", "Exec", "HoldUp", "Terminal"}]
  BY DEF Init
<1>2. ppc \in [Threads -> {"idle", "lock", "write", "unlock"}]
  BY DEF Init
<1>3. mode \in BOOLEAN \X BOOLEAN
  BY ModesAssumption DEF Init
<1>4. nonblock \in BOOLEAN
  BY PipeAssumption DEF Init
<1>5. pipe \in 0..PipeCapacity
  BY PipeAssumption DEF Init
<1>6. RunningIsExec
  BY DEF Init, RunningIsExec
<1>7. ready \in Seq(Entries \cup {NoEntry}) /\ remote \in Seq(Tasks) /\ taken \in Seq(Tasks)
  BY DEF Init
<1>8. cur \in Entries \cup {NoEntry} /\ wakeLock \in Threads \cup {NoThread}
  BY DEF Init
<1>9. stopping \in BOOLEAN /\ stopped \in BOOLEAN /\ ioStopped \in BOOLEAN /\ sawPipe \in BOOLEAN
  BY DEF Init
<1>10. pc \in LoopPC
  BY DEF Init, LoopPC
<1>11. /\ sleeping \in SUBSET Tasks /\ waiting \in SUBSET Tasks /\ dropped \in SUBSET Tasks
       /\ expired \in SUBSET Tasks /\ fired \in SUBSET Tasks
       /\ limited \in SUBSET Tasks /\ overdue \in SUBSET Tasks /\ raced \in SUBSET Tasks
       /\ call \in [Tasks -> {"no", "waits", "late"}]
  BY DEF Init
<1> QED BY <1>1, <1>2, <1>3, <1>4, <1>5, <1>6, <1>7, <1>8, <1>9, <1>10, <1>11
           DEF TypeInv, TypeOK

\* Every step of every thread preserves the type invariant.
LEMMA TypeStep == TypeInv /\ [Next]_vars => TypeInv'
<1> SUFFICES ASSUME TypeInv, [Next]_vars PROVE TypeInv'
  OBVIOUS
<1> USE DEF TypeInv, TypeOK, RunningIsExec, LoopPC, Slots, ioVars
<1>1. ASSUME NEW p \in Threads, NEW t \in Tasks, InsertFront(p, t) PROVE TypeInv'
  <2>1. remote' \in Seq(Tasks)
    BY <1>1 DEF InsertFront
  <2>2. state' \in [Tasks -> {"none", "Init", "Exec", "HoldUp", "Terminal"}]
    BY <1>1 DEF InsertFront
  <2>3. RunningIsExec'
    BY <1>1, EntryParts DEF InsertFront
  <2> QED BY <1>1, <2>1, <2>2, <2>3 DEF InsertFront, stopVars, pollVars
<1>2. ASSUME NEW p \in Threads, AcquireWakeLock(p) PROVE TypeInv'
  BY <1>2 DEF AcquireWakeLock, schedVars, stopVars, pollVars
<1>3. ASSUME NEW p \in Threads, WritePipe(p) PROVE TypeInv'
  BY <1>3, PipeAssumption DEF WritePipe, schedVars, stopVars, pollVars
<1>4. ASSUME NEW p \in Threads, ReleaseWakeLock(p) PROVE TypeInv'
  BY <1>4 DEF ReleaseWakeLock, schedVars, stopVars, pollVars
<1>5. ASSUME NEW t \in Tasks, AddExecutor(t) PROVE TypeInv'
  <2>1. <<"task", t>> \in Entries
    BY DEF Entries
  <2>2. ready' \in Seq(Slots) /\ dropped' \in SUBSET Tasks
    BY <1>5, <2>1, EnqueueType DEF AddExecutor
  <2>3. RunningIsExec'
    BY <1>5, EntryParts DEF AddExecutor
  <2> QED BY <1>5, <2>2, <2>3 DEF AddExecutor, stopVars, pollVars, wakeVars
<1>6. ASSUME NEW t \in Tasks, RemoveExecutor(t) PROVE TypeInv'
  <2>1. ready' \in Seq(Slots)
    <3>1. PICK k \in 1..Len(ready) :
            ready' = SubSeq(ready, 1, k - 1) \o SubSeq(ready, k + 1, Len(ready))
      BY <1>6 DEF RemoveExecutor
    <3>2. SubSeq(ready, 1, k - 1) \in Seq(Slots)
      OBVIOUS
    <3>3. SubSeq(ready, k + 1, Len(ready)) \in Seq(Slots)
      OBVIOUS
    <3> QED BY <3>1, <3>2, <3>3
  <2> QED BY <1>6, <2>1 DEF RemoveExecutor, stopVars, pollVars, wakeVars
<1>7. ASSUME NEW t \in Tasks, Kill(t) PROVE TypeInv'
  BY <1>7, EntryParts DEF Kill, UserCode, stopVars, pollVars, wakeVars
<1>8. CASE Stop
  BY <1>8 DEF Stop, SetStop, schedVars, pollVars, wakeVars
<1>9. CASE Run
  BY <1>9 DEF Run, schedVars, stopVars, pollVars, wakeVars
<1>10. CASE TaskEnds
  <2>1. cur[2] \in Tasks /\ cur \in Entries
    BY <1>10, EntryParts DEF TaskEnds, Finish, Sleep, WaitEvent, WaitLimited, Requeue, UserCode
  <2>2. CASE Finish
    BY <2>1, <2>2 DEF Finish, LeaveTask, stopVars, pollVars, wakeVars
  <2>3. CASE Sleep
    BY <2>1, <2>3 DEF Sleep, LeaveTask, stopVars, wakeVars
  <2>4. CASE WaitEvent
    BY <2>1, <2>4 DEF WaitEvent, LeaveTask, stopVars, wakeVars
  <2>5. CASE Requeue
    <3>1. ready' \in Seq(Slots) /\ dropped' \in SUBSET Tasks
      BY <2>1, <2>5, EnqueueType DEF Requeue
    <3> QED BY <2>1, <2>5, <3>1 DEF Requeue, LeaveTask, stopVars, pollVars, wakeVars
  <2>6. CASE WaitLimited
    BY <2>1, <2>6 DEF WaitLimited, LeaveTask, stopVars, wakeVars
  <2> QED BY <1>10, <2>2, <2>3, <2>4, <2>5, <2>6 DEF TaskEnds
<1>11. CASE RunWake
  <2>1. <<"task", cur[2]>> \in Entries
    BY <1>11, EntryParts DEF RunWake, Entries
  <2>2. ready' \in Seq(Slots) /\ dropped' \in SUBSET Tasks
    BY <1>11, <2>1, EnqueueType DEF RunWake
  <2> QED BY <1>11, <2>2 DEF RunWake, stopVars, pollVars, wakeVars
<1>24. CASE RunTimeout
  <2>1. <<"task", cur[2]>> \in Entries /\ cur[2] \in Tasks
    BY <1>24, EntryParts DEF RunTimeout, Entries
  <2>2. ready' \in Seq(Slots) /\ dropped' \in SUBSET Tasks
    BY <1>24, <2>1, EnqueueType DEF RunTimeout
  <2> QED BY <1>24, <2>1, <2>2 DEF RunTimeout, stopVars, wakeVars
<1>12. CASE TakeRemote
  BY <1>12 DEF TakeRemote, stopVars, pollVars
<1>23. CASE LeaveLoop
  BY <1>23 DEF LeaveLoop, schedVars, stopVars, pollVars, wakeVars
<1>13. CASE ScheduleOne
  <2>1. taken' \in Seq(Tasks) /\ <<"task", Head(taken)>> \in Entries
    BY <1>13 DEF ScheduleOne, Entries
  <2>2. ready' \in Seq(Slots) /\ dropped' \in SUBSET Tasks
    BY <1>13, <2>1, EnqueueType DEF ScheduleOne
  <2> QED BY <1>13, <2>1, <2>2 DEF ScheduleOne, stopVars, pollVars, wakeVars
<1>14. CASE ScheduleDone
  BY <1>14 DEF ScheduleDone, schedVars, stopVars, pollVars, wakeVars
<1>15. CASE PopAndExec
  <2>1. Head(ready) \in Entries /\ ready' \in Seq(Slots)
    BY <1>15 DEF PopAndExec
  <2>2. Head(ready)[2] \in Tasks
    BY <2>1, EntryParts
  <2>3. CASE Skipped(Head(ready))
    BY <1>15, <2>1, <2>3 DEF PopAndExec, stopVars, wakeVars
  <2>4. CASE ~Skipped(Head(ready)) /\ Head(ready)[1] = "task"
    <3>1. ResumeTask(Head(ready)[2]) /\ cur' = Head(ready)
      BY <1>15, <2>4 DEF PopAndExec
    <3> QED BY <1>15, <2>1, <2>2, <3>1 DEF PopAndExec, ResumeTask, stopVars, wakeVars
  <2>5. CASE ~Skipped(Head(ready)) /\ Head(ready)[1] # "task"
    BY <1>15, <2>1, <2>5 DEF PopAndExec, stopVars, wakeVars
  <2> QED BY <2>3, <2>4, <2>5
<1>16. CASE PopEmpty
  <2>1. ready' \in Seq(Slots)
    BY <1>16 DEF PopEmpty
  <2> QED BY <1>16, <2>1 DEF PopEmpty, stopVars, pollVars, wakeVars
<1>17. CASE EpollReturn
  <2>1. raced' \in SUBSET Tasks
    BY <1>17 DEF EpollReturn, TimedOut
  <2> QED BY <1>17, <2>1 DEF EpollReturn, schedVars, stopVars, wakeVars
<1>18. CASE QueueTimer
  <2>1. \E t \in Tasks : \/ Enqueue(<<"wake", t>>) /\ expired' = expired \ {t} /\ overdue' = overdue
                         \/ Enqueue(<<"timeout", t>>) /\ overdue' = overdue \ {t} /\ expired' = expired
    BY <1>18 DEF QueueTimer
  <2>2. ready' \in Seq(Slots) /\ dropped' \in SUBSET Tasks
    <3>1. \A t \in Tasks : <<"wake", t>> \in Entries /\ <<"timeout", t>> \in Entries
      BY DEF Entries
    <3> QED BY <2>1, <3>1, EnqueueType
  <2>3. expired' \in SUBSET Tasks /\ overdue' \in SUBSET Tasks
    BY <2>1
  <2> QED BY <1>18, <2>2, <2>3 DEF QueueTimer, stopVars, wakeVars
<1>19. CASE QueueEvent
  <2>1. PICK t \in fired :
          /\ fired' = fired \ {t}
          /\ IF stopping THEN ready' = ready /\ dropped' = dropped \cup {t}
             ELSE dropped' = dropped /\ \E es \in Added(t) : ready' = ready \o es
    BY <1>19 DEF QueueEvent
  <2>2. ready' \in Seq(Slots) /\ dropped' \in SUBSET Tasks
    <3>1. CASE stopping
      BY <2>1, <3>1
    <3>2. CASE ~stopping
      <4>1. PICK es \in Added(t) : ready' = ready \o es
        BY <2>1, <3>2
      <4>2. es \in Seq(Slots)
        BY AddedType
      <4> QED BY <2>1, <3>2, <4>1, <4>2
    <3> QED BY <3>1, <3>2
  <2> QED BY <1>19, <2>1, <2>2 DEF QueueEvent, stopVars, wakeVars
<1>20. CASE TimersDone \/ StartDrain \/ EventsDone \/ DrainEmpty
  BY <1>20 DEF TimersDone, StartDrain, EventsDone, DrainEmpty, schedVars, stopVars,
               pollVars, wakeVars
<1>21. CASE DrainRead
  BY <1>21, PipeAssumption DEF DrainRead, schedVars, stopVars, pollVars
<1>22. CASE UNCHANGED vars
  BY <1>22 DEF vars, schedVars, stopVars, pollVars, wakeVars
<1> QED
  BY <1>1, <1>2, <1>3, <1>4, <1>5, <1>6, <1>7, <1>8, <1>9, <1>10, <1>11, <1>12,
     <1>13, <1>14, <1>15, <1>16, <1>17, <1>18, <1>19, <1>20, <1>21, <1>22, <1>23, <1>24
     DEF Next, AddRemoteTask, UserCalls, LoopStep

\* Type correctness: every variable keeps its type in every reachable state.
THEOREM TypeCorrect == Spec => []TypeOK
<1>1. TypeInv => TypeOK
  BY DEF TypeInv
<1> QED BY <1>1, TypeInit, TypeStep, PTL DEF Spec

-----------------------------------------------------------------------------
(* No lost wakeup.                                                         *)

\* NoLostWakeup is inductive: a push makes its thread one that has yet to
\* write, only that thread's write ends this, and the pipe is drained only
\* outside AfterExchange, which the loop re-enters through the exchange alone.
LEMMA WakeupStep ==
  TypeInv /\ NoLostWakeup /\ [Next]_vars => NoLostWakeup'
<1> SUFFICES ASSUME TypeInv, NoLostWakeup, [Next]_vars PROVE NoLostWakeup'
  OBVIOUS
<1> USE DEF NoLostWakeup, AfterExchange, AboutToWrite
<1>t. /\ ppc \in [Threads -> {"idle", "lock", "write", "unlock"}]
      /\ pipe \in Nat
  BY PipeAssumption DEF TypeInv, TypeOK
<1>1. ASSUME NEW p \in Threads, NEW t \in Tasks, InsertFront(p, t) PROVE NoLostWakeup'
  <2>1. ppc'[p] = "lock"
    BY <1>1, <1>t DEF InsertFront
  <2> QED BY <2>1
<1>2. ASSUME NEW p \in Threads, AcquireWakeLock(p) PROVE NoLostWakeup'
  BY <1>2, <1>t DEF AcquireWakeLock
<1>3. ASSUME NEW p \in Threads, WritePipe(p) PROVE NoLostWakeup'
  BY <1>3, <1>t DEF WritePipe
<1>4. ASSUME NEW p \in Threads, ReleaseWakeLock(p) PROVE NoLostWakeup'
  BY <1>4, <1>t DEF ReleaseWakeLock
<1>5. CASE UserCalls
  BY <1>5 DEF UserCalls, AddExecutor, RemoveExecutor, Kill, Stop, Run, wakeVars
<1>6. CASE TaskEnds
  BY <1>6 DEF TaskEnds, Finish, Sleep, WaitEvent, WaitLimited, Requeue, LeaveTask, wakeVars
<1>7. CASE TakeRemote
  BY <1>7 DEF TakeRemote
<1>8. CASE RunWake \/ RunTimeout \/ LeaveLoop \/ ScheduleOne \/ ScheduleDone \/ PopEmpty
  BY <1>8 DEF RunWake, RunTimeout, LeaveLoop, ScheduleOne, ScheduleDone, PopEmpty, wakeVars
<1>9. CASE PopAndExec
  BY <1>9 DEF PopAndExec, ResumeTask, wakeVars
<1>10. CASE EpollReturn \/ QueueTimer \/ TimersDone \/ QueueEvent
  BY <1>10 DEF EpollReturn, QueueTimer, TimersDone, QueueEvent, wakeVars
<1>11. CASE StartDrain \/ EventsDone \/ DrainRead \/ DrainEmpty
  BY <1>11 DEF StartDrain, EventsDone, DrainRead, DrainEmpty
<1>12. CASE UNCHANGED vars
  BY <1>12 DEF vars, wakeVars
<1> QED
  BY <1>1, <1>2, <1>3, <1>4, <1>5, <1>6, <1>7, <1>8, <1>9, <1>10, <1>11, <1>12
     DEF Next, AddRemoteTask, LoopStep

\* The loop never blocks in epoll_wait while a task pushed by another thread
\* waits unannounced in the RemoteTaskList.
THEOREM WakeupNeverLost == Spec => []NoLostWakeup
<1>1. Init => NoLostWakeup
  BY DEF Init, NoLostWakeup
<1> QED BY <1>1, TypeInit, TypeStep, WakeupStep, PTL DEF Spec

-----------------------------------------------------------------------------
(* Ended executors.                                                        *)

\* No step takes an executor out of Terminal.
LEMMA TerminalStep ==
  TypeInv /\ [Next]_vars =>
    \A t \in Tasks : state[t] = "Terminal" => state'[t] = "Terminal"
<1> SUFFICES ASSUME TypeInv, [Next]_vars, NEW u \in Tasks, state[u] = "Terminal"
             PROVE  state'[u] = "Terminal"
  OBVIOUS
<1>t. state \in [Tasks -> {"none", "Init", "Exec", "HoldUp", "Terminal"}]
  BY DEF TypeInv, TypeOK
<1>1. CASE \E p \in Threads : AddRemoteTask(p)
  BY <1>1, <1>t DEF AddRemoteTask, InsertFront, AcquireWakeLock, WritePipe,
                    ReleaseWakeLock, schedVars
<1>2. CASE UserCalls
  BY <1>2, <1>t DEF UserCalls, AddExecutor, RemoveExecutor, Kill, Stop, Run, schedVars
<1>3. CASE TaskEnds
  <2>1. state[cur[2]] = "Exec" /\ cur[2] \in Tasks
    BY <1>3, EntryParts DEF TaskEnds, Finish, Sleep, WaitEvent, WaitLimited, Requeue, UserCode,
                            TypeInv, RunningIsExec
  <2>2. \E s \in {"Terminal", "HoldUp"} : state' = [state EXCEPT ![cur[2]] = s]
    BY <1>3 DEF TaskEnds, Finish, Sleep, WaitEvent, WaitLimited, Requeue, LeaveTask
  <2> QED BY <2>1, <2>2, <1>t
<1>4. CASE PopAndExec
  <2>1. CASE Skipped(Head(ready))
    BY <2>1, <1>4 DEF PopAndExec
  <2>2. CASE ~Skipped(Head(ready))
    BY <2>2, <1>4, <1>t DEF PopAndExec, ResumeTask, Skipped
  <2> QED BY <2>1, <2>2
<1>5. CASE LoopStep /\ ~PopAndExec
  BY <1>5 DEF LoopStep, RunWake, RunTimeout, TakeRemote, LeaveLoop, ScheduleOne, ScheduleDone,
              PopEmpty, EpollReturn, QueueTimer, TimersDone, QueueEvent, StartDrain,
              EventsDone, DrainRead, DrainEmpty, schedVars
<1>6. CASE UNCHANGED vars
  BY <1>6 DEF vars, schedVars
<1> QED BY <1>1, <1>2, <1>3, <1>4, <1>5, <1>6 DEF Next

\* An executor that ended or was killed is never run again, whatever still
\* refers to it.
THEOREM EndedStaysEnded == Spec => TerminalIsFinal
<1>1. TypeInv /\ [Next]_vars
        => [\A t \in Tasks : state[t] = "Terminal" => state'[t] = "Terminal"]_vars
  BY TerminalStep
<1> QED BY <1>1, TypeInit, TypeStep, PTL DEF Spec, TerminalIsFinal

-----------------------------------------------------------------------------
(* blockPending's assertion.                                               *)

\* While the loop polls it has not been told to stop gracefully.
PollsUnstopped ==
  /\ pc \in {"wait", "timers", "events", "drain"} => ~stopping
  /\ pc # "crashed"

\* If only the loop thread calls stop(), the loop polls only while stopping_
\* is false.
LEMMA PollStep ==
  ASSUME ~ForeignStop
  PROVE  PollsUnstopped /\ [Next]_vars => PollsUnstopped'
<1> SUFFICES ASSUME PollsUnstopped, [Next]_vars PROVE PollsUnstopped'
  OBVIOUS
<1> USE DEF PollsUnstopped
<1>1. CASE \E p \in Threads : AddRemoteTask(p)
  <2>1. stopVars' = stopVars /\ pc' = pc
    BY <1>1 DEF AddRemoteTask, InsertFront, AcquireWakeLock, WritePipe, ReleaseWakeLock
  <2> QED BY <2>1 DEF stopVars
<1>2. CASE UserCalls
  BY <1>2 DEF UserCalls, AddExecutor, RemoveExecutor, Kill, Stop, Run, UserCode, stopVars
<1>3. CASE TaskEnds
  BY <1>3 DEF TaskEnds, Finish, Sleep, WaitEvent, WaitLimited, Requeue, LeaveTask, stopVars
<1>4. CASE RunWake \/ RunTimeout \/ TakeRemote \/ LeaveLoop \/ ScheduleOne \/ ScheduleDone
  BY <1>4 DEF RunWake, RunTimeout, TakeRemote, LeaveLoop, ScheduleOne, ScheduleDone, stopVars
<1>5. CASE PopAndExec \/ PopEmpty
  BY <1>5 DEF PopAndExec, ResumeTask, PopEmpty, stopVars
<1>6. CASE EpollReturn \/ QueueTimer \/ TimersDone \/ QueueEvent
  BY <1>6 DEF EpollReturn, QueueTimer, TimersDone, QueueEvent, stopVars
<1>7. CASE StartDrain \/ EventsDone \/ DrainRead \/ DrainEmpty
  BY <1>7 DEF StartDrain, EventsDone, DrainRead, DrainEmpty, stopVars
<1>8. CASE UNCHANGED vars
  BY <1>8 DEF vars, stopVars
<1> QED BY <1>1, <1>2, <1>3, <1>4, <1>5, <1>6, <1>7, <1>8 DEF Next, LoopStep

\* assert(add_ret) never fails, provided stop() is called on the loop thread:
\* the comment "addExecutor must succeed" is true under that condition.
THEOREM EventAddNeverRefused ==
  ASSUME ~ForeignStop
  PROVE  Spec => []EventAddSucceeds
<1>1. Init => PollsUnstopped
  BY DEF Init, PollsUnstopped
<1>2. PollsUnstopped /\ [Next]_vars => PollsUnstopped'
  BY PollStep
<1>3. PollsUnstopped => EventAddSucceeds
  BY DEF PollsUnstopped, EventAddSucceeds
<1> QED BY <1>1, <1>2, <1>3, PTL DEF Spec

-----------------------------------------------------------------------------
(* Counting the places that refer to an executor.                          *)

\* A count is a number; what is in the list counts.
LEMMA CountNat ==
  ASSUME NEW S, NEW q \in Seq(S), NEW x
  PROVE  /\ IsFiniteSet({k \in 1..Len(q) : q[k] = x})
         /\ CountIn(q, x) \in Nat
<1>1. IsFiniteSet(1..Len(q))
  BY FS_Interval
<1>2. {k \in 1..Len(q) : q[k] = x} \in SUBSET (1..Len(q))
  OBVIOUS
<1>3. IsFiniteSet({k \in 1..Len(q) : q[k] = x})
  BY <1>1, <1>2, FS_Subset
<1> QED BY <1>3, FS_CardinalityType DEF CountIn

\* The count of a concatenation is the sum of the counts.
LEMMA CountConcat ==
  ASSUME NEW S, NEW q \in Seq(S), NEW r \in Seq(S), NEW x
  PROVE  CountIn(q \o r, x) = CountIn(q, x) + CountIn(r, x)
<1> DEFINE A == {k \in 1..Len(q) : q[k] = x}
           B == {k \in 1..Len(r) : r[k] = x}
           n == Len(q)
           C == {k \in (n + 1)..(n + Len(r)) : r[k - n] = x}
           f == [k \in B |-> k + n]
<1>1. IsFiniteSet(A) /\ IsFiniteSet(B)
  BY CountNat
<1>2. ExistsBijection(B, C)
  <2>1. f \in [B -> C]
    OBVIOUS
  <2>2. \A a, b \in B : f[a] = f[b] => a = b
    OBVIOUS
  <2>3. \A c \in C : \E b \in B : f[b] = c
    <3> SUFFICES ASSUME NEW c \in C PROVE \E b \in B : f[b] = c
      OBVIOUS
    <3>1. c - n \in B /\ f[c - n] = c
      OBVIOUS
    <3> QED BY <3>1
  <2>4. f \in Injection(B, C)
    BY <2>1, <2>2 DEF Injection, IsInjective
  <2>5. f \in Surjection(B, C)
    BY <2>1, <2>3 DEF Surjection
  <2> QED BY <2>4, <2>5 DEF ExistsBijection, Bijection
<1>3. IsFiniteSet(C) /\ Cardinality(C) = Cardinality(B)
  BY <1>1, <1>2, FS_Bijection
<1>4. {k \in 1..Len(q \o r) : (q \o r)[k] = x} = A \cup C
  OBVIOUS
<1>5. A \cap C = {}
  OBVIOUS
<1>6. Cardinality(A) \in Nat /\ Cardinality(C) \in Nat
  BY <1>1, <1>3, FS_CardinalityType
<1>7. Cardinality(A \cup C) = Cardinality(A) + Cardinality(C)
  <2>1. Cardinality(A \cup C) = Cardinality(A) + Cardinality(C) - Cardinality(A \cap C)
    BY <1>1, <1>3, FS_Union
  <2>2. Cardinality(A \cap C) = 0
    BY <1>5, FS_EmptySet
  <2> QED BY <2>1, <2>2, <1>6
<1> QED BY <1>3, <1>4, <1>7 DEF CountIn

\* The empty list and the list of one.
LEMMA CountSmall ==
  ASSUME NEW x, NEW y
  PROVE  CountIn(<<>>, x) = 0 /\ CountIn(<<y>>, x) = Holds(y = x)
<1>1. {k \in 1..Len(<<>>) : <<>>[k] = x} = {}
  OBVIOUS
<1>2. {k \in 1..Len(<<y>>) : <<y>>[k] = x} = IF y = x THEN {1} ELSE {}
  OBVIOUS
<1> QED BY <1>1, <1>2, FS_EmptySet, FS_Singleton DEF CountIn, Holds

\* How a list's count changes at its ends.
LEMMA CountAppend ==
  ASSUME NEW S, NEW q \in Seq(S), NEW e \in S, NEW x
  PROVE  CountIn(Append(q, e), x) = CountIn(q, x) + Holds(e = x)
<1>1. Append(q, e) = q \o <<e>> /\ <<e>> \in Seq(S)
  OBVIOUS
<1>2. CountIn(q \o <<e>>, x) = CountIn(q, x) + CountIn(<<e>>, x)
  BY <1>1, CountConcat, Zenon
<1> QED BY <1>1, <1>2, CountSmall, Zenon

\* An element put in front counts.
LEMMA CountFront ==
  ASSUME NEW S, NEW q \in Seq(S), NEW e \in S, NEW x
  PROVE  CountIn(<<e>> \o q, x) = CountIn(q, x) + Holds(e = x)
<1>1. <<e>> \in Seq(S)
  OBVIOUS
<1>2. CountIn(<<e>> \o q, x) = CountIn(<<e>>, x) + CountIn(q, x)
  BY <1>1, CountConcat, Zenon
<1>3. CountIn(<<e>> \o q, x) = Holds(e = x) + CountIn(q, x)
  BY <1>2, CountSmall, Zenon
<1>4. CountIn(q, x) \in Nat
  BY CountNat
<1> QED BY <1>3, <1>4 DEF Holds

\* An element taken from the front no longer counts.
LEMMA CountTail ==
  ASSUME NEW S, NEW q \in Seq(S), q # <<>>, NEW x
  PROVE  CountIn(q, x) = CountIn(Tail(q), x) + Holds(Head(q) = x)
<1> DEFINE h == Head(q)
           r == Tail(q)
<1>1. r \in Seq(S) /\ h \in S /\ q = <<h>> \o r
  OBVIOUS
<1> HIDE DEF h, r
<1>2. CountIn(<<h>> \o r, x) = CountIn(r, x) + Holds(h = x)
  BY <1>1, CountFront
<1>3. CountIn(q, x) = CountIn(r, x) + Holds(h = x)
  BY <1>1, <1>2, Zenon
<1> QED BY <1>3 DEF h, r

\* Erasing one element takes one reference away.
LEMMA CountErase ==
  ASSUME NEW S, NEW q \in Seq(S), NEW k \in 1..Len(q), NEW x
  PROVE  CountIn(q, x) = CountIn(SubSeq(q, 1, k - 1) \o SubSeq(q, k + 1, Len(q)), x) + Holds(q[k] = x)
<1> DEFINE a == SubSeq(q, 1, k - 1)
           b == SubSeq(q, k + 1, Len(q))
           c == <<q[k]>> \o b
<1>1. a \in Seq(S) /\ b \in Seq(S) /\ q[k] \in S
  OBVIOUS
<1>2. /\ Len(a) = k - 1 /\ \A i \in 1..(k - 1) : a[i] = q[i]
      /\ Len(b) = Len(q) - k /\ \A i \in 1..(Len(q) - k) : b[i] = q[k + i]
  OBVIOUS
<1> HIDE DEF a, b
<1>3. /\ c \in Seq(S) /\ Len(c) = 1 + Len(b) /\ c[1] = q[k]
      /\ \A i \in 1..Len(b) : c[i + 1] = b[i]
  BY <1>1
<1> HIDE DEF c
<1>4. q = a \o c
  <2>1. a \o c \in Seq(S) /\ Len(a \o c) = Len(q)
    <3>1. a \o c \in Seq(S) /\ Len(a \o c) = Len(a) + Len(c)
      BY <1>1, <1>3, ConcatProperties
    <3>2. Len(q) \in Nat /\ k \in Int
      OBVIOUS
    <3> QED BY <3>1, <3>2, <1>2, <1>3
  <2>2. ASSUME NEW i \in 1..Len(q) PROVE q[i] = (a \o c)[i]
    <3>1. CASE i < k
      BY <3>1, <1>1, <1>2, <1>3
    <3>2. CASE i = k
      BY <3>2, <1>1, <1>2, <1>3
    <3>3. CASE i > k
      <4>1. i - k \in 1..Len(b)
        BY <3>3, <1>2
      <4>2. c[i - k + 1] = b[i - k] /\ b[i - k] = q[k + (i - k)]
        BY <4>1, <1>2, <1>3
      <4>3. (a \o c)[i] = c[i - (k - 1)]
        <5>1. i \in 1..(Len(a) + Len(c)) /\ ~(i <= Len(a)) /\ Len(a) = k - 1
          BY <3>3, <1>2, <1>3
        <5>2. \A j \in 1..(Len(a) + Len(c)) : (a \o c)[j] = IF j <= Len(a) THEN a[j] ELSE c[j - Len(a)]
          BY <1>1, <1>3, ConcatProperties
        <5>3. (a \o c)[i] = c[i - Len(a)]
          BY <5>1, <5>2, Zenon
        <5> QED BY <5>1, <5>3, Zenon
      <4>4. i - (k - 1) = i - k + 1 /\ k + (i - k) = i
        OBVIOUS
      <4>5. (a \o c)[i] = c[i - k + 1]
        BY <4>3, <4>4, Zenon
      <4>6. b[i - k] = q[i]
        BY <4>2, <4>4, Zenon
      <4> QED BY <4>2, <4>5, <4>6, Zenon
    <3>4. i < k \/ i = k \/ i > k
      <4>1. Len(q) \in Nat
        OBVIOUS
      <4>2. i \in Int /\ k \in Int
        BY <4>1
      <4> QED BY <4>2
    <3> QED BY <3>1, <3>2, <3>3, <3>4, Zenon
  <2> QED BY <2>1, <2>2, SeqEqual
<1>5. CountIn(a \o c, x) = CountIn(a, x) + CountIn(c, x)
  BY <1>1, <1>3, CountConcat, Zenon
<1>6. CountIn(c, x) = CountIn(b, x) + Holds(q[k] = x)
  <2>1. CountIn(<<q[k]>> \o b, x) = CountIn(b, x) + Holds(q[k] = x)
    BY <1>1, CountFront
  <2> QED BY <2>1 DEF c
<1>7. CountIn(a \o b, x) = CountIn(a, x) + CountIn(b, x)
  BY <1>1, CountConcat, Zenon
<1>8. CountIn(a, x) \in Nat /\ CountIn(b, x) \in Nat /\ Holds(q[k] = x) \in Nat
  BY <1>1, CountNat DEF Holds
<1>9. CountIn(q, x) = CountIn(a \o c, x)
  BY <1>4, Zenon
<1>10. CountIn(q, x) = CountIn(a \o b, x) + Holds(q[k] = x)
  BY <1>5, <1>6, <1>7, <1>8, <1>9
<1> QED BY <1>10 DEF a, b

-----------------------------------------------------------------------------
(* Every live executor is in exactly one place.                            *)

Alive(t) == state[t] \in {"Init", "Exec", "HoldUp"}

\* Where the loop is tells which of its local places are empty.
PhaseInv ==
  /\ pc \notin {"run", "undefined"} => cur = NoEntry
  /\ pc # "schedule" => taken = <<>>
  /\ pc # "timers" => expired = {}
  /\ pc \notin {"timers", "events", "drain", "crashed"} => fired = {}

PlaceOK(t) ==
  /\ Places(t) <= 1
  /\ Alive(t) /\ t \notin dropped => Places(t) = 1
  /\ state[t] = "none" => Places(t) = 0

\* The timeouts of t on their way to their callback.
Late(t) ==
  CountIn(ready, <<"timeout", t>>) + Holds(t \in overdue) + Holds(cur = <<"timeout", t>>)

\* A timeout and the timer it came from are of the suspension t is in, there
\* is one of them at most, and the event is still registered.
LimitOK(t) ==
  /\ Late(t) + Holds(t \in limited) <= 1
  /\ Late(t) >= 1 => t \in waiting /\ call[t] = "waits"
  /\ t \in limited => call[t] = "waits"
  /\ cur = <<"task", t>> => call[t] = "no"

PlaceInv == TypeInv /\ PhaseInv /\ \A t \in Tasks \ raced : PlaceOK(t) /\ LimitOK(t)

InReady(q, t) == CountIn(q, <<"task", t>>) + CountIn(q, <<"wake", t>>)

InCur(c, t) == Holds(c \in {<<"task", t>>, <<"wake", t>>})

\* A reference to t is one entry or the other, not both.
LEMMA CurSplit ==
  ASSUME NEW e, NEW t
  PROVE  InCur(e, t) = Holds(e = <<"task", t>>) + Holds(e = <<"wake", t>>)
  BY DEF InCur, Holds

\* The entries of the ready list that refer to a task.
LEMMA ReadyCounts ==
  ASSUME NEW q \in Seq(Slots), NEW t \in Tasks
  PROVE  /\ InReady(q, t) \in Nat
         /\ \A e \in Slots : InReady(Append(q, e), t) = InReady(q, t) + InCur(e, t)
         /\ q # <<>> => InReady(q, t) = InReady(Tail(q), t) + InCur(Head(q), t)
         /\ InReady(<<>>, t) = 0
<1> DEFINE x == <<"task", t>>
           y == <<"wake", t>>
<1> HIDE DEF x, y
<1>1. CountIn(q, x) \in Nat /\ CountIn(q, y) \in Nat
  BY CountNat
<1>h. \A e : /\ InCur(e, t) = Holds(e = x) + Holds(e = y)
             /\ Holds(e = x) \in Nat /\ Holds(e = y) \in Nat
  BY CurSplit DEF Holds, x, y
<1>2. ASSUME NEW e \in Slots
      PROVE  InReady(Append(q, e), t) = InReady(q, t) + InCur(e, t)
  <2>1. CountIn(Append(q, e), x) = CountIn(q, x) + Holds(e = x)
    BY CountAppend
  <2>2. CountIn(Append(q, e), y) = CountIn(q, y) + Holds(e = y)
    BY CountAppend
  <2> QED BY <1>1, <1>h, <2>1, <2>2 DEF InReady, x, y
<1>3. ASSUME q # <<>>
      PROVE  InReady(q, t) = InReady(Tail(q), t) + InCur(Head(q), t)
  <2> DEFINE e == Head(q)
  <2>1. e \in Slots /\ Tail(q) \in Seq(Slots)
    BY <1>3
  <2>2. CountIn(q, x) = CountIn(Tail(q), x) + Holds(e = x)
    BY <1>3, <2>1, CountTail, Zenon
  <2>3. CountIn(q, y) = CountIn(Tail(q), y) + Holds(e = y)
    BY <1>3, <2>1, CountTail, Zenon
  <2>4. CountIn(Tail(q), x) \in Nat /\ CountIn(Tail(q), y) \in Nat
    BY <2>1, CountNat
  <2> HIDE DEF e
  <2>7. InReady(q, t) = InReady(Tail(q), t) + InCur(e, t)
    BY <2>2, <2>3, <2>4, <1>h DEF InReady, x, y
  <2> QED BY <2>7 DEF e
<1>4. InReady(<<>>, t) = 0
  <2>1. CountIn(<<>>, <<"task", t>>) = 0 /\ CountIn(<<>>, <<"wake", t>>) = 0
    BY CountSmall, Zenon
  <2> QED BY <2>1 DEF InReady
<1> QED BY <1>1, <1>2, <1>3, <1>4 DEF InReady, x, y

\* Erasing an entry takes one reference away.
LEMMA ReadyErase ==
  ASSUME NEW q \in Seq(Slots), NEW k \in 1..Len(q), NEW t \in Tasks
  PROVE  InReady(q, t) = InReady(SubSeq(q, 1, k - 1) \o SubSeq(q, k + 1, Len(q)), t)
                           + InCur(q[k], t)
<1> DEFINE x == <<"task", t>>
           y == <<"wake", t>>
           e == q[k]
           r == SubSeq(q, 1, k - 1) \o SubSeq(q, k + 1, Len(q))
<1>1. CountIn(q, x) = CountIn(r, x) + Holds(e = x)
  BY CountErase, ZenonT(30)
<1>2. CountIn(q, y) = CountIn(r, y) + Holds(e = y)
  BY CountErase, ZenonT(30)
<1>3. r \in Seq(Slots)
  <2>1. SubSeq(q, 1, k - 1) \in Seq(Slots) /\ SubSeq(q, k + 1, Len(q)) \in Seq(Slots)
    OBVIOUS
  <2> QED BY <2>1
<1> HIDE DEF e, r
<1>4. CountIn(r, x) \in Nat /\ CountIn(r, y) \in Nat
  BY <1>3, CountNat
<1>6. /\ Holds(e = x) \in Nat /\ Holds(e = y) \in Nat
      /\ InCur(e, t) = Holds(e = x) + Holds(e = y)
  BY CurSplit DEF Holds
<1>7. InReady(q, t) = InReady(r, t) + InCur(e, t)
  BY <1>1, <1>2, <1>4, <1>6 DEF InReady
<1> QED BY <1>7 DEF e, r

\* What each kind of entry refers to.
LEMMA CurCounts ==
  ASSUME NEW t \in Tasks
  PROVE  /\ \A u \in Tasks : /\ InCur(<<"task", u>>, t) = Holds(u = t)
                             /\ InCur(<<"wake", u>>, t) = Holds(u = t)
                             /\ InCur(<<"timeout", u>>, t) = 0
         /\ InCur(NoEntry, t) = 0
<1>1. <<"task", t>> \in Entries /\ <<"wake", t>> \in Entries
  BY DEF Entries
<1>2. InCur(NoEntry, t) = 0
  BY <1>1, NoEntryAssumption DEF InCur, Holds
<1> QED BY <1>2 DEF InCur, Holds

\* An fd event adds one reference to its task, and no timeout.
LEMMA AddedCounts ==
  ASSUME NEW q \in Seq(Slots), NEW t \in Tasks, NEW es \in Added(t), NEW u \in Tasks
  PROVE  /\ InReady(q \o es, u) = InReady(q, u) + Holds(t = u)
         /\ CountIn(q \o es, <<"timeout", u>>) = CountIn(q, <<"timeout", u>>)
<1> DEFINE e == <<"task", t>>
<1>1. e \in Slots /\ NoEntry \in Slots /\ <<"timeout", u>> \in Entries
  BY DEF Slots, Entries
<1>2. ASSUME NEW x
      PROVE  CountIn(q \o es, x) = CountIn(q, x) + Holds(e = x)
                                     + (CountIn(es, x) - Holds(e = x))
             /\ CountIn(es, x) \in {Holds(e = x), Holds(e = x) + Holds(NoEntry = x)}
             /\ CountIn(q, x) \in Nat /\ Holds(e = x) \in Nat
  <2>1. es \in Seq(Slots) /\ <<e>> \in Seq(Slots) /\ <<NoEntry>> \in Seq(Slots)
    <3>1. es \in Seq(Slots)
      BY AddedType
    <3> HIDE DEF e
    <3> QED BY <1>1, <3>1
  <2>2. CountIn(<<e>>, x) = Holds(e = x) /\ CountIn(<<NoEntry>>, x) = Holds(NoEntry = x)
    BY CountSmall, Zenon
  <2>3. CountIn(<<e>> \o <<NoEntry>>, x) = CountIn(<<e>>, x) + CountIn(<<NoEntry>>, x)
    BY <2>1, CountConcat, Zenon
  <2>4. CountIn(<<NoEntry>> \o <<e>>, x) = CountIn(<<NoEntry>>, x) + CountIn(<<e>>, x)
    BY <2>1, CountConcat, Zenon
  <2>5. es = <<e>> \/ es = <<e>> \o <<NoEntry>> \/ es = <<NoEntry>> \o <<e>>
    BY AddedType
  <2>6. Holds(e = x) \in Nat /\ Holds(NoEntry = x) \in Nat
    BY DEF Holds
  <2> HIDE DEF e
  <2>7. CountIn(es, x) \in {Holds(e = x), Holds(e = x) + Holds(NoEntry = x)}
    <3>1. CASE es = <<e>>
      BY <2>2, <3>1, Zenon
    <3>2. CASE es = <<e>> \o <<NoEntry>>
      <4>1. CountIn(es, x) = Holds(e = x) + Holds(NoEntry = x)
        BY <2>2, <2>3, <3>2, Zenon
      <4> QED BY <4>1, Zenon
    <3>3. CASE es = <<NoEntry>> \o <<e>>
      <4>1. CountIn(es, x) = Holds(NoEntry = x) + Holds(e = x)
        BY <2>2, <2>4, <3>3, Zenon
      <4> QED BY <4>1, <2>6
    <3> QED BY <2>5, <3>1, <3>2, <3>3
  <2>8. CountIn(q \o es, x) = CountIn(q, x) + CountIn(es, x) /\ CountIn(q, x) \in Nat
    BY <2>1, CountConcat, CountNat
  <2> QED BY <2>6, <2>7, <2>8
<1>3. ASSUME NEW x, x # NoEntry
      PROVE  CountIn(q \o es, x) = CountIn(q, x) + Holds(e = x)
  <2>0. /\ CountIn(q \o es, x) = CountIn(q, x) + Holds(e = x) + (CountIn(es, x) - Holds(e = x))
        /\ CountIn(es, x) \in {Holds(e = x), Holds(e = x) + Holds(NoEntry = x)}
        /\ CountIn(q, x) \in Nat /\ Holds(e = x) \in Nat
    BY <1>2
  <2>1. Holds(NoEntry = x) = 0
    BY <1>3 DEF Holds
  <2> HIDE DEF e
  <2> QED BY <2>0, <2>1
<1>4. <<"task", u>> # NoEntry /\ <<"wake", u>> # NoEntry /\ <<"timeout", u>> # NoEntry
  BY NoEntryAssumption DEF Entries
<1>5. /\ CountIn(q \o es, <<"task", u>>) = CountIn(q, <<"task", u>>) + Holds(t = u)
      /\ CountIn(q \o es, <<"wake", u>>) = CountIn(q, <<"wake", u>>) + 0
      /\ CountIn(q \o es, <<"timeout", u>>) = CountIn(q, <<"timeout", u>>) + 0
  <2>1. /\ Holds(e = <<"task", u>>) = Holds(t = u)
        /\ Holds(e = <<"wake", u>>) = 0 /\ Holds(e = <<"timeout", u>>) = 0
    BY DEF Holds
  <2> QED BY <1>3, <1>4, <2>1
<1>6. /\ CountIn(q, <<"task", u>>) \in Nat /\ CountIn(q, <<"wake", u>>) \in Nat
      /\ CountIn(q, <<"timeout", u>>) \in Nat /\ Holds(t = u) \in Nat
  BY CountNat DEF Holds
<1> QED BY <1>5, <1>6 DEF InReady

\* The lists of tasks.
LEMMA TaskCounts ==
  ASSUME NEW q \in Seq(Tasks), NEW t \in Tasks
  PROVE  /\ CountIn(q, t) \in Nat
         /\ \A u \in Tasks : CountIn(<<u>> \o q, t) = CountIn(q, t) + Holds(u = t)
         /\ q # <<>> => CountIn(q, t) = CountIn(Tail(q), t) + Holds(Head(q) = t)
         /\ CountIn(<<>>, t) = 0
<1>1. CountIn(q, t) \in Nat
  BY CountNat
<1>2. \A u \in Tasks : CountIn(<<u>> \o q, t) = CountIn(q, t) + Holds(u = t)
  BY CountFront
<1>3. q # <<>> => CountIn(q, t) = CountIn(Tail(q), t) + Holds(Head(q) = t)
  BY CountTail, Zenon
<1>4. CountIn(<<>>, t) = 0
  BY CountSmall
<1> QED BY <1>1, <1>2, <1>3, <1>4

\* The loop's local places are empty where they should be.
LEMMA PhaseStep ==
  PhaseInv /\ TypeInv /\ [Next]_vars => PhaseInv'
<1> SUFFICES ASSUME PhaseInv, TypeInv, [Next]_vars PROVE PhaseInv'
  OBVIOUS
<1> USE DEF PhaseInv
<1>1. CASE \E p \in Threads : AddRemoteTask(p)
  <2>1. UNCHANGED <<pc, cur, taken, expired, fired>>
    BY <1>1 DEF AddRemoteTask, InsertFront, AcquireWakeLock, WritePipe, ReleaseWakeLock,
                schedVars, pollVars
  <2> QED BY <2>1
<1>2. CASE UserCalls
  BY <1>2 DEF UserCalls, AddExecutor, RemoveExecutor, Kill, Stop, Run, schedVars, pollVars
<1>3. CASE TaskEnds
  BY <1>3 DEF TaskEnds, Finish, Sleep, WaitEvent, WaitLimited, Requeue, LeaveTask, UserCode, pollVars
<1>4. CASE RunWake \/ RunTimeout \/ TakeRemote \/ LeaveLoop \/ ScheduleOne \/ ScheduleDone
  BY <1>4 DEF RunWake, RunTimeout, TakeRemote, LeaveLoop, ScheduleOne, ScheduleDone, schedVars,
              pollVars
<1>5. CASE PopAndExec \/ PopEmpty
  BY <1>5 DEF PopAndExec, PopEmpty, ResumeTask, schedVars, pollVars
<1>6. CASE EpollReturn \/ QueueTimer \/ TimersDone \/ QueueEvent
  BY <1>6 DEF EpollReturn, QueueTimer, TimersDone, QueueEvent, schedVars, pollVars
<1>7. CASE StartDrain \/ EventsDone \/ DrainRead \/ DrainEmpty
  BY <1>7 DEF StartDrain, EventsDone, DrainRead, DrainEmpty, schedVars, pollVars
<1>8. CASE UNCHANGED vars
  BY <1>8 DEF vars, schedVars, pollVars
<1> QED BY <1>1, <1>2, <1>3, <1>4, <1>5, <1>6, <1>7, <1>8 DEF Next, LoopStep

\* What addExecutor does to the references to a task and to its timeouts.
LEMMA EnqueueCounts ==
  ASSUME TypeOK, NEW e \in Entries, Enqueue(e), NEW t \in Tasks
  PROVE  /\ InReady(ready', t) = InReady(ready, t) + (IF stopping THEN 0 ELSE InCur(e, t))
         /\ CountIn(ready', <<"timeout", t>>)
              = CountIn(ready, <<"timeout", t>>) + Holds(~stopping /\ e = <<"timeout", t>>)
         /\ dropped' = IF stopping THEN dropped \cup {e[2]} ELSE dropped
<1>1. ready \in Seq(Slots) /\ e \in Slots
  BY DEF TypeOK, Slots
<1>2. InReady(ready, t) \in Nat /\ CountIn(ready, <<"timeout", t>>) \in Nat
  BY <1>1, ReadyCounts, CountNat
<1>3. CASE stopping
  BY <1>2, <1>3 DEF Enqueue, Holds
<1>4. CASE ~stopping
  <2>1. InReady(Append(ready, e), t) = InReady(ready, t) + InCur(e, t)
    BY <1>1, ReadyCounts
  <2>2. CountIn(Append(ready, e), <<"timeout", t>>)
          = CountIn(ready, <<"timeout", t>>) + Holds(e = <<"timeout", t>>)
    BY <1>1, CountAppend
  <2>3. ready' = Append(ready, e) /\ dropped' = dropped
    BY <1>4 DEF Enqueue
  <2>4. (~stopping /\ e = <<"timeout", t>>) <=> e = <<"timeout", t>>
    BY <1>4
  <2>5. Holds(~stopping /\ e = <<"timeout", t>>) = Holds(e = <<"timeout", t>>)
    BY <2>4 DEF Holds
  <2> QED BY <1>4, <2>1, <2>2, <2>3, <2>5
<1> QED BY <1>3, <1>4

\* addExecutor of a task, or of the executor that wakes it.
LEMMA EnqueueTask ==
  ASSUME TypeOK, NEW k \in {"task", "wake"}, NEW t \in Tasks, Enqueue(<<k, t>>), NEW u \in Tasks
  PROVE  /\ InReady(ready', u) = InReady(ready, u) + Holds(~stopping /\ t = u)
         /\ dropped' = IF stopping THEN dropped \cup {t} ELSE dropped
<1> DEFINE e == <<k, t>>
<1>1. e \in Entries /\ e[2] = t /\ InCur(e, u) = Holds(t = u)
  <2>1. CASE k = "task"
    BY <2>1, CurCounts DEF Entries
  <2>2. CASE k = "wake"
    BY <2>2, CurCounts DEF Entries
  <2> QED BY <2>1, <2>2
<1>2. Enqueue(e)
  OBVIOUS
<1> HIDE DEF e
<1>3. /\ InReady(ready', u) = InReady(ready, u) + (IF stopping THEN 0 ELSE InCur(e, u))
      /\ dropped' = IF stopping THEN dropped \cup {e[2]} ELSE dropped
  BY <1>1, <1>2, EnqueueCounts
<1> QED BY <1>1, <1>3 DEF Holds

\* The references to a task, list by list and set by set.
LEMMA PlacesSum ==
  ASSUME NEW t \in Tasks
  PROVE  /\ Places(t) = InReady(ready, t) + CountIn(remote, t) + CountIn(taken, t)
                          + Holds(t \in sleeping) + Holds(t \in waiting)
                          + Holds(t \in expired) + Holds(t \in fired) + InCur(cur, t)
         /\ Places(t)' = InReady(ready', t) + CountIn(remote', t) + CountIn(taken', t)
                          + Holds(t \in sleeping') + Holds(t \in waiting')
                          + Holds(t \in expired') + Holds(t \in fired') + InCur(cur', t)
  BY DEF Places, InReady, InCur

\* Every step moves a reference, makes the first one of a new task, or drops
\* one of a task that ended or is dropped.
LEMMA ReferenceStep ==
  ASSUME PlaceInv, [Next]_vars, NEW u \in Tasks, u \notin raced
  PROVE  PlaceOK(u)'
<1>1. TypeInv /\ TypeInv' /\ PhaseInv /\ PhaseInv'
  BY TypeStep, PhaseStep DEF PlaceInv
<1>2. PlaceOK(u)
  BY DEF PlaceInv
<1>l. LimitOK(u)
  BY DEF PlaceInv
<1>3. /\ Places(u) = InReady(ready, u) + CountIn(remote, u) + CountIn(taken, u)
                       + Holds(u \in sleeping) + Holds(u \in waiting)
                       + Holds(u \in expired) + Holds(u \in fired) + InCur(cur, u)
      /\ Places(u)' = InReady(ready', u) + CountIn(remote', u) + CountIn(taken', u)
                       + Holds(u \in sleeping') + Holds(u \in waiting')
                       + Holds(u \in expired') + Holds(u \in fired') + InCur(cur', u)
  BY PlacesSum
<1>4. /\ InReady(ready, u) \in Nat /\ CountIn(remote, u) \in Nat /\ CountIn(taken, u) \in Nat
      /\ InReady(ready', u) \in Nat /\ CountIn(remote', u) \in Nat /\ CountIn(taken', u) \in Nat
  BY <1>1, ReadyCounts, TaskCounts DEF TypeInv, TypeOK, Slots
<1>5. InCur(cur, u) \in Nat /\ InCur(cur', u) \in Nat
  BY DEF InCur, Holds
<1>6. state \in [Tasks -> {"none", "Init", "Exec", "HoldUp", "Terminal"}]
  BY <1>1 DEF TypeInv, TypeOK
<1>7. /\ ready \in Seq(Slots) /\ remote \in Seq(Tasks) /\ taken \in Seq(Tasks)
      /\ cur \in Slots
  BY <1>1 DEF TypeInv, TypeOK, Slots
<1>8. TypeOK
  BY <1>1 DEF TypeInv
<1>9. InCur(NoEntry, u) = 0 /\ CountIn(<<>>, u) = 0
  BY CurCounts, CountSmall
<1>e. ASSUME NEW t \in Tasks, NEW es \in Added(t)
      PROVE  InReady(ready \o es, u) = InReady(ready, u) + Holds(t = u)
  <2>1. ready \in Seq(Slots)
    BY <1>7
  <2>2. /\ InReady(ready \o es, u) = InReady(ready, u) + Holds(t = u)
        /\ CountIn(ready \o es, <<"timeout", u>>) = CountIn(ready, <<"timeout", u>>)
    BY <2>1, <1>e, AddedCounts
  <2> QED BY <2>2
<1> DEFINE r == InReady(ready, u)      r1 == InReady(ready', u)
           m == CountIn(remote, u)     m1 == CountIn(remote', u)
           k == CountIn(taken, u)      k1 == CountIn(taken', u)
           c == InCur(cur, u)          c1 == InCur(cur', u)
           i == Holds(u \in sleeping) + Holds(u \in waiting)
                  + Holds(u \in expired) + Holds(u \in fired)
           i1 == Holds(u \in sleeping') + Holds(u \in waiting')
                  + Holds(u \in expired') + Holds(u \in fired')
           P == Places(u)              P1 == Places(u)'
<1>s. /\ P = r + m + k + i + c /\ P1 = r1 + m1 + k1 + i1 + c1
      /\ r \in Nat /\ m \in Nat /\ k \in Nat /\ i \in Nat /\ c \in Nat
      /\ r1 \in Nat /\ m1 \in Nat /\ k1 \in Nat /\ i1 \in Nat /\ c1 \in Nat
  <2>1. /\ Holds(u \in sleeping) \in Nat /\ Holds(u \in waiting) \in Nat
        /\ Holds(u \in expired) \in Nat /\ Holds(u \in fired) \in Nat
        /\ Holds(u \in sleeping') \in Nat /\ Holds(u \in waiting') \in Nat
        /\ Holds(u \in expired') \in Nat /\ Holds(u \in fired') \in Nat
    BY DEF Holds
  <2> QED BY <2>1, <1>3, <1>4, <1>5
<1>i. UNCHANGED <<sleeping, waiting, expired, fired>> => i1 = i
  OBVIOUS
<1>o. /\ P <= 1 /\ (Alive(u) /\ u \notin dropped => P = 1) /\ (state[u] = "none" => P = 0)
      /\ PlaceOK(u)' <=> /\ P1 <= 1
                         /\ state'[u] \in {"Init", "Exec", "HoldUp"} /\ u \notin dropped' => P1 = 1
                         /\ state'[u] = "none" => P1 = 0
  BY <1>2 DEF PlaceOK, Alive
<1> HIDE DEF r, r1, m, m1, k, k1, c, c1, i, i1, P, P1
<1>10. ASSUME NEW p \in Threads, NEW t \in Tasks, InsertFront(p, t) PROVE PlaceOK(u)'
  <2>1. /\ UNCHANGED <<ready, taken, cur, dropped, sleeping, waiting, expired, fired>>
        /\ state[t] = "none" /\ state' = [state EXCEPT ![t] = "Init"]
        /\ remote' = <<t>> \o remote
    BY <1>10 DEF InsertFront, pollVars
  <2>2. m1 = m + Holds(t = u)
    BY <2>1, <1>7, TaskCounts DEF m, m1
  <2>3. r1 = r /\ k1 = k /\ c1 = c /\ i1 = i
    BY <2>1, <1>i DEF r, r1, k, k1, c, c1
  <2>4. CASE t = u
    <3>1. m1 = m + 1 /\ state[u] = "none" /\ state'[u] = "Init"
      BY <2>1, <2>2, <2>4, <1>6 DEF Holds
    <3> QED BY <2>3, <3>1, <1>s, <1>o
  <2>5. CASE t # u
    <3>1. m1 = m /\ state'[u] = state[u] /\ dropped' = dropped
      BY <2>1, <2>2, <2>5, <1>6, <1>s DEF Holds
    <3> QED BY <2>3, <3>1, <1>s, <1>o DEF Alive
  <2> QED BY <2>4, <2>5
<1>12. ASSUME NEW t \in Tasks, AddExecutor(t) PROVE PlaceOK(u)'
  <2>1. /\ UNCHANGED <<remote, taken, cur, sleeping, waiting, expired, fired>>
        /\ state[t] = "none" /\ state' = [state EXCEPT ![t] = "Init"]
        /\ Enqueue(<<"task", t>>)
    BY <1>12 DEF AddExecutor, pollVars, wakeVars
  <2>3. /\ r1 = r + Holds(~stopping /\ t = u)
        /\ dropped' = IF stopping THEN dropped \cup {t} ELSE dropped
    BY <2>1, <1>8, EnqueueTask DEF r, r1
  <2>4. m1 = m /\ k1 = k /\ c1 = c /\ i1 = i
    BY <2>1, <1>i DEF m, m1, k, k1, c, c1
  <2>5. CASE t = u
    <3>1. /\ state[u] = "none" /\ state'[u] = "Init"
          /\ IF stopping THEN r1 = r /\ u \in dropped' ELSE r1 = r + 1
      BY <2>1, <2>3, <2>5, <1>6, <1>s DEF Holds
    <3> QED BY <2>4, <3>1, <1>s, <1>o
  <2>6. CASE t # u
    <3>1. r1 = r /\ state'[u] = state[u] /\ (u \in dropped' <=> u \in dropped)
      BY <2>1, <2>3, <2>6, <1>6, <1>s DEF Holds
    <3> QED BY <2>4, <3>1, <1>s, <1>o DEF Alive
  <2> QED BY <2>5, <2>6
<1>13. ASSUME NEW t \in Tasks, RemoveExecutor(t) PROVE PlaceOK(u)'
  <2>1. /\ UNCHANGED <<state, remote, taken, cur, sleeping, waiting, expired, fired>>
        /\ dropped' = dropped \cup {t}
    BY <1>13 DEF RemoveExecutor, pollVars, wakeVars
  <2>2. PICK n \in 1..Len(ready) :
          /\ ready[n] = <<"task", t>>
          /\ ready' = SubSeq(ready, 1, n - 1) \o SubSeq(ready, n + 1, Len(ready))
    BY <1>13 DEF RemoveExecutor
  <2>3. r = r1 + Holds(t = u)
    <3>1. InReady(ready, u) = InReady(SubSeq(ready, 1, n - 1) \o SubSeq(ready, n + 1, Len(ready)), u)
                                + InCur(ready[n], u)
      BY <1>7, ReadyErase
    <3>2. InCur(ready[n], u) = Holds(t = u)
      <4>1. InCur(<<"task", t>>, u) = Holds(t = u)
        BY CurCounts
      <4> QED BY <4>1, <2>2
    <3> QED BY <3>1, <3>2, <2>2, Zenon DEF r, r1
  <2>4. m1 = m /\ k1 = k /\ c1 = c /\ i1 = i
    BY <2>1, <1>i DEF m, m1, k, k1, c, c1
  <2>5. CASE t = u
    <3>1. r = r1 + 1 /\ u \in dropped' /\ state' = state
      BY <2>1, <2>3, <2>5 DEF Holds
    <3>2. P1 = P - 1 /\ P1 \in Nat
      BY <2>4, <3>1, <1>s
    <3>3. P1 = 0
      BY <3>2, <1>o, <1>s
    <3> QED BY <3>1, <3>3, <1>o
  <2>6. CASE t # u
    <3>1. r = r1 /\ (u \in dropped' <=> u \in dropped) /\ state' = state
      BY <2>1, <2>3, <2>6, <1>s DEF Holds
    <3> QED BY <2>4, <3>1, <1>s, <1>o DEF Alive
  <2> QED BY <2>5, <2>6
<1>q. ASSUME Requeue PROVE PlaceOK(u)'
  <2>1. cur \in Entries /\ cur[2] \in Tasks /\ c = Holds(cur[2] = u)
    <3>1. cur \in Entries /\ cur[1] = "task"
      BY <1>1, <1>q DEF Requeue, UserCode, TypeInv, RunningIsExec
    <3>2. cur[2] \in Tasks /\ cur = <<"task", cur[2]>>
      BY <3>1, EntryParts
    <3>3. InCur(<<"task", cur[2]>>, u) = Holds(cur[2] = u)
      BY <3>2, CurCounts
    <3> QED BY <3>1, <3>2, <3>3 DEF c
  <2>2. /\ UNCHANGED <<remote, taken, sleeping, waiting, expired, fired>>
        /\ state' = [state EXCEPT ![cur[2]] = "HoldUp"]
        /\ Enqueue(cur) /\ cur' = NoEntry
    BY <1>q DEF Requeue, LeaveTask, pollVars, wakeVars
  <2>3. /\ r1 = r + Holds(~stopping /\ cur[2] = u)
        /\ dropped' = IF stopping THEN dropped \cup {cur[2]} ELSE dropped
    <3>1. /\ InReady(ready', u) = InReady(ready, u) + (IF stopping THEN 0 ELSE InCur(cur, u))
          /\ dropped' = IF stopping THEN dropped \cup {cur[2]} ELSE dropped
      BY <2>1, <2>2, <1>8, EnqueueCounts
    <3> QED BY <2>1, <3>1 DEF r, r1, c, Holds
  <2>4. m1 = m /\ k1 = k /\ i1 = i /\ c1 = 0
    BY <2>2, <1>i, <1>9 DEF m, m1, k, k1, c1
  <2>5. CASE cur[2] = u
    <3>1. /\ c = 1 /\ state'[u] = "HoldUp"
          /\ IF stopping THEN r1 = r /\ u \in dropped' ELSE r1 = r + 1
      BY <2>1, <2>2, <2>3, <2>5, <1>6, <1>s DEF Holds
    <3> QED BY <2>4, <3>1, <1>s, <1>o
  <2>6. CASE cur[2] # u
    <3>1. c = 0 /\ r1 = r /\ state'[u] = state[u] /\ (u \in dropped' <=> u \in dropped)
      BY <2>1, <2>2, <2>3, <2>6, <1>6, <1>s DEF Holds
    <3> QED BY <2>4, <3>1, <1>s, <1>o DEF Alive
  <2> QED BY <2>5, <2>6
<1>18. ASSUME ScheduleOne PROVE PlaceOK(u)'
  <2> DEFINE h == Head(taken)
  <2>1. /\ UNCHANGED <<state, cur, remote, sleeping, waiting, expired, fired>>
        /\ taken # <<>> /\ taken' = Tail(taken)
        /\ Enqueue(<<"task", h>>)
    BY <1>18 DEF ScheduleOne, pollVars, wakeVars
  <2>2. h \in Tasks /\ k = k1 + Holds(h = u)
    BY <2>1, <1>7, TaskCounts DEF k, k1
  <2> HIDE DEF h
  <2>4. /\ r1 = r + Holds(~stopping /\ h = u)
        /\ dropped' = IF stopping THEN dropped \cup {h} ELSE dropped
    BY <2>1, <2>2, <1>8, EnqueueTask DEF r, r1
  <2>5. m1 = m /\ c1 = c /\ i1 = i
    BY <2>1, <1>i DEF m, m1, c, c1
  <2>6. CASE h = u
    <3>1. /\ k = k1 + 1 /\ state' = state
          /\ IF stopping THEN r1 = r /\ u \in dropped' ELSE r1 = r + 1 /\ dropped' = dropped
      BY <2>1, <2>2, <2>4, <2>6, <1>s DEF Holds
    <3>2. P1 = (IF stopping THEN P - 1 ELSE P) /\ P >= 1 /\ P \in Nat
      BY <2>5, <3>1, <1>s
    <3> QED BY <3>1, <3>2, <1>o DEF Alive
  <2>7. CASE h # u
    <3>1. k = k1 /\ r1 = r /\ state' = state /\ (u \in dropped' <=> u \in dropped)
      BY <2>1, <2>2, <2>4, <2>7, <1>s DEF Holds
    <3> QED BY <2>5, <3>1, <1>s, <1>o DEF Alive
  <2> QED BY <2>6, <2>7
<1>19. ASSUME PopAndExec PROVE PlaceOK(u)'
  <2> DEFINE e == Head(ready)
  <2>1. /\ UNCHANGED <<dropped, taken, remote, sleeping, waiting, expired, fired>>
        /\ ready # <<>> /\ ready' = Tail(ready) /\ cur = NoEntry /\ e # NoEntry
    BY <1>1, <1>19 DEF PopAndExec, pollVars, wakeVars, PhaseInv
  <2>2. e \in Slots /\ r = r1 + InCur(e, u)
    BY <2>1, <1>7, ReadyCounts DEF r, r1
  <2>3. /\ Skipped(e) => UNCHANGED <<state, cur>> /\ e[1] = "task" /\ state[e[2]] = "Terminal"
        /\ ~Skipped(e) => /\ cur' = e
                          /\ \/ UNCHANGED state
                             \/ e[1] = "task" /\ state' = [state EXCEPT ![e[2]] = "Exec"]
    BY <1>19 DEF PopAndExec, Skipped, ResumeTask
  <2> HIDE DEF e
  <2>4. e \in Entries /\ e[2] \in Tasks /\ e = <<e[1], e[2]>>
    BY <2>1, <2>2, EntryParts DEF Slots
  <2>c. e[1] = "task" => InCur(e, u) = Holds(e[2] = u)
    <3>1. InCur(<<"task", e[2]>>, u) = Holds(e[2] = u)
      BY <2>4, CurCounts
    <3> QED BY <2>4, <3>1
  <2>5. m1 = m /\ k1 = k /\ i1 = i /\ c = 0
    BY <2>1, <1>i, <1>9 DEF m, m1, k, k1, c
  <2>6. CASE Skipped(e)
    <3>1. c1 = 0 /\ state' = state /\ dropped' = dropped
      BY <2>1, <2>3, <2>6, <1>9 DEF c1
    <3>2. CASE e[2] = u
      <4>1. r = r1 + 1 /\ state[u] = "Terminal"
        BY <2>2, <2>3, <2>6, <2>c, <3>2 DEF Holds
      <4> QED BY <2>5, <3>1, <4>1, <1>s, <1>o
    <3>3. CASE e[2] # u
      <4>1. r = r1
        BY <2>2, <2>3, <2>6, <2>c, <3>3, <1>s DEF Holds
      <4> QED BY <2>5, <3>1, <4>1, <1>s, <1>o DEF Alive
    <3> QED BY <3>2, <3>3
  <2>7. CASE ~Skipped(e)
    <3>1. c1 = InCur(e, u) /\ dropped' = dropped
      BY <2>1, <2>3, <2>7 DEF c1
    <3>2. P1 = P
      BY <2>2, <2>5, <3>1, <1>s
    <3>3. CASE e[1] = "task" /\ e[2] = u
      <4>1. P >= 1
        <5>1. InCur(e, u) = 1
          BY <2>c, <3>3 DEF Holds
        <5> QED BY <5>1, <2>2, <1>s
      <4>2. state'[u] = state[u] \/ state'[u] = "Exec"
        BY <2>3, <2>4, <2>7, <3>3, <1>6
      <4> QED BY <3>1, <3>2, <4>1, <4>2, <1>s, <1>o DEF Alive
    <3>4. CASE ~(e[1] = "task" /\ e[2] = u)
      <4>1. state'[u] = state[u]
        BY <2>3, <2>4, <2>7, <3>4, <1>6
      <4> QED BY <3>1, <3>2, <4>1, <1>s, <1>o DEF Alive
    <3> QED BY <3>3, <3>4
  <2> QED BY <2>6, <2>7
<1>v. ASSUME PopEmpty PROVE PlaceOK(u)'
  <2>1. UNCHANGED <<state, cur, dropped, taken, remote, sleeping, waiting, expired, fired>>
    BY <1>v DEF PopEmpty, pollVars, wakeVars
  <2>2. r1 = r
    <3>1. CASE ready = <<>>
      BY <1>v, <3>1 DEF PopEmpty, r, r1
    <3>2. CASE ready # <<>>
      <4>1. Head(ready) = NoEntry /\ ready' = Tail(ready)
        BY <1>v, <3>2 DEF PopEmpty
      <4>2. InReady(ready, u) = InReady(Tail(ready), u) + InCur(NoEntry, u)
        BY <3>2, <4>1, <1>7, ReadyCounts
      <4> QED BY <4>1, <4>2, <1>9, <1>s DEF r, r1
    <3> QED BY <3>1, <3>2
  <2>3. m1 = m /\ k1 = k /\ c1 = c /\ i1 = i
    BY <2>1, <1>i DEF m, m1, k, k1, c, c1
  <2> QED BY <2>1, <2>2, <2>3, <1>s, <1>o DEF Alive
<1>w. ASSUME RunTimeout PROVE PlaceOK(u)'
  <2>1. cur \in Entries /\ cur[1] = "timeout"
    BY <1>1, <1>w DEF RunTimeout, TypeInv, RunningIsExec
  <2>2. cur[2] \in Tasks /\ cur = <<"timeout", cur[2]>>
    BY <2>1, EntryParts
  <2>3. /\ cur' = NoEntry /\ UNCHANGED <<state, remote, taken, sleeping, expired, fired>>
        /\ Enqueue(<<"task", cur[2]>>)
        /\ IF call[cur[2]] = "waits" THEN waiting' = waiting \ {cur[2]} ELSE waiting' = waiting
    BY <1>w DEF RunTimeout, wakeVars
  <2> DEFINE t == cur[2]
             e == <<"task", t>>
  <2>4. e \in Entries /\ e[2] = t
    BY <2>2 DEF Entries
  <2>5. /\ InReady(ready', u) = InReady(ready, u) + (IF stopping THEN 0 ELSE InCur(e, u))
        /\ dropped' = IF stopping THEN dropped \cup {t} ELSE dropped
    <3> HIDE DEF e
    <3> QED BY <2>3, <2>4, <1>8, EnqueueCounts DEF e
  <2>6. InCur(e, u) = Holds(t = u) /\ InCur(cur, u) = 0
    <3>1. InCur(<<"timeout", t>>, u) = 0 /\ InCur(e, u) = Holds(t = u)
      BY <2>2, CurCounts
    <3> QED BY <3>1, <2>2
  <2>7. m1 = m /\ k1 = k /\ c1 = 0 /\ c = 0
    BY <2>3, <2>6, <1>9 DEF m, m1, k, k1, c, c1
  <2>8. CASE t = u
    <3>1. Late(u) >= 1
      <4>1. CountIn(ready, <<"timeout", u>>) \in Nat
        BY <1>7, CountNat
      <4>2. cur = <<"timeout", u>>
        BY <2>2, <2>8
      <4> QED BY <4>1, <4>2 DEF Late, Holds
    <3>2. u \in waiting /\ call[u] = "waits"
      BY <3>1, <1>l DEF LimitOK
    <3>3. i = i1 + 1
      <4>1. u \notin waiting' /\ UNCHANGED <<sleeping, expired, fired>>
        BY <2>3, <2>8, <3>2
      <4> QED BY <3>2, <4>1 DEF i, i1, Holds
    <3>4. /\ state' = state
          /\ IF stopping THEN r1 = r /\ u \in dropped' ELSE r1 = r + 1 /\ dropped' = dropped
      BY <2>3, <2>5, <2>6, <2>8, <1>s DEF Holds, r, r1
    <3>5. P1 = (IF stopping THEN P - 1 ELSE P) /\ P >= 1 /\ P \in Nat
      BY <2>7, <3>3, <3>4, <1>s
    <3> QED BY <3>4, <3>5, <1>o DEF Alive
  <2>9. CASE t # u
    <3>1. r1 = r /\ state' = state /\ (u \in dropped' <=> u \in dropped)
      BY <2>3, <2>5, <2>6, <2>9, <1>s DEF Holds, r, r1
    <3>2. i1 = i
      <4>1. (u \in waiting' <=> u \in waiting) /\ UNCHANGED <<sleeping, expired, fired>>
        BY <2>3, <2>9
      <4> QED BY <4>1 DEF i, i1, Holds
    <3> QED BY <2>7, <3>1, <3>2, <1>s, <1>o DEF Alive
  <2> QED BY <2>8, <2>9
<1> USE <1>2, <1>3, <1>4, <1>5 DEF PlaceOK, Alive
<1>11. CASE \/ \E p \in Threads : AcquireWakeLock(p) \/ WritePipe(p) \/ ReleaseWakeLock(p)
            \/ Stop \/ Run
  <2>1. UNCHANGED <<schedVars, remote, sleeping, waiting, expired, fired>>
    BY <1>11 DEF AcquireWakeLock, WritePipe, ReleaseWakeLock, Stop, Run, pollVars, wakeVars
  <2> QED BY <2>1 DEF schedVars
<1>14. ASSUME NEW t \in Tasks, Kill(t) PROVE PlaceOK(u)'
  <2>1. /\ UNCHANGED <<ready, remote, taken, cur, sleeping, waiting, expired, fired, dropped>>
        /\ state[t] # "none" /\ state' = [state EXCEPT ![t] = "Terminal"]
    BY <1>14 DEF Kill, pollVars, wakeVars
  <2> QED BY <2>1, <1>6
<1>15. CASE TaskEnds
  <2>1. cur \in Entries /\ cur[2] \in Tasks /\ InCur(cur, u) = Holds(cur[2] = u)
    <3>1. cur \in Entries /\ cur[1] = "task"
      BY <1>1, <1>15 DEF TaskEnds, Finish, Sleep, WaitEvent, WaitLimited, Requeue, UserCode, TypeInv,
                         RunningIsExec
    <3>2. cur[2] \in Tasks /\ cur = <<"task", cur[2]>>
      BY <3>1, EntryParts
    <3>3. InCur(<<"task", cur[2]>>, u) = Holds(cur[2] = u)
      BY <3>2, CurCounts
    <3> QED BY <3>1, <3>2, <3>3
  <2>2. cur' = NoEntry /\ UNCHANGED <<remote, taken, expired, fired>>
    BY <1>15 DEF TaskEnds, Finish, Sleep, WaitEvent, WaitLimited, Requeue, LeaveTask, pollVars, wakeVars
  <2>3. CASE Finish
    <3>1. UNCHANGED <<ready, sleeping, waiting, dropped>> /\ state' = [state EXCEPT ![cur[2]] = "Terminal"]
      BY <2>3 DEF Finish, LeaveTask, pollVars
    <3> QED BY <2>1, <2>2, <3>1, <1>6, <1>9 DEF Holds
  <2>4. CASE Sleep
    <3>1. /\ UNCHANGED <<ready, waiting>> /\ state' = [state EXCEPT ![cur[2]] = "HoldUp"]
          /\ sleeping' = IF ioStopped THEN sleeping ELSE sleeping \cup {cur[2]}
          /\ dropped' = IF ioStopped THEN dropped \cup {cur[2]} ELSE dropped
      BY <2>4 DEF Sleep, LeaveTask
    <3>2. CASE cur[2] = u
      BY <2>1, <2>2, <3>1, <3>2, <1>6, <1>9 DEF Holds
    <3>3. CASE cur[2] # u
      BY <2>1, <2>2, <3>1, <3>3, <1>6, <1>9 DEF Holds
    <3> QED BY <3>2, <3>3
  <2>5. CASE WaitEvent \/ WaitLimited
    <3>1. /\ UNCHANGED <<ready, sleeping>> /\ state' = [state EXCEPT ![cur[2]] = "HoldUp"]
          /\ waiting' = IF ioStopped THEN waiting ELSE waiting \cup {cur[2]}
          /\ dropped' = IF ioStopped THEN dropped \cup {cur[2]} ELSE dropped
      BY <2>5 DEF WaitEvent, WaitLimited, LeaveTask
    <3>2. CASE cur[2] = u
      BY <2>1, <2>2, <3>1, <3>2, <1>6, <1>9 DEF Holds
    <3>3. CASE cur[2] # u
      BY <2>1, <2>2, <3>1, <3>3, <1>6, <1>9 DEF Holds
    <3> QED BY <3>2, <3>3
  <2>6. CASE Requeue
    BY <1>q, <2>6
  <2> QED BY <1>15, <2>3, <2>4, <2>5, <2>6 DEF TaskEnds
<1>16. CASE RunWake
  <2>1. cur \in Entries /\ cur[2] \in Tasks /\ InCur(cur, u) = Holds(cur[2] = u)
    <3>1. cur \in Entries /\ cur[1] = "wake"
      BY <1>1, <1>16 DEF RunWake, TypeInv, RunningIsExec
    <3>2. cur[2] \in Tasks /\ cur = <<"wake", cur[2]>>
      BY <3>1, EntryParts
    <3>3. InCur(<<"wake", cur[2]>>, u) = Holds(cur[2] = u)
      BY <3>2, CurCounts
    <3> QED BY <3>1, <3>2, <3>3
  <2>2. /\ cur' = NoEntry /\ UNCHANGED <<state, remote, taken, sleeping, waiting, expired, fired>>
        /\ Enqueue(<<"task", cur[2]>>)
    BY <1>16 DEF RunWake, pollVars, wakeVars
  <2>4. /\ InReady(ready', u) = InReady(ready, u) + Holds(~stopping /\ cur[2] = u)
        /\ dropped' = IF stopping THEN dropped \cup {cur[2]} ELSE dropped
    BY <2>1, <2>2, <1>8, EnqueueTask
  <2>5. InCur(cur', u) = 0
    BY <2>2, <1>9
  <2>6. CASE cur[2] = u
    <3>1. InCur(cur, u) = 1 /\ Holds(~stopping /\ cur[2] = u) = IF stopping THEN 0 ELSE 1
      BY <2>1, <2>6 DEF Holds
    <3> QED BY <2>2, <2>4, <2>5, <2>6, <3>1 DEF Holds
  <2>7. CASE cur[2] # u
    <3>1. InCur(cur, u) = 0 /\ Holds(~stopping /\ cur[2] = u) = 0
      BY <2>1, <2>7 DEF Holds
    <3> QED BY <2>2, <2>4, <2>5, <2>7, <3>1
  <2> QED BY <2>6, <2>7
<1>17. CASE TakeRemote
  <2>1. /\ UNCHANGED <<state, ready, cur, dropped, sleeping, waiting, expired, fired>>
        /\ taken = <<>> /\ taken' = remote /\ remote' = <<>>
    BY <1>1, <1>17 DEF TakeRemote, pollVars, PhaseInv
  <2> QED BY <2>1, <1>9
<1>20. CASE LeaveLoop \/ ScheduleDone \/ TimersDone \/ EventsDone \/ DrainEmpty
  <2>1. UNCHANGED <<schedVars, remote, sleeping, waiting, expired, fired>>
    BY <1>20 DEF LeaveLoop, ScheduleDone, TimersDone, EventsDone, DrainEmpty,
                 pollVars, wakeVars
  <2> QED BY <2>1 DEF schedVars
<1>21. CASE StartDrain \/ DrainRead
  <2>1. UNCHANGED <<schedVars, remote, sleeping, waiting, expired, fired>>
    BY <1>21 DEF StartDrain, DrainRead, pollVars, wakeVars
  <2> QED BY <2>1 DEF schedVars
<1>22. CASE EpollReturn
  <2>1. UNCHANGED <<schedVars, remote>> /\ expired = {} /\ fired = {}
    BY <1>1, <1>22 DEF EpollReturn, wakeVars, PhaseInv
  <2>2. PICK T \in SUBSET sleeping, U \in SUBSET limited, F \in SUBSET waiting :
          /\ expired' = T /\ sleeping' = sleeping \ T
          /\ fired' = F /\ waiting' = waiting \ F
    BY <1>22 DEF EpollReturn
  <2> QED BY <2>1, <2>2 DEF schedVars, Holds
<1>23. CASE QueueTimer
  <2>1. UNCHANGED <<state, cur, taken, remote, sleeping, waiting, fired>>
    BY <1>23 DEF QueueTimer, wakeVars
  <2>2. CASE \E t \in expired : expired' = expired \ {t} /\ Enqueue(<<"wake", t>>)
    <3>1. PICK t \in expired : expired' = expired \ {t} /\ Enqueue(<<"wake", t>>)
      BY <2>2
    <3>2. t \in Tasks
      BY <1>8 DEF TypeOK
    <3>4. /\ InReady(ready', u) = InReady(ready, u) + Holds(~stopping /\ t = u)
          /\ dropped' = IF stopping THEN dropped \cup {t} ELSE dropped
      BY <3>1, <3>2, <1>8, EnqueueTask
    <3> QED BY <2>1, <3>1, <3>4 DEF Holds
  <2>3. CASE \E t \in overdue : expired' = expired /\ overdue' = overdue \ {t}
                                 /\ Enqueue(<<"timeout", t>>)
    <3>1. PICK t \in overdue : expired' = expired /\ overdue' = overdue \ {t}
                                 /\ Enqueue(<<"timeout", t>>)
      BY <2>3
    <3>2. t \in Tasks /\ <<"timeout", t>> \in Entries
      BY <1>8 DEF TypeOK, Entries
    <3>3. InCur(<<"timeout", t>>, u) = 0
      BY <3>2, CurCounts
    <3>4. /\ InReady(ready', u) = InReady(ready, u)
          /\ dropped' = dropped \/ dropped' = dropped \cup {t}
      <4> DEFINE e == <<"timeout", t>>
      <4>1. e \in Entries /\ e[2] = t /\ InCur(e, u) = 0 /\ Enqueue(e)
        BY <3>1, <3>2, <3>3
      <4> HIDE DEF e
      <4>2. /\ InReady(ready', u) = InReady(ready, u) + (IF stopping THEN 0 ELSE InCur(e, u))
            /\ dropped' = IF stopping THEN dropped \cup {e[2]} ELSE dropped
        BY <4>1, <1>8, EnqueueCounts
      <4> QED BY <4>1, <4>2
    <3> QED BY <2>1, <3>1, <3>4
  <2> QED BY <1>23, <2>2, <2>3 DEF QueueTimer
<1>24. CASE QueueEvent
  <2>1. UNCHANGED <<state, cur, taken, remote, sleeping, waiting, expired>>
    BY <1>24 DEF QueueEvent, wakeVars
  <2>2. PICK t \in fired :
          /\ fired' = fired \ {t}
          /\ IF stopping THEN ready' = ready /\ dropped' = dropped \cup {t}
             ELSE dropped' = dropped /\ \E es \in Added(t) : ready' = ready \o es
    BY <1>24 DEF QueueEvent
  <2>3. t \in Tasks
    BY <1>8 DEF TypeOK
  <2>4. /\ InReady(ready', u) = InReady(ready, u) + Holds(~stopping /\ t = u)
        /\ dropped' = IF stopping THEN dropped \cup {t} ELSE dropped
    <3>1. CASE stopping
      BY <2>2, <3>1 DEF Holds
    <3>2. CASE ~stopping
      <4>1. PICK es \in Added(t) : ready' = ready \o es
        BY <2>2, <3>2
      <4>2. InReady(ready \o es, u) = InReady(ready, u) + Holds(t = u)
        BY <2>3, <1>e
      <4>3. Holds(~stopping /\ t = u) = Holds(t = u) /\ dropped' = dropped
        BY <2>2, <3>2 DEF Holds
      <4>4. InReady(ready', u) = InReady(ready, u) + Holds(~stopping /\ t = u)
        BY <4>1, <4>2, <4>3, Zenon
      <4> QED BY <3>2, <4>3, <4>4
    <3> QED BY <3>1, <3>2
  <2>5. fired' = fired \ {t}
    BY <2>2
  <2> QED BY <2>1, <2>4, <2>5 DEF Holds
<1>25. CASE UNCHANGED vars
  BY <1>25 DEF vars, schedVars, pollVars, wakeVars
<1> QED
  BY <1>10, <1>11, <1>12, <1>13, <1>14, <1>15, <1>16, <1>17, <1>18, <1>19, <1>20, <1>21,
     <1>22, <1>23, <1>24, <1>25, <1>v, <1>w DEF Next, AddRemoteTask, UserCalls, LoopStep

\* A timeout in the ready list waits for its callback.
LEMMA CountedTimeout ==
  ASSUME TypeOK, NEW u \in Tasks, CountIn(ready, <<"timeout", u>>) >= 1
  PROVE  u \in TimedOut
<1> SUFFICES ASSUME u \notin TimedOut PROVE FALSE
  OBVIOUS
<1>1. {k \in 1..Len(ready) : ready[k] = <<"timeout", u>>} = {}
  BY DEF TimedOut
<1>2. CountIn(ready, <<"timeout", u>>) = 0
  BY <1>1, FS_EmptySet DEF CountIn
<1> QED BY <1>2

\* Each step leaves the timer of a suspension with a time limit, or the timeout
\* made of it, with that suspension.
LEMMA LimitStep ==
  ASSUME PlaceInv, [Next]_vars, NEW u \in Tasks, u \notin raced, u \notin raced'
  PROVE  LimitOK(u)'
<1> DEFINE T == <<"timeout", u>>
           q == CountIn(ready, T)      q1 == CountIn(ready', T)
           o == Holds(u \in overdue)   o1 == Holds(u \in overdue')
           c == Holds(cur = T)         c1 == Holds(cur' = T)
           l == Holds(u \in limited)   l1 == Holds(u \in limited')
<1>1. TypeInv /\ TypeInv' /\ PhaseInv /\ PhaseInv'
  BY TypeStep, PhaseStep DEF PlaceInv
<1>2. TypeOK /\ ready \in Seq(Slots) /\ ready' \in Seq(Slots) /\ cur \in Slots
  BY <1>1 DEF TypeInv, TypeOK, Slots
<1>3. T \in Entries /\ T # NoEntry /\ T[1] = "timeout" /\ T[2] = u
  BY NoEntryAssumption DEF Entries
<1>t. /\ \A t \in Tasks : <<"task", t>> # T /\ <<"wake", t>> # T
      /\ \A t \in Tasks : <<"timeout", t>> = T <=> t = u
  OBVIOUS
<1>4. /\ q \in Nat /\ q1 \in Nat /\ o \in {0, 1} /\ o1 \in {0, 1} /\ c \in {0, 1} /\ c1 \in {0, 1}
      /\ l \in {0, 1} /\ l1 \in {0, 1}
  BY <1>2, CountNat DEF Holds
<1>5. /\ q + o + c + l <= 1
      /\ q + o + c >= 1 => u \in waiting /\ call[u] = "waits"
      /\ l = 1 => call[u] = "waits"
      /\ cur = <<"task", u>> => call[u] = "no"
  <2>1. LimitOK(u)
    BY DEF PlaceInv
  <2> QED BY <2>1 DEF LimitOK, Late, Holds
<1>6. /\ q1 + o1 + c1 + l1 <= 1
      /\ q1 + o1 + c1 >= 1 => u \in waiting' /\ call'[u] = "waits"
      /\ l1 = 1 => call'[u] = "waits"
      /\ cur' = <<"task", u>> => call'[u] = "no"
      => LimitOK(u)'
  BY DEF LimitOK, Late, Holds
<1>7. u \in waiting => InReady(ready, u) = 0 /\ InCur(cur, u) = 0
  <2>1. Places(u) <= 1
    BY DEF PlaceInv, PlaceOK
  <2>2. /\ InReady(ready, u) \in Nat /\ CountIn(remote, u) \in Nat /\ CountIn(taken, u) \in Nat
        /\ InCur(cur, u) \in Nat
    BY <1>2, ReadyCounts, TaskCounts DEF TypeOK, InCur, Holds
  <2>3. /\ Holds(u \in sleeping) \in Nat /\ Holds(u \in expired) \in Nat /\ Holds(u \in fired) \in Nat
        /\ u \in waiting => Holds(u \in waiting) = 1
    BY DEF Holds
  <2>4. Places(u) = InReady(ready, u) + CountIn(remote, u) + CountIn(taken, u)
                      + Holds(u \in sleeping) + Holds(u \in waiting)
                      + Holds(u \in expired) + Holds(u \in fired) + InCur(cur, u)
    BY PlacesSum
  <2> HIDE DEF T, q, q1, o, o1, c, c1, l, l1
  <2>5. ASSUME u \in waiting PROVE InReady(ready, u) + InCur(cur, u) <= 0
    BY <2>1, <2>2, <2>3, <2>4, <2>5
  <2> QED BY <2>2, <2>5
<1>8. call \in [Tasks -> {"no", "waits", "late"}]
  BY <1>2 DEF TypeOK
<1>9. ASSUME NEW e \in Entries, Enqueue(e)
      PROVE  q1 = q + Holds(~stopping /\ e = T)
  BY <1>2, <1>9, EnqueueCounts
<1> HIDE DEF T, q, q1, o, o1, c, c1, l, l1
\* Steps that leave every timer and suspension alone.
<1>10. ASSUME UNCHANGED <<limited, overdue, call>>, waiting \subseteq waiting', q1 = q,
              cur' = cur \/ (cur' = NoEntry /\ c = 0)
       PROVE  LimitOK(u)'
  <2>1. o1 = o /\ l1 = l
    BY <1>10 DEF o, o1, l, l1
  <2>2. c1 = c /\ (cur' = <<"task", u>> => cur = <<"task", u>>)
    <3>1. CASE cur' = cur
      BY <3>1 DEF c, c1
    <3>2. CASE cur' = NoEntry /\ c = 0
      <4>1. <<"task", u>> # NoEntry
        BY NoEntryAssumption DEF Entries
      <4>2. c1 = 0
        BY <3>2, <1>3 DEF c1, Holds
      <4> QED BY <3>2, <4>1, <4>2
    <3> QED BY <1>10, <3>1, <3>2
  <2> QED BY <1>10, <2>1, <2>2, <1>5, <1>6
<1>11. ASSUME \E p \in Threads : AddRemoteTask(p) PROVE LimitOK(u)'
  <2>1. UNCHANGED <<limited, overdue, call, waiting, ready, cur>>
    BY <1>11 DEF AddRemoteTask, InsertFront, AcquireWakeLock, WritePipe, ReleaseWakeLock,
                 schedVars, pollVars, ioVars
  <2> QED BY <2>1, <1>10 DEF q, q1
<1>12. ASSUME UserCalls PROVE LimitOK(u)'
  <2>1. UNCHANGED <<limited, overdue, call, waiting, cur>>
    BY <1>12 DEF UserCalls, AddExecutor, RemoveExecutor, Kill, Stop, Run, schedVars, pollVars, ioVars
  <2>2. q1 = q
    <3>1. ASSUME NEW t \in Tasks, AddExecutor(t) PROVE q1 = q
      <4>1. Enqueue(<<"task", t>>) /\ <<"task", t>> \in Entries
        BY <3>1 DEF AddExecutor, Entries
      <4>2. Holds(~stopping /\ <<"task", t>> = T) = 0
        BY <1>t DEF Holds
      <4>3. q1 = q + Holds(~stopping /\ <<"task", t>> = T)
        BY <4>1, <1>9
      <4> QED BY <4>2, <4>3, <1>4
    <3>2. ASSUME NEW t \in Tasks, RemoveExecutor(t) PROVE q1 = q
      <4>1. PICK n \in 1..Len(ready) :
              /\ ready[n] = <<"task", t>>
              /\ ready' = SubSeq(ready, 1, n - 1) \o SubSeq(ready, n + 1, Len(ready))
        BY <3>2 DEF RemoveExecutor
      <4>2. CountIn(ready, T) = CountIn(SubSeq(ready, 1, n - 1) \o SubSeq(ready, n + 1, Len(ready)), T)
                                  + Holds(ready[n] = T)
        BY <1>2, CountErase
      <4>3. Holds(ready[n] = T) = 0
        BY <4>1, <1>t DEF Holds
      <4>4. q = q1 + Holds(ready[n] = T)
        BY <4>1, <4>2, Zenon DEF q, q1
      <4> QED BY <4>3, <4>4, <1>4
    <3>3. CASE (\E t \in Tasks : Kill(t)) \/ Stop \/ Run
      BY <3>3 DEF Kill, Stop, Run, schedVars, q, q1
    <3> QED BY <1>12, <3>1, <3>2, <3>3 DEF UserCalls
  <2> QED BY <2>1, <2>2, <1>10
<1>13. ASSUME Finish \/ Sleep \/ WaitEvent \/ Requeue PROVE LimitOK(u)'
  <2>1. /\ UNCHANGED <<limited, overdue, call>> /\ waiting \subseteq waiting' /\ cur' = NoEntry
    BY <1>13 DEF Finish, Sleep, WaitEvent, Requeue, LeaveTask, pollVars, ioVars
  <2>2. cur \in Entries /\ cur[1] = "task"
    BY <1>1, <1>13 DEF Finish, Sleep, WaitEvent, Requeue, UserCode, TypeInv, RunningIsExec
  <2>3. c = 0 /\ Holds(~stopping /\ cur = T) = 0
    BY <2>2, <1>3 DEF c, Holds
  <2>4. q1 = q
    <3>1. CASE Requeue
      <4>1. q1 = q + Holds(~stopping /\ cur = T)
        BY <3>1, <2>2, <1>9 DEF Requeue
      <4> QED BY <4>1, <2>3, <1>4
    <3>2. CASE ~Requeue
      BY <1>13, <3>2 DEF Finish, Sleep, WaitEvent, q, q1
    <3> QED BY <3>1, <3>2
  <2> QED BY <2>1, <2>3, <2>4, <1>10
<1>14. ASSUME WaitLimited PROVE LimitOK(u)'
  <2>1. cur \in Entries /\ cur[1] = "task"
    BY <1>1, <1>14 DEF WaitLimited, UserCode, TypeInv, RunningIsExec
  <2>2. cur[2] \in Tasks /\ cur = <<"task", cur[2]>>
    BY <2>1, EntryParts
  <2>3. /\ cur' = NoEntry /\ UNCHANGED <<ready, overdue>> /\ waiting \subseteq waiting'
        /\ limited' = limited \/ limited' = limited \cup {cur[2]}
        /\ call' = [call EXCEPT ![cur[2]] = "waits"]
    BY <1>14 DEF WaitLimited, LeaveTask
  <2>4. q1 = q /\ o1 = o /\ c1 = 0 /\ c = 0
    BY <2>1, <2>3, <1>3 DEF q, q1, o, o1, c, c1, Holds
  <2>5. <<"task", u>> # NoEntry
    BY NoEntryAssumption DEF Entries
  <2>6. CASE cur[2] = u
    <3>1. call[u] = "no" /\ cur = <<"task", u>>
      BY <2>2, <2>6, <1>5
    <3>2. InCur(cur, u) = 1
      BY <3>1 DEF InCur, Holds
    <3>3. u \notin waiting
      BY <3>2, <1>7
    <3>4. q = 0 /\ o = 0
      BY <3>3, <1>4, <1>5
    <3>5. call'[u] = "waits"
      BY <2>3, <2>6, <1>8
    <3> QED BY <2>3, <2>4, <2>5, <3>4, <3>5, <1>4, <1>6
  <2>7. CASE cur[2] # u
    <3>1. call'[u] = call[u] /\ l1 = l
      BY <2>2, <2>3, <2>7, <1>8 DEF l, l1, Holds
    <3> QED BY <2>3, <2>4, <2>5, <3>1, <1>4, <1>5, <1>6
  <2> QED BY <2>6, <2>7
<1>15. ASSUME RunWake PROVE LimitOK(u)'
  <2>1. cur \in Entries /\ cur[1] = "wake"
    BY <1>1, <1>15 DEF RunWake, TypeInv, RunningIsExec
  <2>2. cur[2] \in Tasks
    BY <2>1, EntryParts
  <2>3. /\ UNCHANGED <<limited, overdue, call, waiting>> /\ cur' = NoEntry
        /\ Enqueue(<<"task", cur[2]>>)
    BY <1>15 DEF RunWake, pollVars, ioVars
  <2>4. c = 0 /\ Holds(~stopping /\ <<"task", cur[2]>> = T) = 0
    BY <2>1, <2>2, <1>3, <1>t DEF c, Holds
  <2>5. <<"task", cur[2]>> \in Entries
    BY <2>2 DEF Entries
  <2>6. q1 = q + Holds(~stopping /\ <<"task", cur[2]>> = T)
    BY <2>3, <2>5, <1>9
  <2>7. q1 = q
    BY <2>4, <2>6, <1>4
  <2> QED BY <2>3, <2>4, <2>7, <1>10
<1>16. ASSUME RunTimeout PROVE LimitOK(u)'
  <2>1. cur \in Entries /\ cur[1] = "timeout"
    BY <1>1, <1>16 DEF RunTimeout, TypeInv, RunningIsExec
  <2>2. cur[2] \in Tasks /\ cur = <<"timeout", cur[2]>>
    BY <2>1, EntryParts
  <2>3. /\ cur' = NoEntry /\ UNCHANGED <<limited, overdue>>
        /\ Enqueue(<<"task", cur[2]>>)
        /\ \/ waiting' = waiting \ {cur[2]} /\ call' = [call EXCEPT ![cur[2]] = "late"]
           \/ UNCHANGED <<waiting, call>>
    BY <1>16 DEF RunTimeout
  <2>4. <<"task", cur[2]>> \in Entries /\ Holds(~stopping /\ <<"task", cur[2]>> = T) = 0
    BY <2>2, <1>t DEF Entries, Holds
  <2>5. q1 = q + Holds(~stopping /\ <<"task", cur[2]>> = T)
    BY <2>3, <2>4, <1>9
  <2>6. q1 = q /\ o1 = o /\ l1 = l /\ c1 = 0 /\ cur' # <<"task", u>>
    <3>1. <<"task", u>> # NoEntry
      BY NoEntryAssumption DEF Entries
    <3> QED BY <2>3, <2>4, <2>5, <3>1, <1>3, <1>4 DEF o, o1, l, l1, c1, Holds
  <2>7. CASE cur[2] = u
    <3>1. c = 1
      BY <2>2, <2>7, <1>t DEF c, Holds
    <3> QED BY <2>6, <3>1, <1>4, <1>5, <1>6
  <2>8. CASE cur[2] # u
    <3>1. c = 0 /\ call'[u] = call[u] /\ (u \in waiting => u \in waiting')
      BY <2>2, <2>3, <2>8, <1>t, <1>8 DEF c, Holds
    <3> QED BY <2>6, <3>1, <1>4, <1>5, <1>6
  <2> QED BY <2>7, <2>8
<1>17. ASSUME TakeRemote \/ LeaveLoop \/ ScheduleDone \/ TimersDone \/ StartDrain \/ EventsDone
                \/ DrainRead \/ DrainEmpty
       PROVE  LimitOK(u)'
  <2>1. UNCHANGED <<limited, overdue, call, waiting, ready, cur>>
    BY <1>17 DEF TakeRemote, LeaveLoop, ScheduleDone, TimersDone, StartDrain, EventsDone, DrainRead,
                 DrainEmpty, schedVars, pollVars, ioVars
  <2> QED BY <2>1, <1>10 DEF q, q1
<1>18. ASSUME ScheduleOne PROVE LimitOK(u)'
  <2>1. /\ UNCHANGED <<limited, overdue, call, waiting, cur>> /\ taken # <<>>
        /\ Enqueue(<<"task", Head(taken)>>)
    BY <1>18 DEF ScheduleOne, pollVars, ioVars
  <2>2. Head(taken) \in Tasks
    BY <2>1, <1>2 DEF TypeOK
  <2>3. <<"task", Head(taken)>> \in Entries /\ Holds(~stopping /\ <<"task", Head(taken)>> = T) = 0
    BY <2>2, <1>t DEF Entries, Holds
  <2>4. q1 = q + Holds(~stopping /\ <<"task", Head(taken)>> = T)
    BY <2>1, <2>3, <1>9
  <2>5. q1 = q
    BY <2>3, <2>4, <1>4
  <2> QED BY <2>1, <2>5, <1>10
<1>19. ASSUME PopAndExec PROVE LimitOK(u)'
  <2> DEFINE e == Head(ready)
  <2>1. /\ UNCHANGED <<waiting, overdue>> /\ ready # <<>> /\ ready' = Tail(ready)
        /\ cur = NoEntry /\ e # NoEntry
    BY <1>1, <1>19 DEF PopAndExec, PhaseInv
  <2>2. e \in Slots /\ q = q1 + Holds(e = T) /\ InReady(ready, u) = InReady(Tail(ready), u) + InCur(e, u)
    BY <2>1, <1>2, CountTail, ReadyCounts DEF q, q1
  <2>3. \/ UNCHANGED <<cur, call, limited>> /\ e[1] = "task"
        \/ cur' = e /\ e[1] # "task" /\ UNCHANGED <<call, limited>>
        \/ /\ cur' = e /\ e[1] = "task" /\ call' = [call EXCEPT ![e[2]] = "no"]
           /\ limited' = IF call[e[2]] = "waits" THEN limited \ {e[2]} ELSE limited
    BY <1>19 DEF PopAndExec, Skipped, ResumeTask
  <2>4. InReady(Tail(ready), u) \in Nat
    BY <2>1, <1>2, ReadyCounts
  <2> HIDE DEF e
  <2>5. e \in Entries /\ e[2] \in Tasks /\ e = <<e[1], e[2]>>
    BY <2>1, <2>2, EntryParts DEF Slots
  <2>6. o1 = o /\ c = 0
    BY <2>1, <1>3 DEF o, o1, c, Holds
  <2>7. CASE UNCHANGED <<cur, call, limited>> /\ e[1] = "task"
    <3>1. Holds(e = T) = 0
      BY <2>7, <1>3 DEF Holds
    <3>2. q1 = q
      BY <2>2, <3>1, <1>4
    <3> QED BY <2>1, <2>7, <3>2, <1>10
  <2>8. CASE cur' = e /\ e[1] # "task" /\ UNCHANGED <<call, limited>>
    <3>1. l1 = l /\ c1 = Holds(e = T) /\ cur' # <<"task", u>>
      BY <2>8 DEF l, l1, c1
    <3>2. q1 + o1 + c1 + l1 = q + o + c + l /\ q1 + o1 + c1 = q + o + c
      BY <2>2, <2>6, <3>1, <1>4
    <3> QED BY <2>1, <2>8, <3>1, <3>2, <1>5, <1>6
  <2>9. CASE /\ cur' = e /\ e[1] = "task" /\ call' = [call EXCEPT ![e[2]] = "no"]
             /\ limited' = IF call[e[2]] = "waits" THEN limited \ {e[2]} ELSE limited
    <3>1. Holds(e = T) = 0
      BY <2>9, <1>3 DEF Holds
    <3>2. q1 = q /\ c1 = 0
      BY <2>2, <2>9, <3>1, <1>4 DEF c1
    <3>3. CASE e[2] = u
      <4>1. InCur(e, u) = 1
        BY <2>5, <2>9, <3>3 DEF InCur, Holds
      <4>2. u \notin waiting
        BY <4>1, <2>2, <2>4, <1>7
      <4>3. q = 0 /\ o = 0
        BY <4>2, <1>4, <1>5
      <4>4. l1 = 0 /\ call'[u] = "no"
        <5>1. u \in limited => call[u] = "waits"
          BY <1>5 DEF l, Holds
        <5> QED BY <5>1, <2>9, <3>3, <1>8 DEF l1, Holds
      <4> QED BY <2>6, <3>2, <4>3, <4>4, <1>6
    <3>4. CASE e[2] # u
      <4>1. l1 = l /\ call'[u] = call[u] /\ cur' # <<"task", u>>
        BY <2>5, <2>9, <3>4, <1>8 DEF l, l1, Holds
      <4> QED BY <2>1, <2>6, <3>2, <4>1, <1>5, <1>6
    <3> QED BY <3>3, <3>4
  <2> QED BY <2>3, <2>7, <2>8, <2>9
<1>20. ASSUME PopEmpty PROVE LimitOK(u)'
  <2>1. UNCHANGED <<limited, overdue, call, waiting, cur>>
    BY <1>20 DEF PopEmpty, pollVars, ioVars
  <2>2. q1 = q
    <3>1. CASE ready = <<>>
      BY <1>20, <3>1 DEF PopEmpty, q, q1
    <3>2. CASE ready # <<>>
      <4>1. Head(ready) = NoEntry /\ ready' = Tail(ready)
        BY <1>20, <3>2 DEF PopEmpty
      <4>2. CountIn(ready, T) = CountIn(Tail(ready), T) + Holds(NoEntry = T)
        BY <3>2, <4>1, <1>2, CountTail
      <4>3. q = q1 + Holds(NoEntry = T) /\ Holds(NoEntry = T) = 0
        BY <4>1, <4>2, <1>3 DEF q, q1, Holds
      <4> QED BY <4>3, <1>4
    <3> QED BY <3>1, <3>2
  <2> QED BY <2>1, <2>2, <1>10
<1>21. ASSUME EpollReturn PROVE LimitOK(u)'
  <2>1. UNCHANGED <<ready, cur, call>> /\ cur = NoEntry
    BY <1>1, <1>21 DEF EpollReturn, schedVars, PhaseInv
  <2>2. PICK U \in SUBSET limited : overdue' = U /\ limited' = limited \ U
    BY <1>21 DEF EpollReturn
  <2>3. u \in TimedOut \cup overdue' => u \in waiting'
    BY <1>21 DEF EpollReturn
  <2>4. q1 = q /\ c1 = 0 /\ c = 0 /\ cur' # <<"task", u>>
    <3>1. <<"task", u>> # NoEntry
      BY NoEntryAssumption DEF Entries
    <3> QED BY <2>1, <3>1, <1>3 DEF q, q1, c, c1, Holds
  <2>5. CASE u \in U
    <3>1. l = 1 /\ l1 = 0 /\ o1 = 1 /\ u \in waiting'
      BY <2>2, <2>3, <2>5 DEF l, l1, o1, Holds
    <3> QED BY <2>1, <2>4, <3>1, <1>4, <1>5, <1>6
  <2>6. CASE u \notin U
    <3>1. l1 = l /\ o1 = 0
      BY <2>2, <2>6 DEF l, l1, o1, Holds
    <3>2. q >= 1 => u \in waiting'
      BY <2>3, <1>2, CountedTimeout DEF q, T
    <3> QED BY <2>1, <2>4, <3>1, <3>2, <1>4, <1>5, <1>6
  <2> QED BY <2>5, <2>6
<1>22. ASSUME QueueTimer PROVE LimitOK(u)'
  <2>1. UNCHANGED <<limited, call, waiting, cur>>
    BY <1>22 DEF QueueTimer
  <2>2. l1 = l /\ c1 = c
    BY <2>1 DEF l, l1, c, c1
  <2>3. CASE \E t \in expired : overdue' = overdue /\ Enqueue(<<"wake", t>>)
    <3>1. PICK t \in expired : overdue' = overdue /\ Enqueue(<<"wake", t>>)
      BY <2>3
    <3>2. t \in Tasks /\ <<"wake", t>> \in Entries /\ Holds(~stopping /\ <<"wake", t>> = T) = 0
      BY <1>2, <1>t DEF TypeOK, Entries, Holds
    <3>3. q1 = q + Holds(~stopping /\ <<"wake", t>> = T)
      BY <3>1, <3>2, <1>9
    <3>4. q1 = q
      BY <3>2, <3>3, <1>4
    <3> QED BY <2>1, <3>1, <3>4, <1>10
  <2>4. CASE \E t \in overdue : overdue' = overdue \ {t} /\ Enqueue(<<"timeout", t>>)
    <3>1. PICK t \in overdue : overdue' = overdue \ {t} /\ Enqueue(<<"timeout", t>>)
      BY <2>4
    <3>2. t \in Tasks /\ <<"timeout", t>> \in Entries
      BY <1>2 DEF TypeOK, Entries
    <3>3. q1 = q + Holds(~stopping /\ <<"timeout", t>> = T)
      BY <3>1, <3>2, <1>9
    <3>4. CASE t = u
      <4>1. o = 1 /\ o1 = 0 /\ Holds(~stopping /\ <<"timeout", t>> = T) \in {0, 1}
        BY <3>1, <3>4 DEF o, o1, Holds
      <4> QED BY <2>1, <2>2, <3>3, <4>1, <1>4, <1>5, <1>6
    <3>5. CASE t # u
      <4>1. o1 = o /\ Holds(~stopping /\ <<"timeout", t>> = T) = 0
        BY <3>1, <3>2, <3>5, <1>t DEF o, o1, Holds
      <4> QED BY <2>1, <2>2, <3>3, <4>1, <1>4, <1>5, <1>6
    <3> QED BY <3>4, <3>5
  <2> QED BY <1>22, <2>3, <2>4 DEF QueueTimer
<1>23. ASSUME QueueEvent PROVE LimitOK(u)'
  <2>1. UNCHANGED <<limited, overdue, call, waiting, cur>>
    BY <1>23 DEF QueueEvent, ioVars
  <2>2. q1 = q
    <3>1. PICK t \in fired : ready' = ready \/ \E es \in Added(t) : ready' = ready \o es
      BY <1>23 DEF QueueEvent
    <3>2. t \in Tasks
      BY <1>2 DEF TypeOK
    <3>3. ASSUME NEW es \in Added(t), ready' = ready \o es PROVE q1 = q
      <4>1. CountIn(ready \o es, <<"timeout", u>>) = CountIn(ready, <<"timeout", u>>)
        BY <3>2, <1>2, AddedCounts
      <4> QED BY <3>3, <4>1 DEF q, q1, T
    <3> QED BY <3>1, <3>3 DEF q, q1
  <2> QED BY <2>1, <2>2, <1>10
<1>24. CASE UNCHANGED vars
  <2>1. UNCHANGED <<limited, overdue, call, waiting, ready, cur>>
    BY <1>24 DEF vars, schedVars, pollVars, ioVars
  <2> QED BY <2>1, <1>10 DEF q, q1
<1> QED
  BY <1>11, <1>12, <1>13, <1>14, <1>15, <1>16, <1>17, <1>18, <1>19, <1>20, <1>21, <1>22, <1>23, <1>24
     DEF Next, TaskEnds, LoopStep

\* A task that met its timeout and its event together stays marked.
LEMMA RacedGrows == [Next]_vars => raced \subseteq raced'
<1> SUFFICES ASSUME [Next]_vars PROVE raced \subseteq raced'
  OBVIOUS
<1>1. CASE \E p \in Threads : AddRemoteTask(p)
  BY <1>1 DEF AddRemoteTask, InsertFront, AcquireWakeLock, WritePipe, ReleaseWakeLock, pollVars, ioVars
<1>2. CASE UserCalls \/ TaskEnds
  BY <1>2 DEF UserCalls, AddExecutor, RemoveExecutor, Kill, Stop, Run, TaskEnds, Finish, Sleep,
              WaitEvent, WaitLimited, Requeue, pollVars, ioVars
<1>3. CASE LoopStep
  BY <1>3 DEF LoopStep, RunWake, RunTimeout, TakeRemote, LeaveLoop, ScheduleOne, ScheduleDone,
              PopAndExec, PopEmpty, EpollReturn, QueueTimer, TimersDone, QueueEvent, StartDrain,
              EventsDone, DrainRead, DrainEmpty, pollVars, ioVars
<1>4. CASE UNCHANGED vars
  BY <1>4 DEF vars, pollVars, ioVars
<1> QED BY <1>1, <1>2, <1>3, <1>4 DEF Next

LEMMA PlaceStep == PlaceInv /\ [Next]_vars => PlaceInv'
<1> SUFFICES ASSUME PlaceInv, [Next]_vars PROVE PlaceInv'
  OBVIOUS
<1>1. TypeInv' /\ PhaseInv'
  BY TypeStep, PhaseStep DEF PlaceInv
<1>2. ASSUME NEW u \in Tasks, u \notin raced' PROVE PlaceOK(u)' /\ LimitOK(u)'
  <2>1. u \notin raced
    BY <1>2, RacedGrows
  <2> QED BY <1>2, <2>1, ReferenceStep, LimitStep
<1> QED BY <1>1, <1>2 DEF PlaceInv

\* At the start no executor exists and nothing refers to one.
LEMMA PlaceInit == Init => PlaceInv
<1> SUFFICES ASSUME Init PROVE PlaceInv
  OBVIOUS
<1>1. TypeInv
  BY TypeInit
<1>2. PhaseInv
  BY DEF Init, PhaseInv
<1>3. ASSUME NEW t \in Tasks PROVE PlaceOK(t) /\ LimitOK(t)
  <2>1. /\ ready = <<>> /\ remote = <<>> /\ taken = <<>> /\ cur = NoEntry
        /\ sleeping = {} /\ waiting = {} /\ expired = {} /\ fired = {}
        /\ limited = {} /\ overdue = {} /\ state[t] = "none"
    BY DEF Init
  <2>2. <<>> \in Seq(Slots)
    OBVIOUS
  <2>3. InReady(<<>>, t) = 0 /\ CountIn(<<>>, t) = 0 /\ InCur(NoEntry, t) = 0
    BY <2>2, ReadyCounts, CountSmall, CurCounts
  <2>4. Places(t) = 0
    BY <2>1, <2>3, PlacesSum DEF Holds
  <2>5. CountIn(<<>>, <<"timeout", t>>) = 0
    BY CountSmall, Zenon
  <2>6. NoEntry # <<"timeout", t>> /\ NoEntry # <<"task", t>>
    BY NoEntryAssumption DEF Entries
  <2>7. Late(t) = 0
    BY <2>1, <2>5, <2>6 DEF Late, Holds
  <2> QED BY <2>1, <2>4, <2>6, <2>7 DEF PlaceOK, LimitOK, Alive, Holds
<1> QED BY <1>1, <1>2, <1>3 DEF PlaceInv

\* No executor is lost or referenced twice, whatever the number of tasks and
\* producers, in every interleaving of addRemoteTask with the loop and with
\* stop() from any thread, hang-ups that queue null executors and I/O timeouts;
\* except a task for which a timeout and its event met in one suspension.
THEOREM OneReference == Spec => []ExactlyOnePlace
<1>1. PlaceInv => ExactlyOnePlace
  BY DEF PlaceInv, PlaceOK, Alive, ExactlyOnePlace
<1> QED BY PlaceInit, PlaceStep, <1>1, PTL DEF Spec

=============================================================================
