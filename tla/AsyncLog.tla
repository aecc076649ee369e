------------------------------- MODULE AsyncLog -------------------------------
(***************************************************************************)
(* AsyncFileLogFlusher with the WritableFile it writes to.  Threads that   *)
(* log push records to log_pool_ under mutex_ and signal; the flusher's    *)
(* thread waits for the signal, and appends the pool's records to the file *)
(* while it holds the mutex; the destructor sets stop_, signals, joins the *)
(* thread and closes the file.  AsyncStdoutLogFlusher runs the same thread *)
(* with std::cout in the place of the file.                                *)
(*                                                                         *)
(* A record is the sequence of its bytes, so that one cut in two by the    *)
(* end of the file's buffer can be followed to the disk.                   *)
(***************************************************************************)
EXTENDS Naturals, Sequences, FiniteSets, SequencesExt

CONSTANTS
  Loggers,     \* threads that call flush()
  Sizes,       \* sizes of the records they log
  BufSize,     \* G_FileBufferSize
  MaxRecords   \* bound: records logged in all

ASSUME LogAssumption ==
  BufSize \in Nat \ {0} /\ MaxRecords \in Nat /\ Sizes \subseteq Nat

VARIABLES
  pool,    \* log_pool_
  pushed,  \* history: the records flush() was called with, in order
  stop,    \* stop_
  lpc,     \* where each logging thread is in flush()
  tpc,     \* where the flusher's thread is
  dpc,     \* where the destructor is
  buf,     \* the first pos_ bytes of WritableFile::buf_
  rest,    \* append(): what is left of the record
  out,     \* write(): the bytes still to be written
  wpc,     \* where append() or closeFile() is
  disk,    \* the contents of the file
  failed   \* history: a ::write has failed

queueVars == <<pool, pushed, stop, lpc>>
fileVars  == <<buf, rest, out, wpc, disk, failed>>
vars == <<queueVars, tpc, dpc, fileVars>>

Record(n, size) == [i \in 1..size |-> <<n, i>>]

Init ==
  /\ pool = <<>> /\ pushed = <<>> /\ stop = FALSE
  /\ lpc = [p \in Loggers |-> "idle"]
  /\ tpc = "check" /\ dpc = "alive"
  /\ buf = <<>> /\ rest = <<>> /\ out = <<>> /\ wpc = "idle" /\ disk = <<>>
  /\ failed = FALSE

\* mutex_ is held across steps only by doFlush.
MutexFree == tpc \notin {"drain", "append"}

-----------------------------------------------------------------------------
(* The logging threads: AsyncFlusher::flush.                               *)

\* The push under the lock.  No thread logs to a flusher being destroyed.
Push(p) ==
  /\ lpc[p] = "idle" /\ MutexFree /\ dpc = "alive" /\ Len(pushed) < MaxRecords
  /\ \E size \in Sizes :
       LET r == Record(Len(pushed), size) IN
       pool' = Append(pool, r) /\ pushed' = Append(pushed, r)
  /\ lpc' = [lpc EXCEPT ![p] = "notify"]
  /\ UNCHANGED <<stop, tpc, dpc, fileVars>>

\* notify_one, after the unlock: it reaches the thread only if that waits.
Notified == tpc' = IF tpc = "waiting" THEN "woken" ELSE tpc

NotifyOne(p) ==
  /\ lpc[p] = "notify"
  /\ lpc' = [lpc EXCEPT ![p] = "idle"]
  /\ Notified
  /\ UNCHANGED <<pool, pushed, stop, dpc, fileVars>>

-----------------------------------------------------------------------------
(* The flusher's thread.                                                   *)

CheckStop == \* while (!stop_)
  /\ tpc = "check"
  /\ tpc' = IF stop THEN "ended" ELSE "lock"
  /\ UNCHANGED <<queueVars, dpc, fileVars>>

Wait == \* lock, then condition_var_.wait, which releases it
  /\ tpc = "lock"
  /\ tpc' = "waiting"
  /\ UNCHANGED <<queueVars, dpc, fileVars>>

SpuriousWakeup ==
  /\ tpc = "waiting"
  /\ tpc' = "woken"
  /\ UNCHANGED <<queueVars, dpc, fileVars>>

DoFlush == \* the wait returns and unlocks; doFlush locks again
  /\ tpc = "woken"
  /\ tpc' = "drain"
  /\ UNCHANGED <<queueVars, dpc, fileVars>>

\* Mutant: doFlush may leave before the pool is empty.
DrainDoneEarly ==
  /\ tpc = "drain"
  /\ tpc' = "check"
  /\ UNCHANGED <<queueVars, dpc, fileVars>>

DrainDone == \* log_pool_.empty()
  /\ tpc = "drain" /\ pool = <<>>
  /\ tpc' = "check"
  /\ UNCHANGED <<queueVars, dpc, fileVars>>

\* Mutant: the record is popped before the rest of it is written.
FillDropsRest ==
  /\ tpc = "drain" /\ pool # <<>>
  /\ LET r == Head(pool)
         room == BufSize - Len(buf)
         n == IF Len(r) < room THEN Len(r) ELSE room
     IN buf' = buf \o SubSeq(r, 1, n)
  /\ pool' = Tail(pool)
  /\ UNCHANGED <<pushed, stop, lpc, tpc, dpc, rest, out, wpc, disk, failed>>

\* append(log_pool_.front()): fill the buffer; if the record does not fit,
\* flushBuffer.  The record leaves the pool when append has returned.
Fill ==
  /\ tpc = "drain" /\ pool # <<>>
  /\ LET r == Head(pool)
         room == BufSize - Len(buf)
         n == IF Len(r) < room THEN Len(r) ELSE room
         full == buf \o SubSeq(r, 1, n)
     IN IF n = Len(r)
        THEN /\ buf' = full /\ pool' = Tail(pool)
             /\ UNCHANGED <<tpc, rest, out, wpc>>
        ELSE /\ rest' = SubSeq(r, n + 1, Len(r))
             /\ out' = full /\ buf' = <<>>
             /\ wpc' = "flush" /\ tpc' = "append"
             /\ UNCHANGED pool
  /\ UNCHANGED <<pushed, stop, lpc, dpc, disk, failed>>

AppendReturns == rest' = <<>> /\ wpc' = "idle" /\ tpc' = "drain" /\ pool' = Tail(pool)

Flushed == \* a small rest goes to the buffer, a large one is written directly
  /\ wpc = "flush" /\ out = <<>>
  /\ IF Len(rest) < BufSize
     THEN AppendReturns /\ buf' = rest /\ UNCHANGED out
     ELSE /\ out' = rest /\ rest' = <<>> /\ wpc' = "direct"
          /\ UNCHANGED <<pool, tpc, buf>>
  /\ UNCHANGED <<pushed, stop, lpc, dpc, disk, failed>>

DirectDone ==
  /\ wpc = "direct" /\ out = <<>>
  /\ AppendReturns
  /\ UNCHANGED <<pushed, stop, lpc, dpc, buf, out, disk, failed>>

-----------------------------------------------------------------------------
(* WritableFile::write, one ::write at a time, which may write any part.   *)

WriteSome ==
  /\ out # <<>>
  /\ \E n \in 1..Len(out) :
       disk' = disk \o SubSeq(out, 1, n) /\ out' = SubSeq(out, n + 1, Len(out))
  /\ UNCHANGED <<queueVars, tpc, dpc, buf, rest, wpc, failed>>

\* An error other than EINTR.  It ends append() at once; doFlush does not look at its result.
WriteFails ==
  /\ out # <<>>
  /\ out' = <<>> /\ failed' = TRUE
  /\ IF wpc = "close" THEN UNCHANGED <<rest, wpc, tpc, pool>> ELSE AppendReturns
  /\ UNCHANGED <<pushed, stop, lpc, dpc, buf, disk>>

-----------------------------------------------------------------------------
(* The destructors, run once nobody logs any more.                         *)

SetStop ==
  /\ dpc = "alive" /\ MutexFree /\ \A p \in Loggers : lpc[p] = "idle"
  /\ stop' = TRUE /\ dpc' = "notify"
  /\ UNCHANGED <<pool, pushed, lpc, tpc, fileVars>>

\* Mutant: the destructor does not signal.
NotifyStopSilent ==
  /\ dpc = "notify"
  /\ dpc' = "join"
  /\ UNCHANGED <<queueVars, tpc, fileVars>>

NotifyStop ==
  /\ dpc = "notify"
  /\ Notified /\ dpc' = "join"
  /\ UNCHANGED <<queueVars, fileVars>>

Join == \* thread_.join(), then ~WritableFile: closeFile calls flushBuffer
  /\ dpc = "join" /\ tpc = "ended"
  /\ dpc' = "close" /\ wpc' = "close"
  /\ out' = buf /\ buf' = <<>>
  /\ UNCHANGED <<queueVars, tpc, rest, disk, failed>>

CloseFd ==
  /\ dpc = "close" /\ out = <<>>
  /\ dpc' = "closed" /\ wpc' = "idle"
  /\ UNCHANGED <<queueVars, tpc, buf, rest, out, disk, failed>>

-----------------------------------------------------------------------------
ThreadStep == CheckStop \/ Wait \/ DoFlush \/ DrainDone \/ Fill \/ Flushed \/ DirectDone
FileStep == WriteSome \/ WriteFails
DestroyStep == NotifyStop \/ Join \/ CloseFd

Next ==
  \/ \E p \in Loggers : Push(p) \/ NotifyOne(p)
  \/ ThreadStep \/ SpuriousWakeup \/ FileStep \/ SetStop \/ DestroyStep

Spec == Init /\ [][Next]_vars

\* Every thread that can run does; the system calls return.
FairSpec ==
  /\ Spec
  /\ WF_vars(ThreadStep) /\ WF_vars(FileStep) /\ WF_vars(DestroyStep)
  /\ \A p \in Loggers : WF_vars(NotifyOne(p))

-----------------------------------------------------------------------------
(* Properties.                                                             *)

\* Every variable keeps its type.
TypeOK ==
  /\ stop \in BOOLEAN /\ lpc \in [Loggers -> {"idle", "notify"}]
  /\ tpc \in {"check", "lock", "waiting", "woken", "drain", "append", "ended"}
  /\ dpc \in {"alive", "notify", "join", "close", "closed"}
  /\ wpc \in {"idle", "flush", "direct", "close"}

\* Records of the pool that append() has not begun.
Untouched == IF tpc = "append" THEN Tail(pool) ELSE pool

\* Until a write fails, the bytes on the disk, those on their way to it and
\* those in the pool are the bytes that were logged, in the order of the
\* pushes: nothing is lost where a record is cut by the end of the buffer or
\* by a short write.  Even when writes fail, no byte reaches the disk twice or
\* out of order; and append never runs past the end of the buffer.
InOrder ==
  /\ ~failed => disk \o out \o buf \o rest \o FlattenSeq(Untouched) = FlattenSeq(pushed)
  /\ \A i, j \in 1..Len(disk) :
       i < j => \/ disk[i][1] < disk[j][1]
                \/ disk[i][1] = disk[j][1] /\ disk[i][2] < disk[j][2]
  /\ Len(buf) <= BufSize

\* A signal that finds the thread waiting, a spurious one included, empties
\* the pool.
SignalDrains == (tpc = "woken") ~> (pool = <<>>)

\* The destructor returns, unless stop_ was set between the thread's check of
\* it and its wait: the signal is then lost and the join waits for ever.
DestructorReturns == (dpc = "notify" /\ tpc # "lock") ~> (dpc = "closed")

\* What flush() is documented to do (logger_flusher.h:38): when the flusher is
\* gone and no write has failed, all that was logged is in the file.  It does not
\* hold: what is pushed after the thread's last doFlush stays in the pool.
FlushedIsWritten == dpc = "closed" /\ ~failed => disk = FlattenSeq(pushed)
=============================================================================
