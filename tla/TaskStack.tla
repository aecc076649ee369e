----------------------------- MODULE TaskStack -----------------------------
(***************************************************************************)
(* What Scheduler::RemoteTaskList promises: an atomic stack.  A push adds  *)
(* one task, the scheduler takes the whole stack at once and hands the     *)
(* tasks of the batch to addExecutor, newest first, each exactly once.     *)
(***************************************************************************)
EXTENDS Sequences

CONSTANT Tasks

VARIABLES
  stack,      \* pushed and not yet taken, newest first
  batch,      \* taken by scheduleAll and not yet added
  delivered   \* given to addExecutor, in order

vars == <<stack, batch, delivered>>

Init == stack = <<>> /\ batch = <<>> /\ delivered = <<>>

Push(t) ==
  /\ stack' = <<t>> \o stack
  /\ UNCHANGED <<batch, delivered>>

TakeAll ==
  /\ stack # <<>> /\ batch = <<>>
  /\ batch' = stack /\ stack' = <<>>
  /\ UNCHANGED delivered

Deliver ==
  /\ batch # <<>>
  /\ delivered' = Append(delivered, Head(batch))
  /\ batch' = Tail(batch)
  /\ UNCHANGED stack

Next == (\E t \in Tasks : Push(t)) \/ TakeAll \/ Deliver

Safety == Init /\ [][Next]_vars

Spec == Safety /\ WF_vars(TakeAll) /\ WF_vars(Deliver)
=============================================================================
