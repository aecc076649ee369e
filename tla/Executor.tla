------------------------------ MODULE Executor ------------------------------
(***************************************************************************)
(* The coroutines of one thread and the fcontext switches between them.    *)
(*                                                                         *)
(* jump_fcontext suspends the running stack and yields a context that can  *)
(* be resumed once.  That context is handed to the code that is resumed,   *)
(* which stores it: executorMainFunc in the executor whose address came as *)
(* the transfer's data, swapContext in its own parameter dst.  Whether it  *)
(* reaches the executor it belongs to depends on who jumped where before.  *)
(*                                                                         *)
(* The contract, kept by Scheduler: exec() is called by code running on    *)
(* the stack of t_main_executor, and run() is called once.                 *)
(***************************************************************************)
EXTENDS Naturals

CONSTANTS
  Coroutines,  \* executors built from a callback
  Main,        \* Scheduler::scheduler_executor_
  Base,        \* the executor getCurrent() makes of the thread's own stack
  NoContext    \* context_ == nullptr

ASSUME DistinctAssumption ==
  Main # Base /\ {Main, Base} \cap Coroutines = {}

Executors == Coroutines \cup {Main, Base}

\* A context names the stack it was taken from, which is the stack of the
\* executor of that name; it is live until it is resumed or overwritten.
Saved == [stack : Executors, live : BOOLEAN]

Contexts == Saved \cup {NoContext}

ASSUME NoContextAssumption == NoContext \notin Saved

\* Where a stack resumes: at executorMainFunc, or inside swapContext with
\* parameter dst; ended when that swapContext was called by terminalInner.
Frames == [entry : BOOLEAN, dst : Executors, ended : BOOLEAN]

VARIABLES
  state,   \* Executor::state_
  ctx,     \* Executor::context_
  frame,   \* where each suspended stack resumes
  sp,      \* the stack the thread runs on
  t_cur,   \* t_cur_executor
  t_main,  \* t_main_executor
  ran,     \* run() has been called
  wild     \* a jump went to a context that is not live, or back into an ended one

vars == <<state, ctx, frame, sp, t_cur, t_main, ran, wild>>

States == {"Init", "Exec", "Ready", "HoldUp", "Terminal"}

\* Contexts, states and frames keep their types: no executor enters a state
\* the library does not name.
TypeOK ==
  /\ state \in [Executors -> States]
  /\ ctx \in [Executors -> Contexts]
  /\ frame \in [Executors -> Frames]
  /\ sp \in Executors /\ t_cur \in Executors /\ t_main \in Executors
  /\ ran \in BOOLEAN /\ wild \in BOOLEAN

\* After getCurrent(), with (t_main = Main) or without a Scheduler.
Init ==
  /\ state = [e \in Executors |-> IF e = Base THEN "Ready" ELSE "Init"]
  /\ ctx = [e \in Executors |-> NoContext]
  /\ frame = [e \in Executors |-> [entry |-> TRUE, dst |-> Base, ended |-> FALSE]]
  /\ sp = Base /\ t_cur = Base
  /\ t_main \in {Main, Base}
  /\ ran = FALSE /\ wild = FALSE

-----------------------------------------------------------------------------
\* Mutant: executorMainFunc does not store the context it is handed.
JumpNotStored(c, src, dst, ended) ==
  LET s == c[dst].stack
      spent == [e \in Executors |->
                  IF c[e] # NoContext /\ c[e].stack = s THEN [c[e] EXCEPT !.live = FALSE]
                                                        ELSE c[e]]
  IN  /\ ctx' = IF frame[s].entry THEN spent
                ELSE [spent EXCEPT ![frame[s].dst] = [stack |-> sp, live |-> TRUE]]
      /\ frame' = [frame EXCEPT ![sp] = [entry |-> FALSE, dst |-> dst, ended |-> ended]]
      /\ sp' = s
      /\ wild' = wild

\* jump_fcontext and the store of the transferred context.  c holds the
\* contexts before the jump; s is the stack jumped to.
Jump(c, src, dst, ended) ==
  LET s == c[dst].stack
      spent == [e \in Executors |->
                  IF c[e] # NoContext /\ c[e].stack = s THEN [c[e] EXCEPT !.live = FALSE]
                                                        ELSE c[e]]
      keeper == IF frame[s].entry THEN src ELSE frame[s].dst
  IN  /\ ctx' = [spent EXCEPT ![keeper] = [stack |-> sp, live |-> TRUE]]
      /\ frame' = [frame EXCEPT ![sp] = [entry |-> FALSE, dst |-> dst, ended |-> ended]]
      /\ sp' = s
      /\ wild' = wild

\* The context of executor e can be resumed.
Resumable(c, e) == c[e] # NoContext /\ c[e].live /\ ~frame[c[e].stack].ended

SwapContext(c, src, dst, ended) ==
  \/ Resumable(c, dst) /\ Jump(c, src, dst, ended)
  \/ ~Resumable(c, dst) /\ wild' = TRUE /\ ctx' = c /\ UNCHANGED <<frame, sp>>

\* initToReady and makeContext: a context that starts at executorMainFunc.
Prepared(e) ==
  IF state[e] = "Init" THEN [ctx EXCEPT ![e] = [stack |-> e, live |-> TRUE]] ELSE ctx

\* doExec for the states that switch; the other states do nothing.
DoExec(e, src) ==
  /\ state[e] \in {"Init", "HoldUp", "Ready"}
  /\ state' = [state EXCEPT ![e] = "Exec"]
  /\ t_cur' = e
  /\ SwapContext(Prepared(e), src, e, FALSE)

Live == ~wild

RunScheduler == \* run(): mainExec
  /\ Live /\ sp = Base /\ t_main = Main /\ ~ran
  /\ ran' = TRUE
  /\ DoExec(Main, Base)
  /\ UNCHANGED t_main

\* Mutant: mainYield forgets to make the base executor current.
LeaveSchedulerKeepsCurrent ==
  /\ Live /\ sp = Main /\ t_main = Main /\ state[Main] = "Exec"
  /\ state' = [state EXCEPT ![Main] = "HoldUp"]
  /\ SwapContext(ctx, Main, Base, FALSE)
  /\ UNCHANGED <<t_cur, t_main, ran>>

LeaveScheduler == \* mainYield at the end of threadScheduleFunc
  /\ Live /\ sp = Main /\ t_main = Main /\ state[Main] = "Exec"
  /\ state' = [state EXCEPT ![Main] = "HoldUp"]
  /\ t_cur' = Base
  /\ SwapContext(ctx, Main, Base, FALSE)
  /\ UNCHANGED <<t_main, ran>>

\* The code allowed to call exec(): the loop on t_main's stack.
OnMainStack == sp = t_main

Exec(e) == \* exec() by the scheduler, or by a thread without one
  /\ Live /\ OnMainStack /\ e \in Coroutines
  /\ DoExec(e, t_main)
  /\ UNCHANGED <<t_main, ran>>

\* yieldInner and terminalInner: back to t_main_executor.
SwitchToMain(ended) ==
  /\ t_cur' = t_main
  /\ SwapContext(ctx, t_cur, t_main, ended)
  /\ UNCHANGED <<t_main, ran>>

Yield(e) == \* Executor::getCurrent()->yield()
  /\ Live /\ e = t_cur /\ e \in Coroutines /\ state[e] = "Exec"
  /\ state' = [state EXCEPT ![e] = "HoldUp"]
  /\ SwitchToMain(FALSE)

Finish(e) == \* the callback returns or throws: terminal(); or kill() of oneself
  /\ Live /\ e = t_cur /\ e \in Coroutines /\ state[e] = "Exec"
  /\ state' = [state EXCEPT ![e] = "Terminal"]
  /\ SwitchToMain(TRUE)

Kill(e) == \* kill() of an executor that is not running
  /\ Live /\ e \in Coroutines /\ e # t_cur /\ state[e] # "Exec"
  /\ state' = [state EXCEPT ![e] = "Terminal"]
  /\ UNCHANGED <<ctx, frame, sp, t_cur, t_main, ran, wild>>

Next ==
  \/ RunScheduler
  \/ LeaveScheduler
  \/ \E e \in Coroutines : Exec(e) \/ Yield(e) \/ Finish(e) \/ Kill(e)

Spec == Init /\ [][Next]_vars

-----------------------------------------------------------------------------
(* Properties.                                                             *)

\* Control never jumps to a context that was resumed before, never made, or
\* left behind by an executor that ended.
NoWildJump == ~wild

\* The executor the library believes to be current is the one whose stack the
\* thread runs on, and of the coroutines exactly that one is in state Exec.
CurrentIsRunning ==
  ~wild => t_cur = sp /\ \A e \in Coroutines : (state[e] = "Exec") <=> (t_cur = e)
=============================================================================
