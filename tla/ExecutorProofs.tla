--------------------------- MODULE ExecutorProofs ---------------------------
(***************************************************************************)
(* Context switching is safe for any number of coroutines, with or without *)
(* a Scheduler, as long as exec() is called on the main stack.             *)
(***************************************************************************)
EXTENDS Executor, TLAPS

\* A context that resumes executor e where it was suspended.
Own(e) == [stack |-> e, live |-> TRUE]

\* The frame of a stack that waits in swapContext for executor d.
WaitsFor(d) == [entry |-> FALSE, dst |-> d, ended |-> FALSE]

\* Which executor runs, and what the library records of it.
Running ==
  /\ ~wild
  /\ t_main \in {Main, Base}
  /\ t_cur = sp /\ sp \in Coroutines \cup {Base, Main}
  /\ \A e \in Coroutines : (state[e] = "Exec") <=> (sp = e)
  /\ sp \in Coroutines \cup {Main} /\ t_main = Main => ran /\ state[Main] = "Exec"
  /\ sp = Main => t_main = Main
  /\ sp = Base /\ t_main = Main /\ ~ran => state[Main] = "Init"

\* A stored context is always one of the executor's own stack; the coroutine
\* that runs was entered from t_main, which waits for it; a suspended one
\* waits for t_main; and one that never ran starts at executorMainFunc.
Suspended ==
  /\ \A e \in Executors : ctx[e] = NoContext \/ ctx[e].stack = e
  /\ \A e \in Coroutines : state[e] # "Ready"
  /\ \A e \in Coroutines : state[e] = "HoldUp" => ctx[e] = Own(e) /\ frame[e] = WaitsFor(t_main)
  /\ \A e \in Coroutines : state[e] = "Init" => frame[e].entry /\ ~frame[e].ended
  /\ sp \in Coroutines => ctx[t_main] = Own(t_main) /\ frame[t_main] = WaitsFor(sp)
  /\ sp \in Coroutines \cup {Main} /\ t_main = Main =>
       ctx[Base] = Own(Base) /\ frame[Base] = WaitsFor(Main)
  /\ ~ran => frame[Main].entry /\ ~frame[Main].ended

IInv == TypeOK /\ Running /\ Suspended

\* A switch to an executor whose own context is live, from a stack the resumed
\* code will store the new context for.
LEMMA SwitchFacts ==
  ASSUME TypeOK,
         NEW c \in [Executors -> Contexts], NEW src \in Executors, NEW dst \in Executors,
         NEW ended \in BOOLEAN,
         \A e \in Executors : c[e] = NoContext \/ c[e].stack = e,
         c[dst] = Own(dst), ~frame[dst].ended, dst # sp,
         IF frame[dst].entry THEN src = sp ELSE frame[dst].dst = sp,
         SwapContext(c, src, dst, ended)
  PROVE  /\ wild' = wild /\ sp' = dst
         /\ frame' = [frame EXCEPT ![sp] = [entry |-> FALSE, dst |-> dst, ended |-> ended]]
         /\ ctx' \in [Executors -> Contexts] /\ frame' \in [Executors -> Frames]
         /\ ctx'[sp] = Own(sp)
         /\ \A e \in Executors : ctx'[e] = NoContext \/ ctx'[e].stack = e
         /\ \A e \in Executors \ {sp, dst} : ctx'[e] = c[e]
<1> DEFINE spent == [e \in Executors |->
                  IF c[e] # NoContext /\ c[e].stack = dst THEN [c[e] EXCEPT !.live = FALSE]
                                                          ELSE c[e]]
<1>1. Own(dst) \in Saved /\ Own(sp) \in Saved /\ c[dst] # NoContext
  <2>1. Own(dst) \in Saved /\ Own(sp) \in Saved
    BY DEF Own, Saved, TypeOK
  <2> QED BY <2>1, NoContextAssumption
<1>2. c[dst].stack = dst /\ c[dst].live
  BY DEF Own
<1>3. Resumable(c, dst)
  BY <1>1, <1>2 DEF Resumable
<1>4. Jump(c, src, dst, ended)
  BY <1>3 DEF SwapContext
<1>5. /\ ctx' = [spent EXCEPT ![sp] = Own(sp)]
      /\ frame' = [frame EXCEPT ![sp] = [entry |-> FALSE, dst |-> dst, ended |-> ended]]
      /\ sp' = dst /\ wild' = wild
  BY <1>2, <1>4, ZenonT(60) DEF Jump, Own
<1>6. spent \in [Executors -> Contexts]
  <2> SUFFICES ASSUME NEW e \in Executors PROVE spent[e] \in Contexts
    OBVIOUS
  <2>1. CASE c[e] # NoContext /\ c[e].stack = dst
    <3>1. c[e] \in Saved
      BY <2>1 DEF Contexts
    <3>2. [c[e] EXCEPT !.live = FALSE] \in Saved
      BY <3>1 DEF Saved
    <3> QED BY <2>1, <3>2 DEF Contexts
  <2>2. CASE ~(c[e] # NoContext /\ c[e].stack = dst)
    BY <2>2
  <2> QED BY <2>1, <2>2
<1>7. \A e \in Executors : spent[e] = NoContext \/ spent[e].stack = e
  <2> SUFFICES ASSUME NEW e \in Executors PROVE spent[e] = NoContext \/ spent[e].stack = e
    OBVIOUS
  <2>1. CASE c[e] # NoContext /\ c[e].stack = dst
    <3>1. c[e] \in Saved /\ c[e].stack = e
      BY <2>1 DEF Contexts
    <3>2. [c[e] EXCEPT !.live = FALSE].stack = e
      BY <3>1 DEF Saved
    <3> QED BY <2>1, <3>2
  <2>2. CASE ~(c[e] # NoContext /\ c[e].stack = dst)
    BY <2>2
  <2> QED BY <2>1, <2>2
<1>8. \A e \in Executors \ {dst} : spent[e] = c[e]
  OBVIOUS
<1>9. sp \in Executors /\ frame \in [Executors -> Frames]
  BY DEF TypeOK
<1>10. ctx' \in [Executors -> Contexts] /\ ctx'[sp] = Own(sp)
  BY <1>1, <1>5, <1>6, <1>9 DEF Contexts
<1>11. frame' \in [Executors -> Frames]
  BY <1>5, <1>9 DEF Frames
<1>12. \A e \in Executors : ctx'[e] = NoContext \/ ctx'[e].stack = e
  BY <1>5, <1>6, <1>7, <1>9 DEF Own
<1>13. \A e \in Executors \ {sp, dst} : ctx'[e] = c[e]
  BY <1>5, <1>6, <1>8, <1>9
<1> QED BY <1>5, <1>10, <1>11, <1>12, <1>13

\* A switch by a side that waits in swapContext, as every one but terminalInner's.
Returning(c, src, dst) == SwapContext(c, src, dst, FALSE)

\* The same for a switch from which the suspended side returns later.
LEMMA ReturningSwitch ==
  ASSUME TypeOK,
         NEW c \in [Executors -> Contexts], NEW src \in Executors, NEW dst \in Executors,
         \A e \in Executors : c[e] = NoContext \/ c[e].stack = e,
         c[dst] = Own(dst), ~frame[dst].ended, dst # sp,
         IF frame[dst].entry THEN src = sp ELSE frame[dst].dst = sp,
         Returning(c, src, dst)
  PROVE  /\ wild' = wild /\ sp' = dst
         /\ frame' = [frame EXCEPT ![sp] = WaitsFor(dst)]
         /\ ctx' \in [Executors -> Contexts] /\ frame' \in [Executors -> Frames]
         /\ ctx'[sp] = Own(sp)
         /\ \A e \in Executors : ctx'[e] = NoContext \/ ctx'[e].stack = e
         /\ \A e \in Executors \ {sp, dst} : ctx'[e] = c[e]
<1>1. FALSE \in BOOLEAN
  OBVIOUS
<1>2. SwapContext(c, src, dst, FALSE)
  BY DEF Returning
<1> QED BY <1>1, <1>2, SwitchFacts, ZenonT(90) DEF WaitsFor

\* Init establishes the inductive invariant.
LEMMA IInvInit == Init => IInv
<1> SUFFICES ASSUME Init PROVE IInv
  OBVIOUS
<1> USE DistinctAssumption DEF Init, Executors
<1>1. TypeOK
  BY DEF TypeOK, States, Contexts, Frames
<1>2. Running
  BY DEF Running
<1>3. Suspended
  BY DEF Suspended
<1> QED BY <1>1, <1>2, <1>3 DEF IInv

\* Every step within the contract preserves it.
LEMMA IInvStep == IInv /\ [Next]_vars => IInv'
<1> SUFFICES ASSUME IInv, [Next]_vars PROVE IInv'
  OBVIOUS
<1> USE DistinctAssumption DEF IInv
<1>ex. /\ Main \in Executors /\ Base \in Executors /\ Coroutines \subseteq Executors
       /\ t_main \in Executors
  BY DEF Executors, TypeOK
<1>1. CASE RunScheduler
  <2>1. state[Main] = "Init" /\ sp = Base /\ t_main = Main /\ frame[Main].entry /\ ~frame[Main].ended
    BY <1>1 DEF RunScheduler, Running, Suspended
  <2>2. /\ Prepared(Main) \in [Executors -> Contexts]
        /\ Prepared(Main) = [ctx EXCEPT ![Main] = Own(Main)]
    BY <2>1, <1>ex DEF Prepared, Own, TypeOK, Contexts, Saved
  <2>3. /\ Prepared(Main)[Main] = Own(Main)
        /\ \A e \in Executors : Prepared(Main)[e] = NoContext \/ Prepared(Main)[e].stack = e
        /\ \A e \in Executors \ {Main} : Prepared(Main)[e] = ctx[e]
    BY <2>2, <1>ex DEF Suspended, TypeOK, Own
  <2>4. Returning(Prepared(Main), Base, Main)
    BY <1>1 DEF RunScheduler, DoExec, Returning
  <2>5. /\ wild' = wild /\ sp' = Main
        /\ frame' = [frame EXCEPT ![Base] = WaitsFor(Main)]
        /\ ctx' \in [Executors -> Contexts] /\ frame' \in [Executors -> Frames]
        /\ ctx'[Base] = Own(Base)
        /\ \A e \in Executors : ctx'[e] = NoContext \/ ctx'[e].stack = e
        /\ \A e \in Executors \ {Base, Main} : ctx'[e] = ctx[e]
    <3>1. IF frame[Main].entry THEN Base = sp ELSE frame[Main].dst = sp
      BY <2>1
    <3>2. Prepared(Main) \in [Executors -> Contexts]
      BY <2>2
    <3>3. ~frame[Main].ended /\ Main # sp /\ sp = Base
      BY <2>1
    <3> QED BY <2>3, <2>4, <3>1, <3>2, <3>3, <1>ex, ReturningSwitch
  <2>6. state' = [state EXCEPT ![Main] = "Exec"] /\ t_cur' = Main /\ t_main' = t_main /\ ran'
    BY <1>1 DEF RunScheduler, DoExec
  <2>7. TypeOK'
    BY <2>5, <2>6, <1>ex DEF TypeOK, States
  <2>8. Running'
    BY <2>1, <2>5, <2>6, <1>ex DEF Running, TypeOK
  <2>9. Suspended'
    BY <2>1, <2>5, <2>6, <1>ex DEF Suspended, Running, TypeOK, WaitsFor
  <2> QED BY <2>7, <2>8, <2>9
<1>2. CASE LeaveScheduler
  <2>1. sp = Main /\ t_main = Main /\ ctx[Base] = Own(Base) /\ frame[Base] = WaitsFor(Main)
    BY <1>2 DEF LeaveScheduler, Suspended
  <2>2. /\ wild' = wild /\ sp' = Base
        /\ frame' = [frame EXCEPT ![Main] = WaitsFor(Base)]
        /\ ctx' \in [Executors -> Contexts] /\ frame' \in [Executors -> Frames]
        /\ \A e \in Executors : ctx'[e] = NoContext \/ ctx'[e].stack = e
        /\ \A e \in Executors \ {Base, Main} : ctx'[e] = ctx[e]
    <3>1. Returning(ctx, Main, Base)
      BY <1>2 DEF LeaveScheduler, Returning
    <3>2. ctx \in [Executors -> Contexts] /\ \A e \in Executors : ctx[e] = NoContext \/ ctx[e].stack = e
      BY DEF TypeOK, Suspended
    <3>3. ~frame[Base].ended /\ ~frame[Base].entry /\ frame[Base].dst = sp
      BY <2>1 DEF WaitsFor
    <3> QED BY <2>1, <3>1, <3>2, <3>3, <1>ex, ReturningSwitch
  <2>3. /\ state' = [state EXCEPT ![Main] = "HoldUp"] /\ t_cur' = Base /\ t_main' = t_main
        /\ ran' = ran /\ ran
    BY <1>2 DEF LeaveScheduler, Running
  <2>4. TypeOK'
    BY <2>2, <2>3, <1>ex DEF TypeOK, States
  <2>5. Running'
    BY <2>1, <2>2, <2>3, <1>ex DEF Running, TypeOK
  <2>6. Suspended'
    BY <2>1, <2>2, <2>3, <1>ex DEF Suspended, Running, TypeOK
  <2> QED BY <2>4, <2>5, <2>6
<1>3. ASSUME NEW e \in Coroutines, Exec(e) PROVE IInv'
  <2>1. sp = t_main /\ state[e] \in {"Init", "HoldUp"} /\ e # t_main
    BY <1>3 DEF Exec, OnMainStack, DoExec, Suspended, Running
  <2>2. /\ Prepared(e) \in [Executors -> Contexts]
        /\ Prepared(e)[e] = Own(e)
        /\ \A x \in Executors : Prepared(e)[x] = NoContext \/ Prepared(e)[x].stack = x
        /\ \A x \in Executors \ {e} : Prepared(e)[x] = ctx[x]
    <3>1. CASE state[e] = "Init"
      <4>1. Prepared(e) = [ctx EXCEPT ![e] = Own(e)] /\ Own(e) \in Contexts
        BY <3>1, <1>ex DEF Prepared, Own, Contexts, Saved
      <4> QED BY <4>1, <1>ex DEF TypeOK, Suspended, Own
    <3>2. CASE state[e] = "HoldUp"
      BY <3>2, <1>ex DEF Prepared, TypeOK, Suspended
    <3> QED BY <2>1, <3>1, <3>2
  <2>3. ~frame[e].ended /\ IF frame[e].entry THEN t_main = sp ELSE frame[e].dst = sp
    BY <2>1 DEF Suspended, WaitsFor
  <2>4. Returning(Prepared(e), t_main, e)
    BY <1>3 DEF Exec, DoExec, Returning
  <2>5. /\ wild' = wild /\ sp' = e
        /\ frame' = [frame EXCEPT ![t_main] = WaitsFor(e)]
        /\ ctx' \in [Executors -> Contexts] /\ frame' \in [Executors -> Frames]
        /\ ctx'[t_main] = Own(t_main)
        /\ \A x \in Executors : ctx'[x] = NoContext \/ ctx'[x].stack = x
        /\ \A x \in Executors \ {t_main, e} : ctx'[x] = ctx[x]
    BY <2>1, <2>2, <2>3, <2>4, <1>ex, ReturningSwitch
  <2>6. state' = [state EXCEPT ![e] = "Exec"] /\ t_cur' = e /\ t_main' = t_main /\ ran' = ran
    BY <1>3 DEF Exec, DoExec
  <2>7. TypeOK'
    BY <2>5, <2>6, <1>ex DEF TypeOK, States
  <2>8. Running'
    BY <2>1, <2>5, <2>6, <1>ex DEF Running, TypeOK
  <2>9. Suspended'
    BY <2>1, <2>5, <2>6, <1>ex DEF Suspended, Running, TypeOK, WaitsFor
  <2> QED BY <2>7, <2>8, <2>9
<1>4. ASSUME NEW e \in Coroutines, NEW ended \in BOOLEAN, NEW s \in {"HoldUp", "Terminal"},
             ended <=> (s = "Terminal"),
             e = t_cur, state[e] = "Exec",
             state' = [state EXCEPT ![e] = s],
             SwitchToMain(ended)
      PROVE  IInv'
  <2>1. /\ sp = e /\ e # t_main /\ e # Base /\ e # Main
        /\ ctx[t_main] = Own(t_main) /\ frame[t_main] = WaitsFor(e)
    BY <1>4 DEF Running, Suspended
  <2>2. /\ wild' = wild /\ sp' = t_main
        /\ frame' = [frame EXCEPT ![e] = [entry |-> FALSE, dst |-> t_main, ended |-> ended]]
        /\ ctx' \in [Executors -> Contexts] /\ frame' \in [Executors -> Frames]
        /\ ctx'[e] = Own(e)
        /\ \A x \in Executors : ctx'[x] = NoContext \/ ctx'[x].stack = x
        /\ \A x \in Executors \ {e, t_main} : ctx'[x] = ctx[x]
    <3>1. SwapContext(ctx, e, t_main, ended)
      BY <1>4 DEF SwitchToMain
    <3>2. ctx \in [Executors -> Contexts] /\ \A x \in Executors : ctx[x] = NoContext \/ ctx[x].stack = x
      BY DEF TypeOK, Suspended
    <3>3. ~frame[t_main].ended /\ ~frame[t_main].entry /\ frame[t_main].dst = sp
      BY <2>1 DEF WaitsFor
    <3> QED BY <2>1, <3>1, <3>2, <3>3, <1>ex, SwitchFacts
  <2>3. t_cur' = t_main /\ t_main' = t_main /\ ran' = ran
    BY <1>4 DEF SwitchToMain
  <2>4. TypeOK'
    BY <1>4, <2>2, <2>3, <1>ex DEF TypeOK, States
  <2>5. Running'
    BY <1>4, <2>1, <2>2, <2>3, <1>ex DEF Running, TypeOK
  <2>6. Suspended'
    <3>1. \A x \in Coroutines : state'[x] = "HoldUp" => ctx'[x] = Own(x) /\ frame'[x] = WaitsFor(t_main)
      <4> SUFFICES ASSUME NEW x \in Coroutines, state'[x] = "HoldUp"
                   PROVE  ctx'[x] = Own(x) /\ frame'[x] = WaitsFor(t_main)
        OBVIOUS
      <4>1. CASE x = e
        <5>1. ~ended
          BY <4>1, <1>4 DEF TypeOK
        <5> QED BY <4>1, <5>1, <2>2, <1>ex DEF WaitsFor, TypeOK
      <4>2. CASE x # e
        <5>1. x # t_main /\ state[x] = "HoldUp"
          BY <4>2, <1>4 DEF Running, TypeOK
        <5> QED BY <4>2, <5>1, <2>2, <1>ex DEF Suspended, TypeOK
      <4> QED BY <4>1, <4>2
    <3>2. \A x \in Coroutines : state'[x] # "Ready"
      BY <1>4 DEF Suspended, TypeOK
    <3>3. \A x \in Coroutines : state'[x] = "Init" => frame'[x].entry /\ ~frame'[x].ended
      BY <1>4, <2>2, <1>ex DEF Suspended, TypeOK
    <3>4. t_main = Main => ran
      BY <2>1 DEF Running
    <3>5. t_main = Main => ctx'[Base] = Own(Base) /\ frame'[Base] = WaitsFor(Main)
      BY <2>1, <2>2, <1>ex DEF Suspended, TypeOK
    <3>6. ~ran => frame'[Main].entry /\ ~frame'[Main].ended
      BY <2>1, <2>2, <1>ex DEF Suspended, TypeOK
    <3>7. t_main \notin Coroutines
      BY DEF Running
    <3> QED BY <2>2, <2>3, <3>1, <3>2, <3>3, <3>5, <3>6, <3>7 DEF Suspended
  <2> QED BY <2>4, <2>5, <2>6
<1>5. ASSUME NEW e \in Coroutines, Yield(e) \/ Finish(e) PROVE IInv'
  BY <1>4, <1>5 DEF Yield, Finish
<1>6. ASSUME NEW e \in Coroutines, Kill(e) PROVE IInv'
  <2>1. TypeOK'
    BY <1>6 DEF Kill, TypeOK, States
  <2>2. Running'
    BY <1>6, <1>ex DEF Kill, Running, TypeOK
  <2>3. Suspended'
    BY <1>6, <1>ex DEF Kill, Suspended, TypeOK
  <2> QED BY <2>1, <2>2, <2>3
<1>7. CASE UNCHANGED vars
  BY <1>7 DEF vars, TypeOK, Running, Suspended
<1> QED BY <1>1, <1>2, <1>3, <1>5, <1>6, <1>7 DEF Next

\* No switch ever resumes a spent, missing or ended context.
THEOREM SwitchesAreSafe == Spec => []NoWildJump
<1>1. IInv => NoWildJump
  BY DEF IInv, Running, NoWildJump
<1> QED BY <1>1, IInvInit, IInvStep, PTL DEF Spec

\* getCurrent() names the executor whose stack the thread runs on, and exactly
\* that coroutine is in state Exec.
THEOREM CurrentIsExact == Spec => []CurrentIsRunning
<1>1. IInv => CurrentIsRunning
  BY DEF IInv, Running, CurrentIsRunning
<1> QED BY <1>1, IInvInit, IInvStep, PTL DEF Spec
=============================================================================
