------------------------------ MODULE FdManager ------------------------------
(***************************************************************************)
(* FdManager's contexts, the hooked calls that make, read, change and      *)
(* delete them, and the kernel's view of the same descriptors.  Callers    *)
(* are threads (or coroutines of them) that work at the same time, each on *)
(* a descriptor of its own; descriptor numbers and the memory of contexts  *)
(* are handed out again after they are given back.                         *)
(***************************************************************************)
EXTENDS Naturals, FiniteSets

CONSTANTS
  Callers,       \* threads that use the hooked calls
  Fds,           \* descriptor numbers
  Ptrs,          \* addresses operator new may return for an FdContext
  Null,          \* nullptr, and no descriptor
  Freed,         \* contents of an address that is not allocated
  SocketFlags,   \* <<call, O_NONBLOCK>> with which callers change a socket's flags
  ToggleAnytime  \* may setHookEnabled be called while descriptors are open?

FlagCalls == {"fcntl", "co_fcntl", "ioctl", "co_ioctl"}

ASSUME FdAssumption ==
  /\ Null \notin Fds \cup Ptrs
  /\ SocketFlags \subseteq FlagCalls \X BOOLEAN
  /\ ToggleAnytime \in BOOLEAN

VARIABLES
  hook,      \* G_hookEnabled
  kind,      \* kernel: what each number denotes
  nonblock,  \* kernel: O_NONBLOCK of each descriptor
  contexts,  \* _FdManager::contexts_
  heap,      \* the FdContext at each address
  call,      \* the call each caller is in, and its locals
  want       \* history: what has been asked of each descriptor since it was opened

vars == <<hook, kind, nonblock, contexts, heap, call, want>>

Timeouts == {"SO_RCVTIMEO", "SO_SNDTIMEO"}

FdContexts == [is_socket : BOOLEAN, user : BOOLEAN, timeouts : SUBSET Timeouts]

ASSUME FreedAssumption == Freed \notin FdContexts

\* FdContext(true): a socket, blocking for its user, without timeouts.
NewSocket == [is_socket |-> TRUE, user |-> FALSE, timeouts |-> {}]

Idle == [at |-> "idle", fd |-> Null, ptr |-> Null, op |-> "none", arg |-> FALSE]

Init ==
  /\ hook = TRUE
  /\ kind = [fd \in Fds |-> "free"] /\ nonblock = [fd \in Fds |-> FALSE]
  /\ contexts = [fd \in Fds |-> Null]
  /\ heap = [a \in Ptrs |-> Freed]
  /\ call = [p \in Callers |-> Idle]
  /\ want = [fd \in Fds |-> [hooked |-> FALSE, user |-> FALSE, timeouts |-> {}]]

\* A descriptor is used by one caller at a time.
Busy(fd) == \E p \in Callers : call[p].fd = fd

SetHookEnabled ==
  /\ ToggleAnytime \/ \A fd \in Fds : kind[fd] = "free"
  /\ \A p \in Callers : call[p] = Idle
  /\ hook' = ~hook
  /\ UNCHANGED <<kind, nonblock, contexts, heap, call, want>>

-----------------------------------------------------------------------------
(* co_socket, co_accept and the calls that are not hooked: open, pipe.     *)

\* Mutant: O_NONBLOCK is not set on a new socket.
SocketSysBlocking(p) ==
  /\ call[p] = Idle
  /\ \E fd \in Fds :
       /\ kind[fd] = "free"
       /\ kind' = [kind EXCEPT ![fd] = "socket"]
       /\ nonblock' = [nonblock EXCEPT ![fd] = FALSE]
       /\ want' = [want EXCEPT ![fd] = [hooked |-> hook, user |-> FALSE, timeouts |-> {}]]
       /\ call' = [call EXCEPT ![p] = IF hook THEN [Idle EXCEPT !.at = "set", !.fd = fd] ELSE Idle]
  /\ UNCHANGED <<hook, contexts, heap>>

\* The system call, and if it is hooked fcntl_sys and then setContext.
SocketSys(p) ==
  /\ call[p] = Idle
  /\ \E fd \in Fds :
       /\ kind[fd] = "free"
       /\ kind' = [kind EXCEPT ![fd] = "socket"]
       /\ nonblock' = [nonblock EXCEPT ![fd] = hook]
       /\ want' = [want EXCEPT ![fd] = [hooked |-> hook, user |-> FALSE, timeouts |-> {}]]
       /\ call' = [call EXCEPT ![p] = IF hook THEN [Idle EXCEPT !.at = "set", !.fd = fd] ELSE Idle]
  /\ UNCHANGED <<hook, contexts, heap>>

\* setContext: whatever the slot held is overwritten.
SetContext(p) ==
  /\ call[p].at = "set"
  /\ \E a \in Ptrs :
       /\ heap[a] = Freed
       /\ heap' = [heap EXCEPT ![a] = NewSocket]
       /\ contexts' = [contexts EXCEPT ![call[p].fd] = a]
  /\ call' = [call EXCEPT ![p] = Idle]
  /\ UNCHANGED <<hook, kind, nonblock, want>>

OpenFile(p) ==
  /\ call[p] = Idle
  /\ \E fd \in Fds :
       /\ kind[fd] = "free"
       /\ kind' = [kind EXCEPT ![fd] = "file"]
       /\ nonblock' = [nonblock EXCEPT ![fd] = FALSE]
       /\ want' = [want EXCEPT ![fd] = [hooked |-> FALSE, user |-> FALSE, timeouts |-> {}]]
  /\ UNCHANGED <<hook, contexts, heap, call>>

-----------------------------------------------------------------------------
(* close                                                                   *)

\* Mutant: the descriptor is closed before its context is deleted.
CloseNextSwapped(at) ==
  CASE at = "hasFd" -> "close" [] at = "close" -> "del" [] at = "del" -> "idle"

\* The order of co_close: hasFd, delContext, close_sys.
CloseNext(at) ==
  CASE at = "hasFd" -> "del" [] at = "del" -> "close" [] at = "close" -> "idle"

GoOn(p, at) == call' = [call EXCEPT ![p] = IF at = "idle" THEN Idle ELSE [@ EXCEPT !.at = at]]

\* removeEvent is the subject of module IoManager.
Close(p) ==
  /\ call[p] = Idle
  /\ \E fd \in Fds :
       /\ kind[fd] # "free" /\ ~Busy(fd)
       /\ call' = [call EXCEPT ![p] = [Idle EXCEPT !.fd = fd,
                     !.at = IF hook /\ contexts[fd] # Null THEN CloseNext("hasFd") ELSE "close"]]
  /\ UNCHANGED <<hook, kind, nonblock, contexts, heap, want>>

\* Mutant: the pointer to the deleted context stays in the table.
DelContextKeeps(p) ==
  /\ call[p].at = "del"
  /\ LET a == contexts[call[p].fd] IN
     heap' = IF a = Null THEN heap ELSE [heap EXCEPT ![a] = Freed]
  /\ GoOn(p, CloseNext("del"))
  /\ UNCHANGED <<hook, kind, nonblock, contexts, want>>

\* Mutant: the context is taken out of the table and not deleted.
DelContextLeaks(p) ==
  /\ call[p].at = "del"
  /\ contexts' = [contexts EXCEPT ![call[p].fd] = Null]
  /\ GoOn(p, CloseNext("del"))
  /\ UNCHANGED <<hook, kind, nonblock, heap, want>>

DelContext(p) ==
  /\ call[p].at = "del"
  /\ LET a == contexts[call[p].fd] IN
     heap' = IF a = Null THEN heap ELSE [heap EXCEPT ![a] = Freed]
  /\ contexts' = [contexts EXCEPT ![call[p].fd] = Null]
  /\ GoOn(p, CloseNext("del"))
  /\ UNCHANGED <<hook, kind, nonblock, want>>

CloseSys(p) ==
  /\ call[p].at = "close"
  /\ kind' = [kind EXCEPT ![call[p].fd] = "free"]
  /\ GoOn(p, CloseNext("close"))
  /\ UNCHANGED <<hook, nonblock, contexts, heap, want>>

-----------------------------------------------------------------------------
(* The calls that look at the context.                                     *)

\* Which calls there are for a descriptor: reads and writes, the two
\* timeouts, and changes of its flags.
Calls(fd) ==
  {<<"io", FALSE>>} \cup Timeouts \X {TRUE}
    \cup (IF kind[fd] = "file" THEN FlagCalls \X BOOLEAN ELSE SocketFlags)

\* send, fcntl and ioctl do not ask isHookEnabled.
IsHooked(op) == hook \/ op \in FlagCalls \cup {"io"}

\* getContext: a pointer that is used after the lock is released.
GetContext(p) ==
  /\ call[p] = Idle
  /\ \E fd \in Fds :
       /\ kind[fd] # "free" /\ ~Busy(fd)
       /\ \E c \in Calls(fd) :
            /\ IsHooked(c[1])
            /\ call' = [call EXCEPT ![p] = [at |-> "use", fd |-> fd, ptr |-> contexts[fd],
                                            op |-> c[1], arg |-> c[2]]]
  /\ UNCHANGED <<hook, kind, nonblock, contexts, heap, want>>

Uses(p, ops) == call[p].at = "use" /\ call[p].op \in ops

IsSocket(p) == call[p].ptr # Null /\ heap[call[p].ptr].is_socket

\* ioInner goes its own way for a socket whose user did not ask for O_NONBLOCK;
\* for all others the system call decides.
IoInner(p) ==
  /\ Uses(p, {"io"})
  /\ GoOn(p, IF IsSocket(p) /\ ~heap[call[p].ptr].user THEN "managed" ELSE "idle")
  /\ UNCHANGED <<hook, kind, nonblock, contexts, heap, want>>

\* The calls of ioInner's loop, which suspends the coroutine on EAGAIN.
ManagedDone(p) ==
  /\ call[p].at = "managed"
  /\ GoOn(p, "idle")
  /\ UNCHANGED <<hook, kind, nonblock, contexts, heap, want>>

SetUser(p, b) == heap' = [heap EXCEPT ![call[p].ptr].user = b]
SetKernel(p, b) == nonblock' = [nonblock EXCEPT ![call[p].fd] = b]
Asked(p) == want' = [want EXCEPT ![call[p].fd].user = call[p].arg]

\* F_SETFL.  The hook passes its va_list on as the argument: any flags at all.
SetFlags(p) ==
  /\ Uses(p, {"fcntl", "co_fcntl"})
  /\ \E arg1 \in IF call[p].op = "fcntl" THEN BOOLEAN ELSE {call[p].arg} :
       IF call[p].ptr = Null \/ IsSocket(p)
       THEN SetKernel(p, arg1) /\ UNCHANGED heap
       ELSE SetUser(p, arg1) /\ SetKernel(p, TRUE)
  /\ Asked(p) /\ GoOn(p, "idle")
  /\ UNCHANGED <<hook, kind, contexts>>

\* FIONBIO.  The hook passes its va_list on: what the argument points to is
\* then an offset into the argument area, which is not zero.
Ioctl(p) ==
  /\ Uses(p, {"ioctl", "co_ioctl"})
  /\ LET on == call[p].op = "ioctl" \/ call[p].arg IN
     /\ IF IsSocket(p) THEN SetUser(p, on) ELSE UNCHANGED heap
     /\ SetKernel(p, on)
  /\ Asked(p) /\ GoOn(p, "idle")
  /\ UNCHANGED <<hook, kind, contexts>>

\* co_setsockopt
SetTimeout(p) ==
  /\ Uses(p, Timeouts)
  /\ heap' = IF call[p].ptr = Null THEN heap
             ELSE [heap EXCEPT ![call[p].ptr].timeouts = @ \cup {call[p].op}]
  /\ want' = [want EXCEPT ![call[p].fd].timeouts = @ \cup {call[p].op}]
  /\ GoOn(p, "idle")
  /\ UNCHANGED <<hook, kind, nonblock, contexts>>

-----------------------------------------------------------------------------
Next ==
  \/ SetHookEnabled
  \/ \E p \in Callers :
       \/ SocketSys(p) \/ SetContext(p) \/ OpenFile(p)
       \/ Close(p) \/ DelContext(p) \/ CloseSys(p)
       \/ GetContext(p) \/ IoInner(p) \/ ManagedDone(p)
       \/ SetFlags(p) \/ Ioctl(p) \/ SetTimeout(p)

Spec == Init /\ [][Next]_vars

-----------------------------------------------------------------------------
(* Properties.                                                             *)

Places == {"idle", "set", "del", "close", "use", "managed"}

\* Table, heap and the callers' locals keep their types: a pointer is null or
\* an address, and a context holds only the timeouts there are.
TypeOK ==
  /\ hook \in BOOLEAN
  /\ kind \in [Fds -> {"free", "socket", "file"}] /\ nonblock \in [Fds -> BOOLEAN]
  /\ contexts \in [Fds -> Ptrs \cup {Null}]
  /\ heap \in [Ptrs -> FdContexts \cup {Freed}]
  /\ call \in [Callers -> [at : Places, fd : Fds \cup {Null}, ptr : Ptrs \cup {Null},
                           op : FlagCalls \cup Timeouts \cup {"io", "none"}, arg : BOOLEAN]]

\* The pointer getContext returned still points to a context when it is used,
\* though the lock was released in between and other callers close and open
\* descriptors meanwhile.
NoUseAfterFree ==
  \A p \in Callers : call[p].at = "use" /\ call[p].ptr # Null => heap[call[p].ptr] # Freed

\* A socket opened through the hooks keeps its own context, with what was set
\* on it and nothing that was set on an earlier descriptor of that number:
\* close never deletes the context of a socket opened meanwhile.
ContextMatches ==
  \A fd \in Fds :
    kind[fd] = "socket" /\ want[fd].hooked /\ ~Busy(fd) =>
      /\ contexts[fd] # Null
      /\ heap[contexts[fd]] = [is_socket |-> TRUE, user |-> want[fd].user,
                               timeouts |-> want[fd].timeouts]

\* A context belongs to one open socket: none is left behind for the next
\* descriptor of the same number, and none is lost.
NoStaleContext ==
  /\ \A fd \in Fds : contexts[fd] # Null => kind[fd] = "socket"
  /\ \A a \in Ptrs : heap[a] # Freed => Cardinality({fd \in Fds : contexts[fd] = a}) = 1

\* A system call that ioInner makes never blocks the thread with all its
\* coroutines: the kernel's descriptor is non-blocking.
NeverBlocksThread ==
  \A p \in Callers : call[p].at = "managed" => nonblock[call[p].fd]
=============================================================================
