--------------------------- MODULE FdManagerProofs ---------------------------
(***************************************************************************)
(* The pointers getContext hands out are safe to use after its lock is     *)
(* released, for any number of callers, descriptors and addresses, and     *)
(* whenever hooking is switched on or off.  When it is not switched while  *)
(* descriptors are open, contexts and hooked sockets correspond one to one,*)
(* and a context says what its socket's users asked for.                   *)
(***************************************************************************)
EXTENDS FdManager, FiniteSetTheorems, TLAPS

\* The table's pointers are to allocated contexts, and no two are the same.
TableOwns ==
  /\ \A fd \in Fds : contexts[fd] # Null => heap[contexts[fd]] # Freed
  /\ \A f, g \in Fds : contexts[f] = contexts[g] /\ contexts[f] # Null => f = g

\* A caller in a call works on a descriptor no other caller works on.
OneCaller ==
  /\ \A p \in Callers : call[p].at # "idle" => call[p].fd \in Fds
  /\ \A p, q \in Callers : call[p].fd = call[q].fd /\ call[p].fd # Null => p = q

\* The pointer a caller is about to use is the one in the table.
PointerCurrent ==
  \A p \in Callers : call[p].at = "use" =>
    call[p].ptr = contexts[call[p].fd] /\ call[p].op # "none"

\* A descriptor some caller works on is open, so the kernel hands it to nobody.
BusyIsOpen ==
  \A p \in Callers : call[p].fd \in Fds => kind[call[p].fd] # "free"

IInv == TypeOK /\ TableOwns /\ OneCaller /\ PointerCurrent /\ BusyIsOpen

CallType == [at : Places, fd : Fds \cup {Null}, ptr : Ptrs \cup {Null},
             op : FlagCalls \cup Timeouts \cup {"io", "none"}, arg : BOOLEAN]

\* The idle call has its type and no descriptor.
LEMMA IdleFacts ==
  Idle \in CallType /\ Idle.at = "idle" /\ Idle.fd = Null /\ Idle.ptr = Null
  BY DEF Idle, CallType, Places

\* With no descriptor open and no call under way the invariant holds.
LEMMA InitInv == Init => IInv
<1> SUFFICES ASSUME Init PROVE IInv
  OBVIOUS
<1> USE IdleFacts, FdAssumption
<1>1. TypeOK
  BY DEF Init, TypeOK, CallType
<1>2. TableOwns /\ OneCaller /\ PointerCurrent /\ BusyIsOpen
  BY DEF Init, TableOwns, OneCaller, PointerCurrent, BusyIsOpen
<1>3. QED
  BY <1>1, <1>2 DEF IInv

\* How the other callers fare when caller p gets call c: c is on no
\* descriptor, on the one p had, or on one nobody uses.
LEMMA CallChange ==
  ASSUME IInv, NEW p \in Callers, NEW c \in CallType,
         call' = [call EXCEPT ![p] = c],
         c.at # "idle" => c.fd \in Fds,
         c.fd = Null \/ c.fd = call[p].fd \/ ~Busy(c.fd)
  PROVE  /\ call' \in [Callers -> CallType]
         /\ OneCaller'
         /\ \A q \in Callers : call'[q] = IF q = p THEN c ELSE call[q]
<1>1. call' \in [Callers -> CallType]
  BY DEF IInv, TypeOK, CallType
<1>2. \A q \in Callers : call'[q] = IF q = p THEN c ELSE call[q]
  BY DEF IInv, TypeOK
<1>3. OneCaller'
  BY <1>2 DEF IInv, OneCaller, Busy
<1>4. QED
  BY <1>1, <1>2, <1>3

\* What GoOn makes of a call.
LEMMA GoOnFacts ==
  ASSUME IInv, NEW p \in Callers, NEW at \in Places, at # "use",
         call[p].at # "idle", GoOn(p, at)
  PROVE  \E c \in CallType :
           /\ call' = [call EXCEPT ![p] = c]
           /\ c.at = at
           /\ c.fd = IF at = "idle" THEN Null ELSE call[p].fd
<1> DEFINE c == IF at = "idle" THEN Idle ELSE [call[p] EXCEPT !.at = at]
<1>1. call' = [call EXCEPT ![p] = c]
  BY DEF GoOn
<1>2. call[p] \in CallType
  BY DEF IInv, TypeOK, CallType
<1>3. c \in CallType /\ c.at = at /\ c.fd = IF at = "idle" THEN Null ELSE call[p].fd
  BY <1>2, IdleFacts DEF CallType
<1>4. QED
  BY <1>1, <1>3

\* A caller moves on and contexts_ stays: what remains to be shown is that the
\* heap still has its type and the contexts the table refers to.
LEMMA MovesOn ==
  ASSUME IInv, NEW p \in Callers, NEW at \in Places, at # "use",
         call[p].at # "idle", GoOn(p, at),
         UNCHANGED hook, UNCHANGED contexts,
         nonblock' \in [Fds -> BOOLEAN],
         kind' \in [Fds -> {"free", "socket", "file"}],
         \A fd \in Fds : kind'[fd] # kind[fd] => fd = call[p].fd /\ at = "idle",
         heap' \in [Ptrs -> FdContexts \cup {Freed}],
         \A a \in Ptrs : heap[a] # Freed => heap'[a] # Freed
  PROVE  IInv'
<1>1. PICK c \in CallType :
        /\ call' = [call EXCEPT ![p] = c]
        /\ c.at = at
        /\ c.fd = IF at = "idle" THEN Null ELSE call[p].fd
  BY GoOnFacts
<1>2. call[p].fd \in Fds
  BY DEF IInv, OneCaller
<1>3. /\ call' \in [Callers -> CallType]
      /\ OneCaller'
      /\ \A q \in Callers : call'[q] = IF q = p THEN c ELSE call[q]
  BY <1>1, <1>2, CallChange
<1>4. TypeOK'
  BY <1>3 DEF IInv, TypeOK, CallType
<1>5. TableOwns'
  BY DEF IInv, TypeOK, TableOwns
<1>6. PointerCurrent'
  BY <1>1, <1>3 DEF IInv, PointerCurrent
<1>7. BusyIsOpen'
  <2> SUFFICES ASSUME NEW q \in Callers, call'[q].fd \in Fds
               PROVE  kind'[call'[q].fd] # "free"
    BY DEF BusyIsOpen
  <2>1. CASE q = p
    BY <2>1, <1>1, <1>3, FdAssumption DEF IInv, BusyIsOpen
  <2>2. CASE q # p
    <3>1. call'[q] = call[q] /\ call[q].fd # call[p].fd
      BY <2>2, <1>2, <1>3, FdAssumption DEF IInv, OneCaller
    <3>2. QED
      BY <3>1 DEF IInv, BusyIsOpen
  <2>3. QED
    BY <2>1, <2>2
<1>8. QED
  BY <1>3, <1>4, <1>5, <1>6, <1>7 DEF IInv

\* A caller starts a call on an open descriptor that nobody uses.
LEMMA Starts ==
  ASSUME IInv, NEW p \in Callers, NEW c \in CallType,
         call' = [call EXCEPT ![p] = c],
         c.at # "idle" => c.fd \in Fds,
         c.fd = Null \/ (c.fd \in Fds /\ ~Busy(c.fd) /\ kind'[c.fd] # "free"),
         c.at = "use" => c.ptr = contexts[c.fd] /\ c.op # "none",
         UNCHANGED hook, UNCHANGED contexts, UNCHANGED heap,
         nonblock' \in [Fds -> BOOLEAN],
         kind' \in [Fds -> {"free", "socket", "file"}],
         \A fd \in Fds : kind[fd] # "free" => kind'[fd] # "free"
  PROVE  IInv'
<1>1. /\ call' \in [Callers -> CallType]
      /\ OneCaller'
      /\ \A q \in Callers : call'[q] = IF q = p THEN c ELSE call[q]
  BY CallChange
<1>2. TypeOK'
  BY <1>1 DEF IInv, TypeOK, CallType
<1>3. TableOwns'
  BY DEF IInv, TableOwns
<1>4. PointerCurrent'
  BY <1>1 DEF IInv, PointerCurrent
<1>5. BusyIsOpen'
  BY <1>1, FdAssumption DEF IInv, BusyIsOpen
<1>6. QED
  BY <1>1, <1>2, <1>3, <1>4, <1>5 DEF IInv

\* A number the kernel may hand out is not being worked on.
LEMMA FreeIsIdle ==
  ASSUME IInv, NEW fd \in Fds, kind[fd] = "free"
  PROVE  ~Busy(fd)
  BY DEF IInv, BusyIsOpen, Busy

\* socket and accept start on a number that nobody works on.
LEMMA SocketSysInv ==
  ASSUME IInv, NEW p \in Callers, SocketSys(p)
  PROVE  IInv'
<1>1. PICK fd \in Fds :
        /\ kind[fd] = "free"
        /\ kind' = [kind EXCEPT ![fd] = "socket"]
        /\ nonblock' = [nonblock EXCEPT ![fd] = hook]
        /\ call' = [call EXCEPT ![p] = IF hook THEN [Idle EXCEPT !.at = "set", !.fd = fd] ELSE Idle]
  BY DEF SocketSys
<1> DEFINE c == IF hook THEN [Idle EXCEPT !.at = "set", !.fd = fd] ELSE Idle
<1>2. c \in CallType /\ c.at # "use" /\ c.at \in {"idle", "set"}
      /\ (c.at # "idle" => c.fd = fd) /\ (c.fd = Null \/ c.fd = fd)
  BY IdleFacts DEF CallType, Places, Idle
<1>3. ~Busy(fd) /\ kind'[fd] # "free"
  BY <1>1, FreeIsIdle DEF IInv, TypeOK
<1>4. /\ nonblock' \in [Fds -> BOOLEAN]
      /\ kind' \in [Fds -> {"free", "socket", "file"}]
      /\ \A g \in Fds : kind[g] # "free" => kind'[g] # "free"
  BY <1>1 DEF IInv, TypeOK
<1>5. UNCHANGED hook /\ UNCHANGED contexts /\ UNCHANGED heap
  BY DEF SocketSys
<1>6. QED
  BY <1>1, <1>2, <1>3, <1>4, <1>5, Starts

\* The new context is at an address no pointer of the table refers to.
LEMMA SetContextInv ==
  ASSUME IInv, NEW p \in Callers, SetContext(p)
  PROVE  IInv'
<1>1. call[p].at = "set" /\ UNCHANGED <<hook, kind, nonblock>>
      /\ call' = [call EXCEPT ![p] = Idle]
  BY DEF SetContext
<1>2. PICK a \in Ptrs :
        /\ heap[a] = Freed
        /\ heap' = [heap EXCEPT ![a] = NewSocket]
        /\ contexts' = [contexts EXCEPT ![call[p].fd] = a]
  BY DEF SetContext
<1>3. call[p].fd \in Fds
  BY <1>1 DEF IInv, OneCaller
<1>4. NewSocket \in FdContexts /\ NewSocket # Freed
  <2>1. NewSocket \in FdContexts
    BY DEF NewSocket, FdContexts
  <2>2. QED
    BY <2>1, FreedAssumption
<1>5. /\ call' \in [Callers -> CallType]
      /\ OneCaller'
      /\ \A q \in Callers : call'[q] = IF q = p THEN Idle ELSE call[q]
  BY <1>1, IdleFacts, CallChange
<1>6. TypeOK'
  BY <1>1, <1>2, <1>4, <1>5 DEF IInv, TypeOK, CallType
<1>7. TableOwns'
  BY <1>2, <1>3, <1>4, FdAssumption DEF IInv, TypeOK, TableOwns
<1>8. PointerCurrent'
  <2> SUFFICES ASSUME NEW q \in Callers, call'[q].at = "use"
               PROVE  call'[q].ptr = contexts'[call'[q].fd] /\ call'[q].op # "none"
    BY DEF PointerCurrent
  <2>1. q # p /\ call'[q] = call[q]
    BY <1>5, IdleFacts
  <2>2. call[q].fd \in Fds /\ call[q].fd # call[p].fd
    BY <2>1, <1>3, FdAssumption DEF IInv, OneCaller
  <2>3. QED
    BY <2>1, <2>2, <1>2, <1>3 DEF IInv, PointerCurrent, TypeOK
<1>9. BusyIsOpen'
  BY <1>1, <1>5, IdleFacts, FdAssumption DEF IInv, BusyIsOpen
<1>10. QED
  BY <1>5, <1>6, <1>7, <1>8, <1>9 DEF IInv

\* The context deleted is the one in the slot of p's descriptor, to which no
\* other caller holds a pointer.
LEMMA DelContextInv ==
  ASSUME IInv, NEW p \in Callers, DelContext(p)
  PROVE  IInv'
<1> DEFINE a == contexts[call[p].fd]
<1>1. call[p].at = "del" /\ UNCHANGED <<hook, kind, nonblock>> /\ GoOn(p, "close")
  BY DEF DelContext, CloseNext
<1>2. /\ heap' = IF a = Null THEN heap ELSE [heap EXCEPT ![a] = Freed]
      /\ contexts' = [contexts EXCEPT ![call[p].fd] = Null]
  BY DEF DelContext
<1>3. call[p].fd \in Fds
  BY <1>1 DEF IInv, OneCaller
<1>4. PICK c \in CallType :
        call' = [call EXCEPT ![p] = c] /\ c.at = "close" /\ c.fd = call[p].fd
  <2>1. "close" \in Places
    BY DEF Places
  <2>2. QED
    BY <1>1, <2>1, GoOnFacts
<1>5. /\ call' \in [Callers -> CallType]
      /\ OneCaller'
      /\ \A q \in Callers : call'[q] = IF q = p THEN c ELSE call[q]
  BY <1>3, <1>4, CallChange
<1>6. TypeOK'
  BY <1>1, <1>2, <1>3, <1>5 DEF IInv, TypeOK, CallType
<1>7. TableOwns'
  BY <1>2, <1>3, FdAssumption DEF IInv, TypeOK, TableOwns
<1>8. PointerCurrent'
  <2> SUFFICES ASSUME NEW q \in Callers, call'[q].at = "use"
               PROVE  call'[q].ptr = contexts'[call'[q].fd] /\ call'[q].op # "none"
    BY DEF PointerCurrent
  <2>1. q # p /\ call'[q] = call[q]
    BY <1>4, <1>5
  <2>2. call[q].fd \in Fds /\ call[q].fd # call[p].fd
    BY <2>1, <1>3, FdAssumption DEF IInv, OneCaller
  <2>3. QED
    BY <2>1, <2>2, <1>2, <1>3 DEF IInv, PointerCurrent, TypeOK
<1>9. BusyIsOpen'
  BY <1>1, <1>4, <1>5 DEF IInv, BusyIsOpen
<1>10. QED
  BY <1>5, <1>6, <1>7, <1>8, <1>9 DEF IInv

\* The calls that end by changing a field of the context they point to.
LEMMA SettersInv ==
  ASSUME IInv, NEW p \in Callers, SetFlags(p) \/ Ioctl(p) \/ SetTimeout(p)
  PROVE  IInv'
<1>1. /\ call[p].at = "use" /\ GoOn(p, "idle")
      /\ UNCHANGED <<hook, kind, contexts>>
  BY DEF SetFlags, Ioctl, SetTimeout, Uses
<1>2. call[p] \in CallType /\ call[p].fd \in Fds
  BY <1>1 DEF IInv, TypeOK, CallType, OneCaller
<1>3. call[p].ptr # Null => call[p].ptr \in Ptrs /\ heap[call[p].ptr] \in FdContexts
  BY <1>1, <1>2, FdAssumption DEF IInv, TypeOK, TableOwns, PointerCurrent, CallType
<1>4. ASSUME NEW b \in BOOLEAN PROVE [nonblock EXCEPT ![call[p].fd] = b] \in [Fds -> BOOLEAN]
  BY <1>2 DEF IInv, TypeOK
<1>5. ASSUME NEW v \in FdContexts, call[p].ptr # Null,
             heap' = [heap EXCEPT ![call[p].ptr] = v]
      PROVE  /\ heap' \in [Ptrs -> FdContexts \cup {Freed}]
             /\ \A a \in Ptrs : heap[a] # Freed => heap'[a] # Freed
  BY <1>3, <1>5, FreedAssumption DEF IInv, TypeOK
<1>6. ASSUME NEW b \in BOOLEAN, call[p].ptr # Null, SetUser(p, b)
      PROVE  /\ heap' \in [Ptrs -> FdContexts \cup {Freed}]
             /\ \A a \in Ptrs : heap[a] # Freed => heap'[a] # Freed
  <2> DEFINE v == [heap[call[p].ptr] EXCEPT !.user = b]
  <2>1. v \in FdContexts
    BY <1>3, <1>6 DEF FdContexts
  <2>2. heap' = [heap EXCEPT ![call[p].ptr] = v]
    BY <1>6 DEF SetUser
  <2>3. QED
    BY <1>5, <1>6, <2>1, <2>2
<1>7. UNCHANGED heap => /\ heap' \in [Ptrs -> FdContexts \cup {Freed}]
                        /\ \A a \in Ptrs : heap[a] # Freed => heap'[a] # Freed
  BY DEF IInv, TypeOK
<1>8. /\ nonblock' \in [Fds -> BOOLEAN]
      /\ heap' \in [Ptrs -> FdContexts \cup {Freed}]
      /\ \A a \in Ptrs : heap[a] # Freed => heap'[a] # Freed
  <2>1. CASE SetFlags(p)
    <3>1. PICK b \in BOOLEAN :
            IF call[p].ptr = Null \/ IsSocket(p)
            THEN SetKernel(p, b) /\ UNCHANGED heap
            ELSE SetUser(p, b) /\ SetKernel(p, TRUE)
      BY <2>1, <1>2 DEF SetFlags, CallType
    <3>2. nonblock' \in [Fds -> BOOLEAN]
      BY <3>1, <1>4 DEF SetKernel
    <3>3. QED
      BY <3>1, <3>2, <1>6, <1>7
  <2>2. CASE Ioctl(p)
    <3> DEFINE on == call[p].op = "ioctl" \/ call[p].arg
    <3>1. on \in BOOLEAN
      BY <1>2 DEF CallType
    <3>2. /\ IF IsSocket(p) THEN SetUser(p, on) ELSE UNCHANGED heap
          /\ SetKernel(p, on)
      BY <2>2 DEF Ioctl
    <3>3. nonblock' \in [Fds -> BOOLEAN]
      BY <3>1, <3>2, <1>4 DEF SetKernel
    <3>4. IsSocket(p) => call[p].ptr # Null
      BY DEF IsSocket
    <3> HIDE DEF on
    <3>5. QED
      BY <3>1, <3>2, <3>3, <3>4, <1>6, <1>7
  <2>3. CASE SetTimeout(p)
    <3>1. nonblock' \in [Fds -> BOOLEAN]
      BY <2>3 DEF SetTimeout, IInv, TypeOK
    <3>2. CASE call[p].ptr = Null
      BY <3>1, <3>2, <2>3, <1>7 DEF SetTimeout
    <3>3. CASE call[p].ptr # Null
      <4> DEFINE h == heap[call[p].ptr]
      <4> DEFINE v == [h EXCEPT !.timeouts = h.timeouts \cup {call[p].op}]
      <4>1. v \in FdContexts
        BY <3>3, <2>3, <1>3 DEF FdContexts, SetTimeout, Uses
      <4>2. heap' = [heap EXCEPT ![call[p].ptr] = v]
        BY <3>3, <2>3 DEF SetTimeout
      <4>3. QED
        BY <3>1, <3>3, <4>1, <4>2, <1>5
    <3>4. QED
      BY <3>2, <3>3
  <2>4. QED
    BY <2>1, <2>2, <2>3
<1>9. kind' \in [Fds -> {"free", "socket", "file"}] /\ "idle" \in Places
  BY <1>1 DEF IInv, TypeOK, Places
<1>10. QED
  BY <1>1, <1>8, <1>9, MovesOn

\* open gets a number nobody works on, and no context.
LEMMA OpenFileInv ==
  ASSUME IInv, NEW p \in Callers, OpenFile(p)
  PROVE  IInv'
<1>1. PICK fd \in Fds :
        /\ kind[fd] = "free"
        /\ kind' = [kind EXCEPT ![fd] = "file"]
        /\ nonblock' = [nonblock EXCEPT ![fd] = FALSE]
  BY DEF OpenFile
<1>2. call[p] = Idle /\ UNCHANGED <<hook, contexts, heap, call>>
  BY DEF OpenFile
<1>3. call' = [call EXCEPT ![p] = Idle]
  BY <1>2 DEF IInv, TypeOK
<1>4. /\ nonblock' \in [Fds -> BOOLEAN]
      /\ kind' \in [Fds -> {"free", "socket", "file"}]
      /\ \A g \in Fds : kind[g] # "free" => kind'[g] # "free"
  BY <1>1 DEF IInv, TypeOK
<1>5. QED
  BY <1>2, <1>3, <1>4, IdleFacts, Starts

\* close starts on a descriptor nobody works on.
LEMMA CloseInv ==
  ASSUME IInv, NEW p \in Callers, Close(p)
  PROVE  IInv'
<1>1. UNCHANGED <<hook, kind, nonblock, contexts, heap>>
  BY DEF Close
<1>2. PICK fd \in Fds :
        /\ kind[fd] # "free" /\ ~Busy(fd)
        /\ call' = [call EXCEPT ![p] = [Idle EXCEPT !.fd = fd,
                     !.at = IF hook /\ contexts[fd] # Null THEN "del" ELSE "close"]]
  BY DEF Close, CloseNext
<1> DEFINE c == [Idle EXCEPT !.fd = fd,
                   !.at = IF hook /\ contexts[fd] # Null THEN "del" ELSE "close"]
<1>3. c \in CallType /\ c.at \in {"del", "close"} /\ c.fd = fd
  BY DEF CallType, Places, Idle
<1>4. nonblock' \in [Fds -> BOOLEAN] /\ kind' \in [Fds -> {"free", "socket", "file"}]
  BY <1>1 DEF IInv, TypeOK
<1> HIDE DEF c
<1>5. call' = [call EXCEPT ![p] = c]
  BY <1>2 DEF c
<1>6. QED
  BY <1>1, <1>2, <1>3, <1>4, <1>5, Starts

\* getContext returns what is in the table.
LEMMA GetContextInv ==
  ASSUME IInv, NEW p \in Callers, GetContext(p)
  PROVE  IInv'
<1>1. UNCHANGED <<hook, kind, nonblock, contexts, heap>>
  BY DEF GetContext
<1>2. PICK fd \in Fds :
        /\ kind[fd] # "free" /\ ~Busy(fd)
        /\ \E c \in Calls(fd) :
             call' = [call EXCEPT ![p] = [at |-> "use", fd |-> fd, ptr |-> contexts[fd],
                                          op |-> c[1], arg |-> c[2]]]
  BY DEF GetContext
<1>3. PICK k \in Calls(fd) :
        call' = [call EXCEPT ![p] = [at |-> "use", fd |-> fd, ptr |-> contexts[fd],
                                     op |-> k[1], arg |-> k[2]]]
  BY <1>2
<1>4. k[1] \in FlagCalls \cup Timeouts \cup {"io"} /\ k[2] \in BOOLEAN
  <2>1. \/ k = <<"io", FALSE>>
        \/ k \in Timeouts \X {TRUE}
        \/ k \in FlagCalls \X BOOLEAN
    BY FdAssumption DEF Calls
  <2>2. CASE k = <<"io", FALSE>>
    BY <2>2
  <2>3. CASE k \in Timeouts \X {TRUE}
    BY <2>3
  <2>4. CASE k \in FlagCalls \X BOOLEAN
    BY <2>4
  <2>5. QED
    BY <2>1, <2>2, <2>3, <2>4
<1>5. k[1] # "none"
  BY <1>4 DEF FlagCalls, Timeouts
<1> DEFINE c == [at |-> "use", fd |-> fd, ptr |-> contexts[fd], op |-> k[1], arg |-> k[2]]
<1>6. c \in CallType /\ c.at = "use" /\ c.fd = fd /\ c.ptr = contexts[fd] /\ c.op # "none"
  BY <1>4, <1>5 DEF CallType, Places, IInv, TypeOK
<1>7. nonblock' \in [Fds -> BOOLEAN] /\ kind' \in [Fds -> {"free", "socket", "file"}]
  BY <1>1 DEF IInv, TypeOK
<1>8. call' = [call EXCEPT ![p] = c]
  BY <1>3
<1> HIDE DEF c
<1>9. QED
  BY <1>1, <1>2, <1>6, <1>7, <1>8, Starts

\* ioInner and what it calls leave the contexts alone.
LEMMA IoInnerInv ==
  ASSUME IInv, NEW p \in Callers, IoInner(p) \/ ManagedDone(p)
  PROVE  IInv'
<1>1. call[p].at # "idle" /\ UNCHANGED <<hook, kind, nonblock, contexts, heap>>
  BY DEF IoInner, ManagedDone, Uses
<1>2. PICK at \in {"managed", "idle"} : GoOn(p, at)
  BY DEF IoInner, ManagedDone
<1>3. at \in Places /\ at # "use"
  BY DEF Places
<1>4. /\ nonblock' \in [Fds -> BOOLEAN]
      /\ kind' \in [Fds -> {"free", "socket", "file"}]
      /\ heap' \in [Ptrs -> FdContexts \cup {Freed}]
  BY <1>1 DEF IInv, TypeOK
<1>5. QED
  BY <1>1, <1>2, <1>3, <1>4, MovesOn

\* close_sys frees a number that only the closing caller works on.
LEMMA CloseSysInv ==
  ASSUME IInv, NEW p \in Callers, CloseSys(p)
  PROVE  IInv'
<1>1. /\ call[p].at = "close" /\ GoOn(p, "idle")
      /\ kind' = [kind EXCEPT ![call[p].fd] = "free"]
      /\ UNCHANGED <<hook, nonblock, contexts, heap>>
  BY DEF CloseSys, CloseNext
<1>2. /\ nonblock' \in [Fds -> BOOLEAN]
      /\ kind' \in [Fds -> {"free", "socket", "file"}]
      /\ heap' \in [Ptrs -> FdContexts \cup {Freed}]
      /\ \A fd \in Fds : kind'[fd] # kind[fd] => fd = call[p].fd
  BY <1>1 DEF IInv, TypeOK
<1>3. "idle" \in Places
  BY DEF Places
<1>4. QED
  BY <1>1, <1>2, <1>3, MovesOn

\* setHookEnabled changes nothing but the switch.
LEMMA SetHookEnabledInv ==
  ASSUME IInv, SetHookEnabled
  PROVE  IInv'
  BY DEF SetHookEnabled, IInv, TypeOK, TableOwns, OneCaller, PointerCurrent, BusyIsOpen

\* Every step preserves the invariant.
LEMMA StepInv == IInv /\ [Next]_vars => IInv'
<1> SUFFICES ASSUME IInv, [Next]_vars PROVE IInv'
  OBVIOUS
<1>1. CASE UNCHANGED vars
  BY <1>1 DEF vars, IInv, TypeOK, TableOwns, OneCaller, PointerCurrent, BusyIsOpen
<1>2. CASE SetHookEnabled
  BY <1>2, SetHookEnabledInv
<1>3. ASSUME NEW p \in Callers,
             \/ SocketSys(p) \/ SetContext(p) \/ OpenFile(p)
             \/ Close(p) \/ DelContext(p) \/ CloseSys(p)
             \/ GetContext(p) \/ IoInner(p) \/ ManagedDone(p)
             \/ SetFlags(p) \/ Ioctl(p) \/ SetTimeout(p)
      PROVE  IInv'
  BY <1>3, SocketSysInv, SetContextInv, OpenFileInv, CloseInv, DelContextInv,
     CloseSysInv, GetContextInv, IoInnerInv, SettersInv
<1>4. QED
  BY <1>1, <1>2, <1>3 DEF Next

\* The table, the heap and the callers' locals keep their types, whoever opens,
\* uses and closes descriptors at the same time.
THEOREM FdTypeCorrect == Spec => []TypeOK
<1>1. IInv => TypeOK
  BY DEF IInv
<1>2. QED
  BY InitInv, StepInv, <1>1, PTL DEF Spec

\* A pointer returned by getContext points to a live context until its caller
\* is done with it, though the lock is released in between.
THEOREM ContextsOutliveUse == Spec => []NoUseAfterFree
<1>1. IInv => NoUseAfterFree
  BY FdAssumption DEF IInv, OneCaller, PointerCurrent, TableOwns, NoUseAfterFree
<1>2. QED
  BY InitInv, StepInv, <1>1, PTL DEF Spec

-----------------------------------------------------------------------------
(* Contexts and hooked sockets.                                            *)

Wishes == [hooked : BOOLEAN, user : BOOLEAN, timeouts : SUBSET Timeouts]

\* A socket is hooked exactly when hooking is on: it is not switched while a
\* descriptor is open.
HookSteady == \A fd \in Fds : kind[fd] = "socket" => want[fd].hooked = hook

\* A context in the table belongs to an open hooked socket.
HeldByHooked ==
  \A fd \in Fds : contexts[fd] # Null => kind[fd] = "socket" /\ want[fd].hooked

\* A hooked socket is without context only while a caller is between the
\* system call and the table: socket before setContext, close after delContext.
MissingInCall ==
  \A fd \in Fds : kind[fd] = "socket" /\ want[fd].hooked /\ contexts[fd] = Null =>
    \E p \in Callers : call[p].fd = fd /\ call[p].at \in {"set", "close"}

\* What a caller's place in its call says about the slot of its descriptor.
SlotByPlace ==
  \A p \in Callers :
    /\ call[p].at \in {"set", "close"} => contexts[call[p].fd] = Null
    /\ call[p].at = "set" => kind[call[p].fd] = "socket" /\ want[call[p].fd].hooked
    /\ call[p].at = "managed" => contexts[call[p].fd] # Null

\* An allocated context is in the table.
NoneLost == \A a \in Ptrs : heap[a] # Freed => \E fd \in Fds : contexts[fd] = a

JInv ==
  /\ IInv /\ want \in [Fds -> Wishes]
  /\ HookSteady /\ HeldByHooked /\ MissingInCall /\ SlotByPlace /\ NoneLost

\* The flags of sockets are changed only by calls that keep the context in
\* step: co_ioctl, and the ioctl hook, which always switches O_NONBLOCK on.
FlagsKept == SocketFlags \subseteq ({"co_ioctl"} \X BOOLEAN) \cup {<<"ioctl", TRUE>>}

\* A context in the table says what its socket's users asked for.
ContextsTrue ==
  \A fd \in Fds : contexts[fd] # Null =>
    heap[contexts[fd]] = [is_socket |-> TRUE, user |-> want[fd].user,
                          timeouts |-> want[fd].timeouts]

\* A flag call under way on a socket is one of SocketFlags.
FlagsOfSockets ==
  \A p \in Callers : call[p].at = "use" /\ kind[call[p].fd] = "socket" /\ call[p].op \in FlagCalls =>
    <<call[p].op, call[p].arg>> \in SocketFlags

\* Nothing has been asked of a socket whose context is about to be made.
SetIsFresh ==
  \A p \in Callers : call[p].at = "set" =>
    want[call[p].fd].user = FALSE /\ want[call[p].fd].timeouts = {}

KInv == JInv /\ ContextsTrue /\ FlagsOfSockets /\ SetIsFresh

\* Hooked sockets are non-blocking for the kernel.
HookedNonblock == \A fd \in Fds : kind[fd] = "socket" /\ want[fd].hooked => nonblock[fd]

\* With no descriptor open there is nothing to correspond.
LEMMA InitJ == Init => JInv
<1> SUFFICES ASSUME Init PROVE JInv
  OBVIOUS
<1>1. IInv
  BY InitInv
<1>2. want \in [Fds -> Wishes]
  BY DEF Init, Wishes
<1>3. HookSteady /\ HeldByHooked /\ MissingInCall /\ SlotByPlace /\ NoneLost
  BY IdleFacts DEF Init, HookSteady, HeldByHooked, MissingInCall, SlotByPlace, NoneLost
<1>4. QED
  BY <1>1, <1>2, <1>3 DEF JInv

\* A call that leaves the kernel and the table alone keeps the
\* correspondence, if it reaches close_sys only without a context.
LEMMA TableKept ==
  ASSUME JInv, IInv', NEW p \in Callers, NEW c \in CallType,
         call' = [call EXCEPT ![p] = c],
         call[p].at \notin {"set", "close"}, c.at # "set",
         c.at = "close" => contexts[c.fd] = Null,
         c.at = "managed" => contexts[c.fd] # Null,
         UNCHANGED <<hook, kind, contexts>>,
         want' \in [Fds -> Wishes],
         \A fd \in Fds : want'[fd].hooked = want[fd].hooked,
         \A a \in Ptrs : heap'[a] # Freed => heap[a] # Freed
  PROVE  JInv'
<1>1. \A q \in Callers : call'[q] = IF q = p THEN c ELSE call[q]
  BY DEF JInv, IInv, TypeOK
<1>2. HookSteady' /\ HeldByHooked' /\ NoneLost'
  BY DEF JInv, HookSteady, HeldByHooked, NoneLost
<1>3. MissingInCall'
  BY <1>1 DEF JInv, MissingInCall
<1>4. SlotByPlace'
  BY <1>1 DEF JInv, SlotByPlace, IInv, OneCaller
<1>5. QED
  BY <1>2, <1>3, <1>4 DEF JInv

\* A new hooked socket has no context yet, and its caller is about to set it.
LEMMA SocketSysJ ==
  ASSUME JInv, NEW p \in Callers, SocketSys(p)
  PROVE  JInv'
<1>1. PICK fd \in Fds :
        /\ kind[fd] = "free"
        /\ kind' = [kind EXCEPT ![fd] = "socket"]
        /\ want' = [want EXCEPT ![fd] = [hooked |-> hook, user |-> FALSE, timeouts |-> {}]]
        /\ call' = [call EXCEPT ![p] = IF hook THEN [Idle EXCEPT !.at = "set", !.fd = fd] ELSE Idle]
  BY DEF SocketSys
<1> DEFINE c == IF hook THEN [Idle EXCEPT !.at = "set", !.fd = fd] ELSE Idle
<1>2. call[p] = Idle /\ UNCHANGED <<hook, contexts, heap>>
  BY DEF SocketSys
<1>3. IInv'
  BY SocketSysInv DEF JInv
<1>4. \A q \in Callers : call'[q] = IF q = p THEN c ELSE call[q]
  BY <1>1 DEF JInv, IInv, TypeOK
<1>5. /\ hook => c.at = "set" /\ c.fd = fd
      /\ ~hook => c.at = "idle" /\ c.fd = Null
  BY IdleFacts DEF Idle
<1> HIDE DEF c
<1>6. contexts[fd] = Null /\ ~Busy(fd)
  BY <1>1, FreeIsIdle DEF JInv, HeldByHooked
<1>7. hook \in BOOLEAN /\ fd # Null
  BY FdAssumption DEF JInv, IInv, TypeOK
<1>8. want' \in [Fds -> Wishes] /\ want'[fd].hooked = hook
      /\ \A g \in Fds \ {fd} : want'[g] = want[g]
  BY <1>1, <1>7 DEF JInv, Wishes
<1>9. kind'[fd] = "socket" /\ \A g \in Fds \ {fd} : kind'[g] = kind[g]
  BY <1>1 DEF JInv, IInv, TypeOK
<1>10. HookSteady'
  BY <1>2, <1>8, <1>9 DEF JInv, HookSteady
<1>11. HeldByHooked'
  BY <1>2, <1>6, <1>8, <1>9 DEF JInv, HeldByHooked
<1>12. MissingInCall'
  <2> SUFFICES ASSUME NEW g \in Fds, kind'[g] = "socket", want'[g].hooked, contexts'[g] = Null
               PROVE  \E q \in Callers : call'[q].fd = g /\ call'[q].at \in {"set", "close"}
    BY DEF MissingInCall
  <2>1. CASE g = fd
    BY <2>1, <1>4, <1>5, <1>8
  <2>2. CASE g # fd
    <3>1. PICK q \in Callers : call[q].fd = g /\ call[q].at \in {"set", "close"}
      BY <2>2, <1>2, <1>8, <1>9 DEF JInv, MissingInCall
    <3>2. q # p
      BY <3>1, <1>2, IdleFacts
    <3>3. QED
      BY <3>1, <3>2, <1>4
  <2>3. QED
    BY <2>1, <2>2
<1>13. SlotByPlace'
  <2> SUFFICES ASSUME NEW q \in Callers
               PROVE  /\ call'[q].at \in {"set", "close"} => contexts'[call'[q].fd] = Null
                      /\ call'[q].at = "set" => kind'[call'[q].fd] = "socket" /\ want'[call'[q].fd].hooked
                      /\ call'[q].at = "managed" => contexts'[call'[q].fd] # Null
    BY DEF SlotByPlace
  <2>1. CASE q = p
    BY <2>1, <1>2, <1>4, <1>5, <1>6, <1>8, <1>9
  <2>2. CASE q # p
    <3>1. call'[q] = call[q] /\ call[q].fd # fd /\ (call[q].at # "idle" => call[q].fd \in Fds)
      BY <2>2, <1>4, <1>6 DEF Busy, JInv, IInv, OneCaller
    <3>2. QED
      BY <3>1, <1>2, <1>8, <1>9 DEF JInv, SlotByPlace
  <2>3. QED
    BY <2>1, <2>2
<1>14. NoneLost'
  BY <1>2 DEF JInv, NoneLost
<1>15. QED
  BY <1>3, <1>8, <1>10, <1>11, <1>12, <1>13, <1>14 DEF JInv

\* setContext fills the empty slot of a hooked socket, with a fresh address.
LEMMA SetContextJ ==
  ASSUME JInv, NEW p \in Callers, SetContext(p)
  PROVE  JInv'
<1>1. call[p].at = "set" /\ UNCHANGED <<hook, kind, nonblock, want>>
      /\ call' = [call EXCEPT ![p] = Idle]
  BY DEF SetContext
<1>2. PICK a \in Ptrs :
        /\ heap[a] = Freed
        /\ heap' = [heap EXCEPT ![a] = NewSocket]
        /\ contexts' = [contexts EXCEPT ![call[p].fd] = a]
  BY DEF SetContext
<1> DEFINE fd == call[p].fd
<1>3. fd \in Fds /\ contexts[fd] = Null /\ kind[fd] = "socket" /\ want[fd].hooked
  BY <1>1 DEF JInv, IInv, OneCaller, SlotByPlace
<1>4. IInv'
  BY SetContextInv DEF JInv
<1>5. contexts'[fd] = a /\ a # Null /\ \A g \in Fds \ {fd} : contexts'[g] = contexts[g]
  BY <1>2, <1>3, FdAssumption DEF JInv, IInv, TypeOK
<1>6. \A q \in Callers : call'[q] = IF q = p THEN Idle ELSE call[q]
  BY <1>1 DEF JInv, IInv, TypeOK
<1>7. HookSteady'
  BY <1>1 DEF JInv, HookSteady
<1>8. HeldByHooked'
  BY <1>1, <1>3, <1>5 DEF JInv, HeldByHooked
<1>9. MissingInCall'
  BY <1>1, <1>3, <1>5, <1>6 DEF JInv, MissingInCall
<1>10. \A q \in Callers : q # p /\ call[q].at # "idle" => call[q].fd \in Fds \ {fd}
  BY <1>3, FdAssumption DEF JInv, IInv, OneCaller
<1> HIDE DEF fd
<1>11. SlotByPlace'
  BY <1>1, <1>5, <1>6, <1>10, IdleFacts DEF JInv, SlotByPlace
<1>12. NoneLost'
  <2> SUFFICES ASSUME NEW b \in Ptrs, heap'[b] # Freed
               PROVE  \E g \in Fds : contexts'[g] = b
    BY DEF NoneLost
  <2>1. CASE b = a
    BY <2>1, <1>3, <1>5
  <2>2. CASE b # a
    <3>1. heap[b] # Freed /\ b # Null
      BY <2>2, <1>2, FdAssumption DEF JInv, IInv, TypeOK
    <3>2. PICK g \in Fds : contexts[g] = b
      BY <3>1 DEF JInv, NoneLost
    <3>3. QED
      BY <3>1, <3>2, <1>3, <1>5
  <2>3. QED
    BY <2>1, <2>2
<1>13. QED
  BY <1>1, <1>4, <1>7, <1>8, <1>9, <1>11, <1>12 DEF JInv

\* open gets a number without a context: none was left behind.
LEMMA OpenFileJ ==
  ASSUME JInv, NEW p \in Callers, OpenFile(p)
  PROVE  JInv'
<1>1. PICK fd \in Fds :
        /\ kind[fd] = "free"
        /\ kind' = [kind EXCEPT ![fd] = "file"]
        /\ want' = [want EXCEPT ![fd] = [hooked |-> FALSE, user |-> FALSE, timeouts |-> {}]]
  BY DEF OpenFile
<1>2. UNCHANGED <<hook, contexts, heap, call>>
  BY DEF OpenFile
<1>3. IInv'
  BY OpenFileInv DEF JInv
<1>4. contexts[fd] = Null /\ ~Busy(fd)
  BY <1>1, FreeIsIdle DEF JInv, HeldByHooked
<1>5. want' \in [Fds -> Wishes] /\ \A g \in Fds \ {fd} : want'[g] = want[g]
  BY <1>1 DEF JInv, Wishes
<1>6. kind'[fd] = "file" /\ \A g \in Fds \ {fd} : kind'[g] = kind[g]
  BY <1>1 DEF JInv, IInv, TypeOK
<1>7. HookSteady' /\ HeldByHooked' /\ NoneLost'
  BY <1>2, <1>4, <1>5, <1>6 DEF JInv, HookSteady, HeldByHooked, NoneLost
<1>8. MissingInCall'
  BY <1>2, <1>5, <1>6 DEF JInv, MissingInCall
<1>9. \A q \in Callers : call[q].at # "idle" => call[q].fd \in Fds \ {fd}
  BY <1>4 DEF Busy, JInv, IInv, OneCaller
<1>10. SlotByPlace'
  BY <1>2, <1>5, <1>6, <1>9 DEF JInv, SlotByPlace
<1>11. QED
  BY <1>3, <1>5, <1>7, <1>8, <1>10 DEF JInv

\* close goes to close_sys directly only if there is no context: a hooked
\* socket has one and hooking is still on.
LEMMA CloseJ ==
  ASSUME JInv, NEW p \in Callers, Close(p)
  PROVE  JInv'
<1>1. call[p] = Idle /\ UNCHANGED <<hook, kind, nonblock, contexts, heap, want>>
  BY DEF Close
<1>2. PICK fd \in Fds :
        call' = [call EXCEPT ![p] = [Idle EXCEPT !.fd = fd,
                  !.at = IF hook /\ contexts[fd] # Null THEN "del" ELSE "close"]]
  BY DEF Close, CloseNext
<1> DEFINE c == [Idle EXCEPT !.fd = fd,
                   !.at = IF hook /\ contexts[fd] # Null THEN "del" ELSE "close"]
<1>3. c \in CallType /\ c.fd = fd
      /\ c.at = IF hook /\ contexts[fd] # Null THEN "del" ELSE "close"
  BY DEF CallType, Places, Idle
<1>4. call' = [call EXCEPT ![p] = c]
  BY <1>2
<1> HIDE DEF c
<1>5. c.at = "close" => contexts[fd] = Null
  BY <1>3 DEF JInv, HeldByHooked, HookSteady
<1>6. IInv'
  BY CloseInv DEF JInv
<1>7. want' \in [Fds -> Wishes]
  BY <1>1 DEF JInv
<1>8. QED
  BY <1>1, <1>3, <1>4, <1>5, <1>6, <1>7, IdleFacts, TableKept

\* delContext frees the context of the slot it empties, and close_sys follows.
LEMMA DelContextJ ==
  ASSUME JInv, NEW p \in Callers, DelContext(p)
  PROVE  JInv'
<1> DEFINE fd == call[p].fd
<1> DEFINE a == contexts[fd]
<1>1. call[p].at = "del" /\ UNCHANGED <<hook, kind, nonblock, want>> /\ GoOn(p, "close")
  BY DEF DelContext, CloseNext
<1>2. /\ heap' = IF a = Null THEN heap ELSE [heap EXCEPT ![a] = Freed]
      /\ contexts' = [contexts EXCEPT ![fd] = Null]
  BY DEF DelContext
<1>3. fd \in Fds /\ a \in Ptrs \cup {Null}
  BY <1>1 DEF JInv, IInv, OneCaller, TypeOK
<1>4. PICK c \in CallType :
        call' = [call EXCEPT ![p] = c] /\ c.at = "close" /\ c.fd = fd
  <2>1. "close" \in Places
    BY DEF Places
  <2>2. QED
    BY <1>1, <2>1, GoOnFacts DEF JInv
<1>5. \A q \in Callers : call'[q] = IF q = p THEN c ELSE call[q]
  BY <1>4 DEF JInv, IInv, TypeOK
<1>6. IInv'
  BY DelContextInv DEF JInv
<1>7. contexts'[fd] = Null /\ \A g \in Fds \ {fd} : contexts'[g] = contexts[g]
  BY <1>2, <1>3 DEF JInv, IInv, TypeOK
<1>8. HookSteady' /\ HeldByHooked'
  BY <1>1, <1>7 DEF JInv, HookSteady, HeldByHooked
<1>9. MissingInCall'
  <2> SUFFICES ASSUME NEW g \in Fds, kind'[g] = "socket", want'[g].hooked, contexts'[g] = Null
               PROVE  \E q \in Callers : call'[q].fd = g /\ call'[q].at \in {"set", "close"}
    BY DEF MissingInCall
  <2>1. CASE g = fd
    BY <2>1, <1>4, <1>5
  <2>2. CASE g # fd
    <3>1. PICK q \in Callers : call[q].fd = g /\ call[q].at \in {"set", "close"}
      BY <2>2, <1>1, <1>7 DEF JInv, MissingInCall
    <3>2. QED
      BY <3>1, <1>1, <1>5
  <2>3. QED
    BY <2>1, <2>2
<1>10. \A q \in Callers : q # p /\ call[q].at # "idle" => call[q].fd \in Fds \ {fd}
  BY <1>3, FdAssumption DEF JInv, IInv, OneCaller
<1>11. NoneLost'
  <2> SUFFICES ASSUME NEW b \in Ptrs, heap'[b] # Freed
               PROVE  \E g \in Fds : contexts'[g] = b
    BY DEF NoneLost
  <2>1. heap[b] # Freed /\ b # a
    BY <1>2, <1>3, FdAssumption DEF JInv, IInv, TypeOK
  <2>2. PICK g \in Fds : contexts[g] = b
    BY <2>1 DEF JInv, NoneLost
  <2>3. QED
    BY <2>1, <2>2, <1>7
<1> HIDE DEF fd, a
<1>12. SlotByPlace'
  BY <1>1, <1>4, <1>5, <1>7, <1>10 DEF JInv, SlotByPlace
<1>13. QED
  BY <1>1, <1>6, <1>8, <1>9, <1>11, <1>12 DEF JInv

\* close_sys frees a number whose slot is empty.
LEMMA CloseSysJ ==
  ASSUME JInv, NEW p \in Callers, CloseSys(p)
  PROVE  JInv'
<1> DEFINE fd == call[p].fd
<1>1. /\ call[p].at = "close" /\ GoOn(p, "idle")
      /\ kind' = [kind EXCEPT ![fd] = "free"]
      /\ UNCHANGED <<hook, nonblock, contexts, heap, want>>
  BY DEF CloseSys, CloseNext
<1>2. fd \in Fds /\ contexts[fd] = Null
  BY <1>1 DEF JInv, IInv, OneCaller, SlotByPlace
<1>3. IInv'
  BY CloseSysInv DEF JInv
<1>4. kind'[fd] = "free" /\ \A g \in Fds \ {fd} : kind'[g] = kind[g]
  BY <1>1, <1>2 DEF JInv, IInv, TypeOK
<1>5. \A q \in Callers : call'[q] = IF q = p THEN Idle ELSE call[q]
  BY <1>1 DEF GoOn, JInv, IInv, TypeOK
<1>6. HookSteady' /\ HeldByHooked' /\ NoneLost'
  BY <1>1, <1>2, <1>4 DEF JInv, HookSteady, HeldByHooked, NoneLost
<1>7. MissingInCall'
  BY <1>1, <1>4, <1>5 DEF JInv, MissingInCall
<1>8. \A q \in Callers : q # p /\ call[q].at # "idle" => call[q].fd \in Fds \ {fd}
  BY <1>2, FdAssumption DEF JInv, IInv, OneCaller
<1> HIDE DEF fd
<1>9. SlotByPlace'
  BY <1>1, <1>4, <1>5, <1>8, IdleFacts DEF JInv, SlotByPlace
<1>10. QED
  BY <1>1, <1>3, <1>6, <1>7, <1>9 DEF JInv

\* getContext only reads.
LEMMA GetContextJ ==
  ASSUME JInv, NEW p \in Callers, GetContext(p)
  PROVE  JInv'
<1>1. call[p] = Idle /\ UNCHANGED <<hook, kind, nonblock, contexts, heap, want>>
  BY DEF GetContext
<1>2. PICK fd \in Fds : \E k \in Calls(fd) :
        call' = [call EXCEPT ![p] = [at |-> "use", fd |-> fd, ptr |-> contexts[fd],
                                     op |-> k[1], arg |-> k[2]]]
  BY DEF GetContext
<1>3. PICK k \in Calls(fd) :
        call' = [call EXCEPT ![p] = [at |-> "use", fd |-> fd, ptr |-> contexts[fd],
                                     op |-> k[1], arg |-> k[2]]]
  BY <1>2
<1> DEFINE c == [at |-> "use", fd |-> fd, ptr |-> contexts[fd], op |-> k[1], arg |-> k[2]]
<1>4. IInv'
  BY GetContextInv DEF JInv
<1>5. c \in CallType /\ c.at = "use"
  <2>1. call'[p] = c /\ call'[p] \in CallType
    BY <1>3, <1>4 DEF JInv, IInv, TypeOK, CallType
  <2>2. QED
    BY <2>1
<1>6. want' \in [Fds -> Wishes] /\ call' = [call EXCEPT ![p] = c]
  BY <1>1, <1>3 DEF JInv
<1> HIDE DEF c
<1>7. QED
  BY <1>1, <1>4, <1>5, <1>6, IdleFacts, TableKept

\* ioInner takes its own way only with a context.
LEMMA IoInnerJ ==
  ASSUME JInv, NEW p \in Callers, IoInner(p) \/ ManagedDone(p)
  PROVE  JInv'
<1>1. /\ call[p].at \in {"use", "managed"}
      /\ UNCHANGED <<hook, kind, nonblock, contexts, heap, want>>
  BY DEF IoInner, ManagedDone, Uses
<1>2. PICK at \in {"managed", "idle"} :
        GoOn(p, at) /\ (at = "managed" => call[p].at = "use" /\ call[p].ptr # Null)
  BY DEF IoInner, ManagedDone, IsSocket, Uses
<1>3. at \in Places /\ at # "use"
  BY DEF Places
<1>4. PICK c \in CallType :
        /\ call' = [call EXCEPT ![p] = c]
        /\ c.at = at
        /\ c.fd = IF at = "idle" THEN Null ELSE call[p].fd
  BY <1>1, <1>2, <1>3, GoOnFacts DEF JInv
<1>5. c.at = "managed" => contexts[c.fd] # Null
  BY <1>2, <1>4 DEF JInv, IInv, PointerCurrent
<1>6. IInv' /\ want' \in [Fds -> Wishes]
  BY <1>1, IoInnerInv DEF JInv
<1>7. QED
  BY <1>1, <1>3, <1>4, <1>5, <1>6, TableKept

\* What the calls that change a context or the flags have in common.
LEMMA SetterFacts ==
  ASSUME JInv, NEW p \in Callers, SetFlags(p) \/ Ioctl(p) \/ SetTimeout(p)
  PROVE  /\ call[p].at = "use" /\ call[p].fd \in Fds /\ call[p] \in CallType
         /\ call' = [call EXCEPT ![p] = Idle]
         /\ UNCHANGED <<hook, kind, contexts>>
         /\ \A a \in Ptrs : a # call[p].ptr => heap'[a] = heap[a]
         /\ want' \in [Fds -> Wishes]
         /\ \A fd \in Fds : want'[fd].hooked = want[fd].hooked
         /\ \A fd \in Fds \ {call[p].fd} : want'[fd] = want[fd]
<1>1. /\ call[p].at = "use" /\ GoOn(p, "idle")
      /\ UNCHANGED <<hook, kind, contexts>>
  BY DEF SetFlags, Ioctl, SetTimeout, Uses
<1>2. call[p] \in CallType /\ call[p].fd \in Fds
  BY <1>1 DEF JInv, IInv, TypeOK, CallType, OneCaller
<1>3. call' = [call EXCEPT ![p] = Idle]
  BY <1>1 DEF GoOn
<1>4. \A a \in Ptrs : a # call[p].ptr => heap'[a] = heap[a]
  BY DEF SetFlags, Ioctl, SetTimeout, SetUser, JInv, IInv, TypeOK
<1>5. call[p].arg \in BOOLEAN
  BY <1>2 DEF CallType
<1>6. /\ want' \in [Fds -> Wishes]
      /\ \A fd \in Fds : want'[fd].hooked = want[fd].hooked
      /\ \A fd \in Fds \ {call[p].fd} : want'[fd] = want[fd]
  <2> DEFINE w == want[call[p].fd]
  <2>1. w \in Wishes
    BY <1>2 DEF JInv
  <2>2. PICK v \in Wishes : v.hooked = w.hooked /\ want' = [want EXCEPT ![call[p].fd] = v]
    <3>1. CASE SetFlags(p) \/ Ioctl(p)
      <4> DEFINE v == [w EXCEPT !.user = call[p].arg]
      <4>1. v \in Wishes /\ v.hooked = w.hooked
        BY <2>1, <1>5 DEF Wishes
      <4>2. want' = [want EXCEPT ![call[p].fd] = v]
        BY <3>1 DEF SetFlags, Ioctl, Asked
      <4>3. QED
        BY <4>1, <4>2
    <3>2. CASE SetTimeout(p)
      <4> DEFINE v == [w EXCEPT !.timeouts = w.timeouts \cup {call[p].op}]
      <4>1. v \in Wishes /\ v.hooked = w.hooked
        BY <3>2, <2>1 DEF Wishes, SetTimeout, Uses
      <4>2. want' = [want EXCEPT ![call[p].fd] = v]
        BY <3>2 DEF SetTimeout
      <4>3. QED
        BY <4>1, <4>2
    <3>3. QED
      BY <3>1, <3>2
  <2>3. want \in [Fds -> Wishes]
    BY DEF JInv
  <2>4. QED
    BY <2>1, <2>2, <2>3, <1>2
<1>7. QED
  BY <1>1, <1>2, <1>3, <1>4, <1>6

\* They make no context and delete none.
LEMMA SettersJ ==
  ASSUME JInv, NEW p \in Callers, SetFlags(p) \/ Ioctl(p) \/ SetTimeout(p)
  PROVE  JInv'
<1>1. /\ call[p].at = "use" /\ call[p].fd \in Fds
      /\ call' = [call EXCEPT ![p] = Idle]
      /\ UNCHANGED <<hook, kind, contexts>>
      /\ \A a \in Ptrs : a # call[p].ptr => heap'[a] = heap[a]
      /\ want' \in [Fds -> Wishes]
      /\ \A fd \in Fds : want'[fd].hooked = want[fd].hooked
  BY SetterFacts
<1>2. \A a \in Ptrs : heap'[a] # Freed => heap[a] # Freed
  BY <1>1, FdAssumption DEF JInv, IInv, PointerCurrent, TableOwns
<1>3. IInv'
  BY SettersInv DEF JInv
<1>4. QED
  BY <1>1, <1>2, <1>3, IdleFacts, TableKept

\* When hooking is not switched while descriptors are open, every step keeps
\* the correspondence between contexts and hooked sockets.
LEMMA StepJ ==
  ASSUME ToggleAnytime = FALSE
  PROVE  JInv /\ [Next]_vars => JInv'
<1> SUFFICES ASSUME JInv, [Next]_vars PROVE JInv'
  OBVIOUS
<1>1. IInv'
  BY StepInv DEF JInv
<1>2. CASE UNCHANGED vars
  BY <1>1, <1>2 DEF vars, JInv, HookSteady, HeldByHooked, MissingInCall, SlotByPlace, NoneLost
<1>3. CASE SetHookEnabled
  BY <1>1, <1>3 DEF SetHookEnabled, JInv, HookSteady, HeldByHooked, MissingInCall, SlotByPlace,
     NoneLost
<1>4. ASSUME NEW p \in Callers,
             \/ SocketSys(p) \/ SetContext(p) \/ OpenFile(p)
             \/ Close(p) \/ DelContext(p) \/ CloseSys(p)
             \/ GetContext(p) \/ IoInner(p) \/ ManagedDone(p)
             \/ SetFlags(p) \/ Ioctl(p) \/ SetTimeout(p)
      PROVE  JInv'
  BY <1>4, SocketSysJ, SetContextJ, OpenFileJ, CloseJ, DelContextJ,
     CloseSysJ, GetContextJ, IoInnerJ, SettersJ
<1>5. QED
  BY <1>2, <1>3, <1>4 DEF Next

\* While hooking is only switched with no descriptor open, a context belongs to
\* one open socket: close leaves none behind for the next descriptor of the
\* number, and setContext never overwrites the only pointer to one.
THEOREM ContextsAreOwned ==
  ASSUME ToggleAnytime = FALSE
  PROVE  Spec => []NoStaleContext
<1>1. JInv => NoStaleContext
  <2> SUFFICES ASSUME JInv PROVE NoStaleContext
    OBVIOUS
  <2>1. \A fd \in Fds : contexts[fd] # Null => kind[fd] = "socket"
    BY DEF JInv, HeldByHooked
  <2>2. ASSUME NEW a \in Ptrs, heap[a] # Freed
        PROVE  Cardinality({fd \in Fds : contexts[fd] = a}) = 1
    <3>1. PICK f \in Fds : contexts[f] = a
      BY <2>2 DEF JInv, NoneLost
    <3>2. {fd \in Fds : contexts[fd] = a} = {f}
      BY <3>1, FdAssumption DEF JInv, IInv, TableOwns
    <3>3. QED
      BY <3>2, FS_Singleton
  <2>3. QED
    BY <2>1, <2>2 DEF NoStaleContext
<1>2. QED
  BY InitJ, StepJ, <1>1, PTL DEF Spec

-----------------------------------------------------------------------------
(* What a context says.                                                    *)

\* KInv holds at first.
LEMMA InitK == Init => KInv
<1> SUFFICES ASSUME Init PROVE KInv
  OBVIOUS
<1>1. JInv
  BY InitJ
<1>2. ContextsTrue /\ FlagsOfSockets /\ SetIsFresh
  BY IdleFacts DEF Init, ContextsTrue, FlagsOfSockets, SetIsFresh
<1>3. QED
  BY <1>1, <1>2 DEF KInv

\* A flag call that starts on a socket is one of SocketFlags.
LEMMA GetContextFlags ==
  ASSUME KInv, NEW p \in Callers, GetContext(p)
  PROVE  /\ call' \in [Callers -> CallType]
         /\ \A q \in Callers : q # p => call'[q] = call[q]
         /\ call'[p].at = "use"
         /\ kind[call'[p].fd] = "socket" /\ call'[p].op \in FlagCalls =>
              <<call'[p].op, call'[p].arg>> \in SocketFlags
<1>1. PICK fd \in Fds : \E k \in Calls(fd) :
        call' = [call EXCEPT ![p] = [at |-> "use", fd |-> fd, ptr |-> contexts[fd],
                                     op |-> k[1], arg |-> k[2]]]
  BY DEF GetContext
<1>2. PICK k \in Calls(fd) :
        call' = [call EXCEPT ![p] = [at |-> "use", fd |-> fd, ptr |-> contexts[fd],
                                     op |-> k[1], arg |-> k[2]]]
  BY <1>1
<1>3. /\ \A q \in Callers : q # p => call'[q] = call[q]
      /\ call'[p] = [at |-> "use", fd |-> fd, ptr |-> contexts[fd], op |-> k[1], arg |-> k[2]]
  BY <1>2 DEF KInv, JInv, IInv, TypeOK
<1>4. call' \in [Callers -> CallType]
  <2>1. IInv'
    BY GetContextInv DEF KInv, JInv
  <2>2. QED
    BY <2>1 DEF IInv, TypeOK, CallType
<1>5. kind[fd] = "socket" /\ k[1] \in FlagCalls => <<k[1], k[2]>> \in SocketFlags
  <2> SUFFICES ASSUME kind[fd] = "socket", k[1] \in FlagCalls
               PROVE  <<k[1], k[2]>> \in SocketFlags
    OBVIOUS
  <2>1. \/ k = <<"io", FALSE>>
        \/ k \in Timeouts \X {TRUE}
        \/ k \in SocketFlags
    BY DEF Calls
  <2>2. k # <<"io", FALSE>>
    <3>1. k = <<"io", FALSE>> => k[1] = "io"
      OBVIOUS
    <3>2. QED
      BY <3>1 DEF FlagCalls
  <2>3. k \notin Timeouts \X {TRUE}
    BY DEF FlagCalls, Timeouts
  <2>4. k \in SocketFlags /\ k \in FlagCalls \X BOOLEAN
    BY <2>1, <2>2, <2>3, FdAssumption
  <2>5. k = <<k[1], k[2]>>
    BY <2>4
  <2>6. QED
    BY <2>4, <2>5
<1>6. QED
  BY <1>3, <1>4, <1>5

\* Flag calls on sockets stay among SocketFlags, whoever moves.
LEMMA FlagsKeptInCall ==
  ASSUME KInv, JInv', NEW p \in Callers,
         \/ SocketSys(p) \/ SetContext(p) \/ OpenFile(p)
         \/ Close(p) \/ DelContext(p) \/ CloseSys(p)
         \/ GetContext(p) \/ IoInner(p) \/ ManagedDone(p)
         \/ SetFlags(p) \/ Ioctl(p) \/ SetTimeout(p)
  PROVE  FlagsOfSockets'
<1>1. CASE GetContext(p)
  <2>1. UNCHANGED kind
    BY <1>1 DEF GetContext
  <2>2. QED
    BY <1>1, <2>1, GetContextFlags DEF KInv, FlagsOfSockets
<1>2. CASE ~GetContext(p)
  <2> SUFFICES ASSUME NEW q \in Callers, call'[q].at = "use", kind'[call'[q].fd] = "socket",
                      call'[q].op \in FlagCalls
               PROVE  <<call'[q].op, call'[q].arg>> \in SocketFlags
    BY DEF FlagsOfSockets
  <2>1. call'[p].at # "use"
    <3>1. call' \in [Callers -> CallType] /\ call \in [Callers -> CallType]
      BY DEF KInv, JInv, IInv, TypeOK, CallType
    <3>2. CASE SocketSys(p)
      <4>1. PICK fd \in Fds :
              call' = [call EXCEPT ![p] = IF hook THEN [Idle EXCEPT !.at = "set", !.fd = fd] ELSE Idle]
        BY <3>2 DEF SocketSys
      <4>2. QED
        BY <4>1, <3>1 DEF Idle
    <3>3. CASE SetContext(p) \/ OpenFile(p)
      BY <3>1, <3>3 DEF SetContext, OpenFile, Idle
    <3>4. CASE Close(p)
      BY <3>1, <3>4 DEF Close, CloseNext, Idle
    <3>5. ASSUME NEW at \in {"close", "managed", "idle"}, GoOn(p, at)
          PROVE  call'[p].at # "use"
      BY <3>1, <3>5 DEF GoOn, Idle, CallType
    <3>6. CASE DelContext(p) \/ CloseSys(p) \/ ManagedDone(p)
      BY <3>5, <3>6 DEF DelContext, CloseSys, ManagedDone, CloseNext
    <3>7. CASE IoInner(p) \/ SetFlags(p) \/ Ioctl(p) \/ SetTimeout(p)
      BY <3>5, <3>7 DEF IoInner, SetFlags, Ioctl, SetTimeout
    <3>8. QED
      BY <1>2, <3>2, <3>3, <3>4, <3>6, <3>7
  <2>2. q # p /\ call'[q] = call[q]
    <3>1. call \in [Callers -> CallType]
      BY DEF KInv, JInv, IInv, TypeOK, CallType
    <3>2. CASE SocketSys(p)
      <4>1. PICK fd \in Fds :
              call' = [call EXCEPT ![p] = IF hook THEN [Idle EXCEPT !.at = "set", !.fd = fd] ELSE Idle]
        BY <3>2 DEF SocketSys
      <4>2. QED
        BY <4>1, <3>1, <2>1
    <3>3. CASE Close(p)
      BY <3>1, <3>3, <2>1 DEF Close
    <3>4. CASE SetContext(p) \/ OpenFile(p)
      BY <3>1, <3>4, <2>1 DEF SetContext, OpenFile
    <3>5. CASE DelContext(p) \/ CloseSys(p) \/ ManagedDone(p)
      BY <3>1, <3>5, <2>1 DEF DelContext, CloseSys, ManagedDone, GoOn
    <3>6. CASE IoInner(p) \/ SetFlags(p) \/ Ioctl(p) \/ SetTimeout(p)
      BY <3>1, <3>6, <2>1 DEF IoInner, SetFlags, Ioctl, SetTimeout, GoOn
    <3>7. QED
      BY <1>2, <3>2, <3>3, <3>4, <3>5, <3>6
  <2>3. call[q].fd \in Fds
    BY <2>2 DEF KInv, JInv, IInv, OneCaller
  <2>4. kind[call[q].fd] # "free"
    BY <2>3 DEF KInv, JInv, IInv, BusyIsOpen
  <2>5. kind[call[q].fd] = "socket"
    <3>1. kind \in [Fds -> {"free", "socket", "file"}]
      BY DEF KInv, JInv, IInv, TypeOK
    <3>2. CASE SocketSys(p) \/ OpenFile(p)
      <4>1. PICK fd \in Fds : kind[fd] = "free" /\ \E k : kind' = [kind EXCEPT ![fd] = k]
        BY <3>2 DEF SocketSys, OpenFile
      <4>2. QED
        BY <4>1, <3>1, <2>2, <2>3, <2>4
    <3>3. CASE CloseSys(p)
      <4>1. call[p].fd \in Fds /\ call[p].fd # call[q].fd
        BY <3>3, <2>2, <2>3, FdAssumption DEF CloseSys, KInv, JInv, IInv, OneCaller
      <4>2. QED
        BY <3>3, <4>1, <3>1, <2>2, <2>3 DEF CloseSys
    <3>4. CASE UNCHANGED kind
      BY <3>4, <2>2
    <3>5. QED
      BY <1>2, <3>2, <3>3, <3>4 DEF SetContext, Close, DelContext, IoInner, ManagedDone,
         SetFlags, Ioctl, SetTimeout
  <2>6. QED
    BY <2>2, <2>5 DEF KInv, FlagsOfSockets
<1>3. QED
  BY <1>1, <1>2

\* socket, accept and open make no context: the slot of their number is empty.
LEMMA OpensK ==
  ASSUME KInv, JInv', NEW p \in Callers, SocketSys(p) \/ OpenFile(p)
  PROVE  ContextsTrue' /\ SetIsFresh'
<1>1. PICK fd \in Fds, h \in BOOLEAN :
        /\ kind[fd] = "free"
        /\ want' = [want EXCEPT ![fd] = [hooked |-> h, user |-> FALSE, timeouts |-> {}]]
        /\ \/ UNCHANGED call
           \/ call' = [call EXCEPT ![p] = Idle]
           \/ call' = [call EXCEPT ![p] = [Idle EXCEPT !.at = "set", !.fd = fd]]
  <2>1. hook \in BOOLEAN
    BY DEF KInv, JInv, IInv, TypeOK
  <2>2. CASE SocketSys(p)
    BY <2>1, <2>2 DEF SocketSys
  <2>3. CASE OpenFile(p)
    BY <2>3 DEF OpenFile
  <2>4. QED
    BY <2>2, <2>3
<1>2. UNCHANGED <<contexts, heap>>
  BY DEF SocketSys, OpenFile
<1>3. contexts[fd] = Null /\ ~Busy(fd)
  BY <1>1, FreeIsIdle DEF KInv, JInv, HeldByHooked
<1>4. /\ want'[fd].user = FALSE /\ want'[fd].timeouts = {}
      /\ \A g \in Fds \ {fd} : want'[g] = want[g]
  BY <1>1 DEF KInv, JInv
<1>5. ContextsTrue'
  BY <1>2, <1>3, <1>4 DEF KInv, ContextsTrue
<1>6. SetIsFresh'
  <2> SUFFICES ASSUME NEW q \in Callers, call'[q].at = "set"
               PROVE  want'[call'[q].fd].user = FALSE /\ want'[call'[q].fd].timeouts = {}
    BY DEF SetIsFresh
  <2>1. call'[q].fd = fd \/ call'[q] = call[q]
    <3>1. call \in [Callers -> CallType]
      BY DEF KInv, JInv, IInv, TypeOK, CallType
    <3>2. CASE call' = [call EXCEPT ![p] = Idle]
      BY <3>1, <3>2, IdleFacts
    <3>3. CASE call' = [call EXCEPT ![p] = [Idle EXCEPT !.at = "set", !.fd = fd]]
      BY <3>1, <3>3 DEF Idle
    <3>4. QED
      BY <1>1, <3>2, <3>3
  <2>2. CASE call'[q].fd = fd
    BY <2>2, <1>4
  <2>3. CASE call'[q] = call[q]
    <3>1. call[q].fd \in Fds \ {fd}
      BY <2>3, <1>3 DEF Busy, KInv, JInv, IInv, OneCaller
    <3>2. QED
      BY <2>3, <3>1, <1>4 DEF KInv, SetIsFresh
  <2>4. QED
    BY <2>1, <2>2, <2>3
<1>7. QED
  BY <1>5, <1>6

\* A new context agrees with a socket of which nothing was asked yet.
LEMMA SetContextK ==
  ASSUME KInv, JInv', NEW p \in Callers, SetContext(p)
  PROVE  ContextsTrue' /\ SetIsFresh'
<1> DEFINE fd == call[p].fd
<1>1. call[p].at = "set" /\ UNCHANGED want /\ call' = [call EXCEPT ![p] = Idle]
  BY DEF SetContext
<1>2. PICK a \in Ptrs :
        /\ heap[a] = Freed
        /\ heap' = [heap EXCEPT ![a] = NewSocket]
        /\ contexts' = [contexts EXCEPT ![fd] = a]
  BY DEF SetContext
<1>3. fd \in Fds /\ want[fd].user = FALSE /\ want[fd].timeouts = {}
  BY <1>1 DEF KInv, JInv, IInv, OneCaller, SetIsFresh
<1>4. /\ contexts'[fd] = a /\ heap'[a] = NewSocket
      /\ \A g \in Fds \ {fd} : contexts'[g] = contexts[g]
      /\ \A b \in Ptrs \ {a} : heap'[b] = heap[b]
  BY <1>2, <1>3 DEF KInv, JInv, IInv, TypeOK
<1>5. \A g \in Fds : contexts[g] # Null => contexts[g] \in Ptrs \ {a}
  BY <1>2 DEF KInv, JInv, IInv, TypeOK, TableOwns
<1> HIDE DEF fd
<1>6. ContextsTrue'
  <2>1. heap'[contexts'[fd]] = [is_socket |-> TRUE, user |-> want[fd].user, timeouts |-> want[fd].timeouts]
    BY <1>3, <1>4 DEF NewSocket
  <2>2. ASSUME NEW g \in Fds \ {fd}, contexts'[g] # Null
        PROVE  heap'[contexts'[g]] = [is_socket |-> TRUE, user |-> want[g].user, timeouts |-> want[g].timeouts]
    <3>1. contexts'[g] = contexts[g] /\ heap'[contexts[g]] = heap[contexts[g]]
      BY <1>4, <1>5, <2>2
    <3> QED BY <3>1, <2>2 DEF KInv, ContextsTrue
  <2> QED BY <2>1, <2>2, <1>1 DEF ContextsTrue
<1>7. SetIsFresh'
  BY <1>1, IdleFacts DEF KInv, JInv, IInv, TypeOK, SetIsFresh
<1>8. QED
  BY <1>6, <1>7

\* delContext touches no other descriptor's context.
LEMMA DelContextK ==
  ASSUME KInv, JInv', NEW p \in Callers, DelContext(p)
  PROVE  ContextsTrue' /\ SetIsFresh'
<1> DEFINE fd == call[p].fd
<1> DEFINE a == contexts[fd]
<1>1. call[p].at = "del" /\ UNCHANGED want /\ GoOn(p, "close")
  BY DEF DelContext, CloseNext
<1>2. /\ heap' = IF a = Null THEN heap ELSE [heap EXCEPT ![a] = Freed]
      /\ contexts' = [contexts EXCEPT ![fd] = Null]
  BY DEF DelContext
<1>3. fd \in Fds
  BY <1>1 DEF KInv, JInv, IInv, OneCaller
<1>4. /\ contexts'[fd] = Null /\ \A g \in Fds \ {fd} : contexts'[g] = contexts[g]
      /\ \A b \in Ptrs \ {a} : heap'[b] = heap[b]
  BY <1>2, <1>3 DEF KInv, JInv, IInv, TypeOK
<1>5. \A g \in Fds \ {fd} : contexts[g] # Null => contexts[g] \in Ptrs \ {a}
  BY <1>3 DEF KInv, JInv, IInv, TypeOK, TableOwns
<1>6. SetIsFresh'
  <2>1. call \in [Callers -> CallType] /\ call' = [call EXCEPT ![p] = [call[p] EXCEPT !.at = "close"]]
    BY <1>1 DEF GoOn, KInv, JInv, IInv, TypeOK, CallType
  <2>2. call'[p].at = "close" /\ \A q \in Callers \ {p} : call'[q] = call[q]
    BY <2>1 DEF CallType
  <2>3. QED
    BY <1>1, <2>2 DEF KInv, SetIsFresh
<1> HIDE DEF fd, a
<1>7. ContextsTrue'
  BY <1>1, <1>3, <1>4, <1>5 DEF KInv, ContextsTrue
<1>8. QED
  BY <1>6, <1>7

\* The calls that write no context.
LEMMA ReadersK ==
  ASSUME KInv, JInv', NEW p \in Callers,
         Close(p) \/ CloseSys(p) \/ GetContext(p) \/ IoInner(p) \/ ManagedDone(p)
  PROVE  ContextsTrue' /\ SetIsFresh'
<1>1. UNCHANGED <<contexts, heap, want>>
  BY DEF Close, CloseSys, GetContext, IoInner, ManagedDone
<1>2. ContextsTrue'
  BY <1>1 DEF KInv, ContextsTrue
<1>3. call \in [Callers -> CallType]
  BY DEF KInv, JInv, IInv, TypeOK, CallType
<1>4. \A q \in Callers : call'[q].at = "set" => call'[q] = call[q]
  <2>1. CASE Close(p)
    BY <1>3, <2>1, ZenonT(30) DEF Close, CloseNext, Idle
  <2>2. CASE GetContext(p)
    BY <2>2, GetContextFlags
  <2>3. CASE CloseSys(p) \/ ManagedDone(p)
    BY <1>3, <2>3, IdleFacts DEF CloseSys, ManagedDone, GoOn, CloseNext
  <2>4. CASE IoInner(p)
    BY <1>3, <2>4, IdleFacts DEF IoInner, GoOn, CallType
  <2>5. QED
    BY <2>1, <2>2, <2>3, <2>4
<1>5. SetIsFresh'
  BY <1>1, <1>4 DEF KInv, SetIsFresh
<1>6. QED
  BY <1>2, <1>5

\* A context with one field changed.
LEMMA ContextChange ==
  ASSUME NEW s, NEW u, NEW t, NEW v
  PROVE  /\ [[is_socket |-> s, user |-> u, timeouts |-> t] EXCEPT !.user = v]
              = [is_socket |-> s, user |-> v, timeouts |-> t]
         /\ [[is_socket |-> s, user |-> u, timeouts |-> t] EXCEPT !.timeouts = v]
              = [is_socket |-> s, user |-> u, timeouts |-> v]
  OBVIOUS

\* co_ioctl, the ioctl hook and co_setsockopt write the same to the context as
\* their caller asked for; F_SETFL would not, but is not used on sockets.
LEMMA SettersK ==
  ASSUME FlagsKept, KInv, JInv', NEW p \in Callers, SetFlags(p) \/ Ioctl(p) \/ SetTimeout(p)
  PROVE  ContextsTrue' /\ SetIsFresh'
<1> DEFINE fd == call[p].fd
<1> DEFINE a == call[p].ptr
<1>1. /\ call[p].at = "use" /\ fd \in Fds /\ call[p] \in CallType
      /\ call' = [call EXCEPT ![p] = Idle]
      /\ UNCHANGED <<hook, kind, contexts>>
      /\ \A b \in Ptrs : b # a => heap'[b] = heap[b]
      /\ \A g \in Fds \ {fd} : want'[g] = want[g]
  BY SetterFacts DEF KInv
<1>2. a = contexts[fd]
  BY <1>1 DEF KInv, JInv, IInv, PointerCurrent
<1>3. \A g \in Fds \ {fd} : contexts[g] # Null => contexts[g] \in Ptrs /\ contexts[g] # a
  BY <1>1, <1>2, FdAssumption DEF KInv, JInv, IInv, TypeOK, TableOwns
<1>4. SetIsFresh'
  <2>1. \A q \in Callers \ {p} : call'[q] = call[q] /\ (call[q].at # "idle" => call[q].fd \in Fds \ {fd})
    BY <1>1, FdAssumption DEF KInv, JInv, IInv, OneCaller, TypeOK
  <2>2. call'[p].at = "idle"
    BY <1>1, IdleFacts DEF KInv, JInv, IInv, TypeOK
  <2> HIDE DEF fd
  <2>3. QED
    BY <1>1, <2>1, <2>2 DEF KInv, SetIsFresh
<1>5. ASSUME a # Null
      PROVE  heap'[a] = [is_socket |-> TRUE, user |-> want'[fd].user, timeouts |-> want'[fd].timeouts]
  <2>1. kind[fd] = "socket" /\ a \in Ptrs /\ want[fd] \in Wishes
    BY <1>1, <1>2, <1>5 DEF KInv, JInv, HeldByHooked, IInv, TypeOK
  <2>2. heap[a] = [is_socket |-> TRUE, user |-> want[fd].user, timeouts |-> want[fd].timeouts]
    BY <1>1, <1>2, <1>5 DEF KInv, ContextsTrue
  <2>3. IsSocket(p)
    BY <1>5, <2>2 DEF IsSocket
  <2>4. heap \in [Ptrs -> FdContexts \cup {Freed}] /\ want \in [Fds -> Wishes]
    BY DEF KInv, JInv, IInv, TypeOK
  <2>5. call[p].op \in FlagCalls =>
          call[p].op = "co_ioctl" \/ (call[p].op = "ioctl" /\ call[p].arg = TRUE)
    <3> SUFFICES ASSUME call[p].op \in FlagCalls
                 PROVE  call[p].op = "co_ioctl" \/ (call[p].op = "ioctl" /\ call[p].arg = TRUE)
      OBVIOUS
    <3>1. <<call[p].op, call[p].arg>> \in ({"co_ioctl"} \X BOOLEAN) \cup {<<"ioctl", TRUE>>}
      BY <1>1, <2>1 DEF KInv, FlagsOfSockets, FlagsKept
    <3>2. QED
      BY <3>1
  <2>6. CASE SetFlags(p)
    BY <2>5, <2>6 DEF SetFlags, Uses, FlagCalls
  <2>7. CASE Ioctl(p)
    <3>1. SetUser(p, call[p].arg)
      BY <1>1, <2>3, <2>5, <2>7 DEF Ioctl, Uses, FlagCalls, CallType
    <3>2. heap'[a] = [heap[a] EXCEPT !.user = call[p].arg]
      BY <2>1, <2>4, <3>1 DEF SetUser
    <3>3. want'[fd] = [want[fd] EXCEPT !.user = call[p].arg]
      BY <1>1, <2>4, <2>7 DEF Ioctl, Asked
    <3>4. want'[fd].user = call[p].arg /\ want'[fd].timeouts = want[fd].timeouts
      BY <2>1, <3>3 DEF Wishes
    <3> HIDE DEF fd, a
    <3>5. heap'[a] = [is_socket |-> TRUE, user |-> call[p].arg, timeouts |-> want[fd].timeouts]
      <4>1. heap'[a] = [[is_socket |-> TRUE, user |-> want[fd].user, timeouts |-> want[fd].timeouts]
                          EXCEPT !.user = call[p].arg]
        BY <2>2, <3>2, Zenon
      <4>2. QED
        BY <4>1, ContextChange
    <3>6. QED
      BY <3>4, <3>5, Zenon
  <2>8. CASE SetTimeout(p)
    <3>1. heap'[a] = [heap[a] EXCEPT !.timeouts = heap[a].timeouts \cup {call[p].op}]
      BY <1>5, <2>1, <2>4, <2>8 DEF SetTimeout
    <3>2. want'[fd] = [want[fd] EXCEPT !.timeouts = want[fd].timeouts \cup {call[p].op}]
      BY <1>1, <2>4, <2>8 DEF SetTimeout
    <3>3. /\ want'[fd].user = want[fd].user
          /\ want'[fd].timeouts = want[fd].timeouts \cup {call[p].op}
      BY <2>1, <3>2 DEF Wishes
    <3> HIDE DEF fd, a
    <3>4. heap[a].timeouts = want[fd].timeouts
      BY <2>2
    <3>5. heap'[a] = [is_socket |-> TRUE, user |-> want[fd].user,
                      timeouts |-> want[fd].timeouts \cup {call[p].op}]
      <4>1. heap'[a] = [[is_socket |-> TRUE, user |-> want[fd].user, timeouts |-> want[fd].timeouts]
                          EXCEPT !.timeouts = want[fd].timeouts \cup {call[p].op}]
        BY <2>2, <3>1, <3>4, Zenon
      <4>2. QED
        BY <4>1, ContextChange
    <3>6. QED
      BY <3>3, <3>5, Zenon
  <2>9. QED
    BY <2>6, <2>7, <2>8
<1> HIDE DEF fd, a
<1>6. ContextsTrue'
  BY <1>1, <1>2, <1>3, <1>5 DEF KInv, ContextsTrue
<1>7. QED
  BY <1>4, <1>6

\* Every step keeps the contexts in agreement with what was asked.
LEMMA StepK ==
  ASSUME ToggleAnytime = FALSE, FlagsKept
  PROVE  KInv /\ [Next]_vars => KInv'
<1> SUFFICES ASSUME KInv, [Next]_vars PROVE KInv'
  OBVIOUS
<1>1. JInv'
  BY StepJ DEF KInv
<1>2. CASE UNCHANGED vars
  BY <1>1, <1>2 DEF vars, KInv, ContextsTrue, FlagsOfSockets, SetIsFresh
<1>3. CASE SetHookEnabled
  BY <1>1, <1>3 DEF SetHookEnabled, KInv, ContextsTrue, FlagsOfSockets, SetIsFresh
<1>4. ASSUME NEW p \in Callers,
             \/ SocketSys(p) \/ SetContext(p) \/ OpenFile(p)
             \/ Close(p) \/ DelContext(p) \/ CloseSys(p)
             \/ GetContext(p) \/ IoInner(p) \/ ManagedDone(p)
             \/ SetFlags(p) \/ Ioctl(p) \/ SetTimeout(p)
      PROVE  KInv'
  <2>1. FlagsOfSockets'
    BY <1>1, <1>4, FlagsKeptInCall
  <2>2. ContextsTrue' /\ SetIsFresh'
    BY <1>1, <1>4, OpensK, SetContextK, DelContextK, ReadersK, SettersK
  <2>3. QED
    BY <1>1, <2>1, <2>2 DEF KInv
<1>5. QED
  BY <1>2, <1>3, <1>4 DEF Next

\* A hooked socket that nobody is calling on has its own context, which holds
\* what its users asked for and nothing of an earlier socket of that number,
\* as long as users change its flags through FIONBIO.
THEOREM ContextsAgree ==
  ASSUME ToggleAnytime = FALSE, FlagsKept
  PROVE  Spec => []ContextMatches
<1>1. KInv => ContextMatches
  BY DEF KInv, JInv, MissingInCall, ContextsTrue, ContextMatches, Busy
<1>2. QED
  BY InitK, StepK, <1>1, PTL DEF Spec

-----------------------------------------------------------------------------
(* The kernel's flag.                                                      *)

\* Sockets are only made non-blocking, by FIONBIO.
FlagsOn == SocketFlags \subseteq {"ioctl", "co_ioctl"} \X {TRUE}

NInv == KInv /\ HookedNonblock

\* A hooked socket stays non-blocking for the kernel.
LEMMA StepN ==
  ASSUME ToggleAnytime = FALSE, FlagsOn
  PROVE  NInv /\ [Next]_vars => NInv'
<1> SUFFICES ASSUME NInv, [Next]_vars PROVE NInv'
  OBVIOUS
<1>1. FlagsKept
  <2> SUFFICES ASSUME NEW k \in SocketFlags
               PROVE  k \in ({"co_ioctl"} \X BOOLEAN) \cup {<<"ioctl", TRUE>>}
    BY DEF FlagsKept
  <2>1. k \in {"ioctl", "co_ioctl"} \X {TRUE}
    BY DEF FlagsOn
  <2>2. k = <<k[1], k[2]>> /\ k[1] \in {"ioctl", "co_ioctl"} /\ k[2] \in {TRUE}
    <3>1. k \in FlagCalls \X BOOLEAN
      BY FdAssumption
    <3>2. k = <<k[1], k[2]>>
      BY <3>1
    <3>3. k[1] \in {"ioctl", "co_ioctl"}
      BY <2>1
    <3>4. k[2] \in {TRUE}
      BY <2>1
    <3>5. QED
      BY <3>2, <3>3, <3>4
  <2>3. CASE k[1] = "co_ioctl"
    BY <2>2, <2>3
  <2>4. CASE k[1] = "ioctl"
    <3>1. k[2] = TRUE
      BY <2>2
    <3>2. k = <<"ioctl", TRUE>>
      BY <2>2, <2>4, <3>1, Zenon
    <3>3. QED
      BY <3>2
  <2>5. QED
    BY <2>2, <2>3, <2>4
<1>2. KInv'
  BY <1>1, StepK DEF NInv
<1>3. CASE UNCHANGED <<kind, want, nonblock>>
  BY <1>2, <1>3 DEF NInv, HookedNonblock
<1>4. ASSUME NEW p \in Callers, SocketSys(p) \/ OpenFile(p)
      PROVE  HookedNonblock'
  <2>1. CASE SocketSys(p)
    <3>1. PICK fd \in Fds :
            /\ nonblock' = [nonblock EXCEPT ![fd] = hook]
            /\ kind' = [kind EXCEPT ![fd] = "socket"]
            /\ want' = [want EXCEPT ![fd] = [hooked |-> hook, user |-> FALSE, timeouts |-> {}]]
      BY <2>1 DEF SocketSys
    <3>2. QED
      BY <3>1 DEF NInv, KInv, JInv, IInv, TypeOK, HookedNonblock
  <2>2. CASE OpenFile(p)
    <3>1. PICK fd \in Fds :
            /\ nonblock' = [nonblock EXCEPT ![fd] = FALSE]
            /\ kind' = [kind EXCEPT ![fd] = "file"]
            /\ want' = [want EXCEPT ![fd] = [hooked |-> FALSE, user |-> FALSE, timeouts |-> {}]]
      BY <2>2 DEF OpenFile
    <3>2. QED
      BY <3>1 DEF NInv, KInv, JInv, IInv, TypeOK, HookedNonblock
  <2>3. QED
    BY <1>4, <2>1, <2>2
<1>5. ASSUME NEW p \in Callers, CloseSys(p)
      PROVE  HookedNonblock'
  BY <1>5 DEF CloseSys, NInv, KInv, JInv, IInv, TypeOK, HookedNonblock
<1>6. ASSUME NEW p \in Callers, SetFlags(p) \/ Ioctl(p) \/ SetTimeout(p)
      PROVE  HookedNonblock'
  <2>1. /\ call[p].at = "use" /\ call[p].fd \in Fds
        /\ UNCHANGED kind
        /\ \A fd \in Fds : want'[fd].hooked = want[fd].hooked
    BY <1>6, SetterFacts DEF NInv, KInv
  <2>2. nonblock \in [Fds -> BOOLEAN]
    BY DEF NInv, KInv, JInv, IInv, TypeOK
  <2>3. kind[call[p].fd] = "socket" /\ call[p].op \in FlagCalls =>
          call[p].op \in {"ioctl", "co_ioctl"} /\ call[p].arg = TRUE
    <3> SUFFICES ASSUME kind[call[p].fd] = "socket", call[p].op \in FlagCalls
                 PROVE  call[p].op \in {"ioctl", "co_ioctl"} /\ call[p].arg = TRUE
      OBVIOUS
    <3>1. <<call[p].op, call[p].arg>> \in {"ioctl", "co_ioctl"} \X {TRUE}
      BY <2>1 DEF NInv, KInv, FlagsOfSockets, FlagsOn
    <3>2. QED
      BY <3>1
  <2>4. \A fd \in Fds \ {call[p].fd} : nonblock'[fd] = nonblock[fd]
    BY <1>6, <2>2 DEF SetFlags, Ioctl, SetTimeout, SetKernel
  <2>5. kind[call[p].fd] = "socket" => nonblock'[call[p].fd] = nonblock[call[p].fd]
                                         \/ nonblock'[call[p].fd] = TRUE
    <3> SUFFICES ASSUME kind[call[p].fd] = "socket"
                 PROVE  nonblock'[call[p].fd] = nonblock[call[p].fd] \/ nonblock'[call[p].fd] = TRUE
      OBVIOUS
    <3>1. ~SetFlags(p)
      BY <2>3 DEF SetFlags, Uses, FlagCalls
    <3>2. CASE Ioctl(p)
      BY <2>1, <2>2, <2>3, <3>2 DEF Ioctl, Uses, SetKernel, FlagCalls
    <3>3. CASE SetTimeout(p)
      BY <3>3 DEF SetTimeout
    <3>4. QED
      BY <1>6, <3>1, <3>2, <3>3
  <2>6. QED
    BY <2>1, <2>4, <2>5 DEF NInv, HookedNonblock
<1>7. HookedNonblock'
  <2>1. CASE SetHookEnabled \/ UNCHANGED vars
    BY <2>1, <1>3 DEF SetHookEnabled, vars, NInv, HookedNonblock
  <2>2. ASSUME NEW p \in Callers,
               SetContext(p) \/ Close(p) \/ DelContext(p) \/ GetContext(p) \/ IoInner(p) \/ ManagedDone(p)
        PROVE  HookedNonblock'
    BY <2>2 DEF SetContext, Close, DelContext, GetContext, IoInner, ManagedDone, NInv, HookedNonblock
  <2>3. QED
    BY <1>4, <1>5, <1>6, <2>1, <2>2 DEF Next
<1>8. QED
  BY <1>2, <1>7 DEF NInv

\* ioInner's own calls never block the thread, as long as users of sockets
\* only ever ask for O_NONBLOCK, and through FIONBIO.
THEOREM ThreadsNeverBlock ==
  ASSUME ToggleAnytime = FALSE, FlagsOn
  PROVE  Spec => []NeverBlocksThread
<1>1. Init => NInv
  BY InitK DEF NInv, HookedNonblock, Init
<1>2. NInv => NeverBlocksThread
  BY DEF NInv, KInv, JInv, IInv, OneCaller, SlotByPlace, HeldByHooked, HookedNonblock,
     NeverBlocksThread
<1>3. QED
  BY <1>1, <1>2, StepN, PTL DEF Spec
=============================================================================
