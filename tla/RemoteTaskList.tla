--------------------------- MODULE RemoteTaskList ---------------------------
(***************************************************************************)
(* Scheduler::RemoteTaskList at the level of its nodes: insertFront with   *)
(* its compare-exchange loop, run by any number of threads, and            *)
(* scheduleAll, run by the scheduler's thread alone.  Nodes come from a    *)
(* heap that hands a freed address out again, so that an address loaded    *)
(* before the compare-exchange may by then belong to another node.         *)
(***************************************************************************)
EXTENDS Naturals, Sequences, FiniteSets

CONSTANTS
  Producers,  \* threads that call addRemoteExecutor
  Tasks,      \* executors; each is given to addRemoteExecutor once
  Addrs,      \* addresses operator new may return
  Null,       \* nullptr
  Free        \* contents of an address that is not allocated

ASSUME NullAssumption == Null \notin Addrs
ASSUME HeapAssumption == IsFiniteSet(Addrs) /\ Free \notin Addrs \cup {Null}

VARIABLES
  heap,       \* [value, next] of each allocated Node
  head,       \* RemoteTaskList::head
  added,      \* tasks given to insertFront
  ppc,        \* where each producer is in insertFront
  node,       \* new_node
  old,        \* old_head
  cpc,        \* where the scheduler is in scheduleAll
  walk,       \* _head
  temp,       \* temp
  delivered   \* executors given to addExecutor, in order

producerVars == <<added, ppc, node, old>>
consumerVars == <<cpc, walk, temp, delivered>>
vars == <<heap, head, producerVars, consumerVars>>

Nodes == [value : Tasks, next : Addrs \cup {Null}]

ASSUME FreeAssumption == Free \notin Nodes

\* Addresses, nodes and the places of producers and consumer keep their types.
TypeOK ==
  /\ heap \in [Addrs -> Nodes \cup {Free}]
  /\ head \in Addrs \cup {Null}
  /\ added \in SUBSET Tasks
  /\ ppc \in [Producers -> {"idle", "load", "link", "cas"}]
  /\ node \in [Producers -> Addrs \cup {Null}]
  /\ old \in [Producers -> Addrs \cup {Null}]
  /\ cpc \in {"exchange", "add", "advance", "delete"}
  /\ walk \in Addrs \cup {Null} /\ temp \in Addrs \cup {Null}
  /\ delivered \in Seq(Tasks)

Init ==
  /\ heap = [a \in Addrs |-> Free] /\ head = Null
  /\ added = {}
  /\ ppc = [p \in Producers |-> "idle"]
  /\ node = [p \in Producers |-> Null]
  /\ old = [p \in Producers |-> Null]
  /\ cpc = "exchange" /\ walk = Null /\ temp = Null
  /\ delivered = <<>>

-----------------------------------------------------------------------------
(* insertFront                                                             *)

NewNode(p, t) == \* new Node(executor, nullptr)
  /\ ppc[p] = "idle" /\ t \notin added
  /\ added' = added \cup {t}
  /\ \E a \in Addrs :
       /\ heap[a] = Free
       /\ heap' = [heap EXCEPT ![a] = [value |-> t, next |-> Null]]
       /\ node' = [node EXCEPT ![p] = a]
  /\ ppc' = [ppc EXCEPT ![p] = "load"]
  /\ UNCHANGED <<head, old, consumerVars>>

LoadHead(p) == \* old_head = head.load(relaxed)
  /\ ppc[p] = "load"
  /\ old' = [old EXCEPT ![p] = head]
  /\ ppc' = [ppc EXCEPT ![p] = "link"]
  /\ UNCHANGED <<heap, head, added, node, consumerVars>>

Link(p) == \* new_node->next = old_head
  /\ ppc[p] = "link"
  /\ heap' = [heap EXCEPT ![node[p]].next = old[p]]
  /\ ppc' = [ppc EXCEPT ![p] = "cas"]
  /\ UNCHANGED <<head, added, node, old, consumerVars>>

\* Mutant: the head is stored without comparing it with old_head.
CasSucceedsBlindly(p) ==
  /\ ppc[p] = "cas"
  /\ head' = node[p]
  /\ ppc' = [ppc EXCEPT ![p] = "idle"]
  /\ UNCHANGED <<heap, added, node, old, consumerVars>>

CasSucceeds(p) == \* compare_exchange_strong(old_head, new_node), then return
  /\ ppc[p] = "cas" /\ head = old[p]
  /\ head' = node[p]
  /\ ppc' = [ppc EXCEPT ![p] = "idle"]
  /\ UNCHANGED <<heap, added, node, old, consumerVars>>

\* Mutant: a failed compare-exchange tries again without linking to the new head.
CasFailsNoRelink(p) ==
  /\ ppc[p] = "cas" /\ head # old[p]
  /\ old' = [old EXCEPT ![p] = head]
  /\ UNCHANGED <<heap, head, added, ppc, node, consumerVars>>

CasFails(p) == \* compare_exchange_strong stores the head it saw in old_head
  /\ ppc[p] = "cas" /\ head # old[p]
  /\ old' = [old EXCEPT ![p] = head]
  /\ ppc' = [ppc EXCEPT ![p] = "link"]
  /\ UNCHANGED <<heap, head, added, node, consumerVars>>

-----------------------------------------------------------------------------
(* scheduleAll                                                             *)

Exchange == \* _head = head.exchange(nullptr)
  /\ cpc = "exchange" /\ head # Null
  /\ walk' = head /\ head' = Null
  /\ cpc' = "add"
  /\ UNCHANGED <<heap, producerVars, temp, delivered>>

AddOne == \* scheduler->addExecutor(_head->value)
  /\ cpc = "add"
  /\ delivered' = Append(delivered, heap[walk].value)
  /\ cpc' = "advance"
  /\ UNCHANGED <<heap, head, producerVars, walk, temp>>

Advance == \* temp = _head; _head = _head->next
  /\ cpc = "advance"
  /\ temp' = walk /\ walk' = heap[walk].next
  /\ cpc' = "delete"
  /\ UNCHANGED <<heap, head, producerVars, delivered>>

\* Mutant: the node after the one just added is deleted.
DeleteNext ==
  /\ cpc = "delete"
  /\ heap' = IF walk = Null THEN [heap EXCEPT ![temp] = Free]
                            ELSE [heap EXCEPT ![temp] = Free, ![walk] = Free]
  /\ temp' = Null
  /\ cpc' = IF walk = Null THEN "exchange" ELSE "add"
  /\ UNCHANGED <<head, producerVars, walk, delivered>>

Delete == \* delete temp; while (_head)
  /\ cpc = "delete"
  /\ heap' = [heap EXCEPT ![temp] = Free]
  /\ temp' = Null
  /\ cpc' = IF walk = Null THEN "exchange" ELSE "add"
  /\ UNCHANGED <<head, producerVars, walk, delivered>>

-----------------------------------------------------------------------------
Produce(p) ==
  \/ LoadHead(p) \/ Link(p) \/ CasSucceeds(p) \/ CasFails(p)

Consume == Exchange \/ AddOne \/ Advance \/ Delete

Next ==
  \/ \E p \in Producers : (\E t \in Tasks : NewNode(p, t)) \/ Produce(p)
  \/ Consume

Spec == Init /\ [][Next]_vars

\* Both sides keep running; a producer that has started its insertFront goes on.
FairSpec == Spec /\ WF_vars(Consume) /\ \A p \in Producers : WF_vars(Produce(p))

-----------------------------------------------------------------------------
(* Properties.                                                             *)

\* The addresses met from a by following next, ending in Null or, if the list
\* runs into memory that is not allocated, in Free.
Successor(a) ==
  IF a \notin Addrs THEN a ELSE IF heap[a] = Free THEN Free ELSE heap[a].next

Steps(a) ==
  LET s[n \in 0..(Cardinality(Addrs) + 1)] == IF n = 0 THEN a ELSE Successor(s[n - 1])
  IN  s

ListLength(a) == CHOOSE n \in DOMAIN Steps(a) : Steps(a)[n] = Null /\ \A m \in 0..(n-1) : Steps(a)[m] # Null

\* The list that starts at a ends, and every node of it is allocated.
WellFormedFrom(a) == \E n \in DOMAIN Steps(a) : Steps(a)[n] = Null

ListAddrs(a) == {Steps(a)[n] : n \in DOMAIN Steps(a)} \ {Null, Free}

ListValues(a) == [n \in 1..ListLength(a) |-> heap[Steps(a)[n - 1]].value]

\* The list reached from head and the chain scheduleAll walks are finite, have
\* no node in common, and consist of allocated nodes; the node scheduleAll
\* reads next and the node a producer links are allocated.  Neither the
\* deletes nor the reuse of their addresses corrupt the list.
NoDangling ==
  /\ WellFormedFrom(head) /\ WellFormedFrom(walk)
  /\ ListAddrs(head) \cap ListAddrs(walk) = {}
  /\ \A p \in Producers : ppc[p] # "idle" =>
       heap[node[p]] # Free /\ node[p] \notin ListAddrs(head) \cup ListAddrs(walk)
  /\ cpc = "delete" => heap[temp] # Free

\* Every node is on a list, about to be linked or about to be deleted: nothing
\* that insertFront allocated is leaked.
NoLeak ==
  \A a \in Addrs :
    heap[a] # Free =>
      \/ a \in ListAddrs(head) \cup ListAddrs(walk) \cup {temp}
      \/ \E p \in Producers : ppc[p] # "idle" /\ node[p] = a

\* What scheduleAll took and has not yet given to addExecutor.
Batch == IF cpc = "advance" THEN Tail(ListValues(walk)) ELSE ListValues(walk)

\* The list is an atomic stack.
Stack == INSTANCE TaskStack WITH
           stack <- ListValues(head), batch <- Batch, delivered <- delivered

\* insertFront takes effect at its successful compare-exchange and scheduleAll
\* at its exchange; no task is lost, duplicated or reordered in between.
ImplementsStack == Stack!Spec
=============================================================================
