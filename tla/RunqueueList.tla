---------------------------- MODULE RunqueueList ----------------------------
(***************************************************************************)
(* The runqueue of one pCPU as the doubly linked list it is                *)
(* (include/lib/list.h): a list head, one node per vCPU (ed->head), and    *)
(* the stores of LIST_ADDTAIL and LIST_DELINIT one at a time.  The home    *)
(* pCPU executes sched_rr_do_schedule and sched_rr_vcpu_detach; any pCPU   *)
(* may execute sched_rr_vcpu_attach, for a vCPU it switches on with PSCI   *)
(* CPU_ON.  Stores are seen by every pCPU in the order they are made.      *)
(*                                                                         *)
(* next and prev are written without optimisation (the build passes no -O  *)
(* flag), so list->prev is read anew by each statement.                    *)
(***************************************************************************)
EXTENDS Integers, Sequences, SequencesExt

CONSTANTS
    Nodes,      \* the entries' list nodes, one per vCPU homed on this pCPU
    Runqueue,       \* &sd->runqueue
    Null,       \* NULL
    Home,       \* the pCPU that owns the runqueue
    Others      \* the other pCPUs, which attach only

ASSUME RunqueueListAssumption ==
    /\ Runqueue \notin Nodes /\ Null \notin Nodes /\ Runqueue # Null
    /\ Home \notin Others

VARIABLES
    next, prev,     \* the links of Runqueue and of every node
    current,        \* sd->current
    state,          \* entry->state of each node's vCPU
    pc,             \* the next store of each pCPU
    item,           \* the node that pCPU inserts or removes
    queue           \* the vCPUs waiting, in order, were the calls atomic

vars == <<next, prev, current, state, pc, item, queue>>

Links  == Nodes \cup {Runqueue}
Cpus   == Others \cup {Home}
Steps  == {"idle", "add_next", "add_prev", "add_link", "add_tail", "pick",
           "del_next", "del_prev", "del_selfnext", "del_selfprev"}

Init ==
    /\ next = [n \in Links |-> n]
    /\ prev = [n \in Links |-> n]
    /\ current = Null
    /\ state = [n \in Nodes |-> "detached"]
    /\ pc    = [c \in Cpus |-> "idle"]
    /\ item  = [c \in Cpus |-> Null]
    /\ queue = <<>>

Goto(c, step) == pc' = [pc EXCEPT ![c] = step]

----------------------------------------------------------------------------
(* The statements of list_addtail(item, &sd->runqueue).                    *)

AddNext(c) ==
    /\ pc[c] = "add_next"
    /\ next' = [next EXCEPT ![item[c]] = Runqueue]
    /\ Goto(c, "add_prev")
    /\ UNCHANGED <<prev, current, state, item, queue>>

AddPrev(c) ==
    /\ pc[c] = "add_prev"
    /\ prev' = [prev EXCEPT ![item[c]] = prev[Runqueue]]
    /\ Goto(c, "add_link")
    /\ UNCHANGED <<next, current, state, item, queue>>

\* list->prev->next = item
AddLink(c) ==
    /\ pc[c] = "add_link"
    /\ next' = [next EXCEPT ![prev[Runqueue]] = item[c]]
    /\ Goto(c, "add_tail")
    /\ UNCHANGED <<prev, current, state, item, queue>>

\* The insertion is the one of do_schedule, not that of an attach.
Requeues(c) == c = Home /\ item[c] = current

\* Faulty variant of the last store: forgotten.
AddTailNot(c) ==
    /\ pc[c] = "add_tail"
    /\ queue' = Append(queue, item[c])
    /\ current' = IF Requeues(c) THEN Null ELSE current
    /\ Goto(c, IF Requeues(c) THEN "pick" ELSE "idle")
    /\ UNCHANGED <<next, prev, state, item>>

\* list->prev = item.  In do_schedule the inserted node is sd->current, which
\* is then set to NULL before the next entry is picked.
AddTail(c) ==
    /\ pc[c] = "add_tail"
    /\ prev'  = [prev EXCEPT ![Runqueue] = item[c]]
    /\ queue' = Append(queue, item[c])
    /\ current' = IF Requeues(c) THEN Null ELSE current
    /\ Goto(c, IF Requeues(c) THEN "pick" ELSE "idle")
    /\ UNCHANGED <<next, state, item>>

(* The statements of list_delinit(item).                                   *)

DelNext(c) ==
    /\ pc[c] = "del_next"
    /\ next' = [next EXCEPT ![prev[item[c]]] = next[item[c]]]
    /\ Goto(c, "del_prev")
    /\ UNCHANGED <<prev, current, state, item, queue>>

DelPrevOfHead(c) ==     \* faulty: the head's link instead of the successor's
    /\ pc[c] = "del_prev"
    /\ prev' = [prev EXCEPT ![Runqueue] = prev[item[c]]]
    /\ Goto(c, "del_selfnext")
    /\ UNCHANGED <<next, current, state, item, queue>>

DelPrev(c) ==
    /\ pc[c] = "del_prev"
    /\ prev' = [prev EXCEPT ![next[item[c]]] = prev[item[c]]]
    /\ Goto(c, "del_selfnext")
    /\ UNCHANGED <<next, current, state, item, queue>>

DelSelfNext(c) ==
    /\ pc[c] = "del_selfnext"
    /\ next' = [next EXCEPT ![item[c]] = item[c]]
    /\ Goto(c, "del_selfprev")
    /\ UNCHANGED <<prev, current, state, item, queue>>

DelSelfPrev(c) ==
    /\ pc[c] = "del_selfprev"
    /\ prev' = [prev EXCEPT ![item[c]] = item[c]]
    /\ queue' = RemoveFirst(queue, item[c])
    /\ state' = IF item[c] = current /\ current \in Nodes
                THEN [state EXCEPT ![current] = "running"] ELSE state
    /\ Goto(c, "idle")
    /\ UNCHANGED <<next, current, item>>

----------------------------------------------------------------------------
(* The calls.                                                              *)

\* sched_vcpu_attach: the state is tested and set before the list is touched.
Attach(c, n) ==
    /\ pc[c] = "idle"
    /\ state[n] = "detached"
    /\ state' = [state EXCEPT ![n] = "waiting"]
    /\ item'  = [item EXCEPT ![c] = n]
    /\ Goto(c, "add_next")
    /\ UNCHANGED <<next, prev, current, queue>>

\* sched_rr_do_schedule with a vCPU running: it goes back to the runqueue.
Requeue ==
    /\ pc[Home] = "idle"
    /\ current # Null
    /\ item'  = [item EXCEPT ![Home] = current]
    /\ state' = [state EXCEPT ![current] = "waiting"]
    /\ Goto(Home, "add_next")
    /\ UNCHANGED <<next, prev, current, queue>>

\* With none running (the loop of sched_start, or after a detach) it only
\* looks whether the runqueue is empty.
FindWaiting ==
    /\ pc[Home] = "idle"
    /\ current = Null
    /\ next[Runqueue] # Runqueue
    /\ Goto(Home, "pick")
    /\ UNCHANGED <<next, prev, current, state, item, queue>>

\* Faulty variant of PickNext: takes the last entry.
PickLast ==
    /\ pc[Home] = "pick"
    /\ current' = prev[Runqueue]
    /\ item'    = [item EXCEPT ![Home] = prev[Runqueue]]
    /\ Goto(Home, "del_next")
    /\ UNCHANGED <<next, prev, state, queue>>

\* sd->current = sd->runqueue.next
PickNext ==
    /\ pc[Home] = "pick"
    /\ current' = next[Runqueue]
    /\ item'    = [item EXCEPT ![Home] = next[Runqueue]]
    /\ Goto(Home, "del_next")
    /\ UNCHANGED <<next, prev, state, queue>>

\* sched_rr_vcpu_detach of the running vCPU: its node is self-linked.
Detach ==
    /\ pc[Home] = "idle"
    /\ current # Null
    /\ item'    = [item EXCEPT ![Home] = current]
    /\ current' = Null
    /\ Goto(Home, "del_next")
    /\ UNCHANGED <<next, prev, state, queue>>

Store(c) == \/ AddNext(c) \/ AddPrev(c) \/ AddLink(c) \/ AddTail(c)
            \/ DelNext(c) \/ DelPrev(c) \/ DelSelfNext(c) \/ DelSelfPrev(c)

Begin(c) == \/ \E n \in Nodes : Attach(c, n)
            \/ c = Home /\ (Requeue \/ FindWaiting \/ Detach)

Run(c) == Store(c) \/ (c = Home /\ PickNext)

\* Calls of different pCPUs interleave: nothing excludes them.
Next == \E c \in Cpus : Begin(c) \/ Run(c)

\* A call begins only when no other one is in progress, as when every caller
\* runs on the home pCPU with interrupts masked, or takes a common lock.
Serial(c) == \A d \in Cpus : pc[d] = "idle"
NextSerial == \E c \in Cpus : (Serial(c) /\ Begin(c)) \/ Run(c)

Fairness == \A c \in Cpus : WF_vars(Run(c))
Polling  == WF_vars(Serial(Home) /\ (Requeue \/ FindWaiting))

Spec       == Init /\ [][Next]_vars /\ Fairness
SpecSerial == Init /\ [][NextSerial]_vars /\ Fairness /\ Polling

----------------------------------------------------------------------------
(* Correctness.                                                            *)

\* Links stay links, and what is inserted, removed or run is an entry's node.
TypeOK ==
    /\ next \in [Links -> Links] /\ prev \in [Links -> Links]
    /\ current \in Nodes \cup {Null}
    /\ state \in [Nodes -> {"detached", "waiting", "running"}]
    /\ pc \in [Cpus -> Steps]
    /\ item \in [Cpus -> Nodes \cup {Null}]
    /\ queue \in Seq(Nodes)

Quiet == \A c \in Cpus : pc[c] = "idle"

\* The assertions of list_validate (include/lib/list.h:123-126): between
\* calls, the links around the list head agree in both directions.
ListValidate ==
    Quiet => /\ prev[next[Runqueue]] = Runqueue /\ next[prev[Runqueue]] = Runqueue
             /\ \A n \in Nodes : prev[next[n]] = n /\ next[prev[n]] = n

\* Between calls the list read from the head is the queue of waiting vCPUs,
\* in order, and the nodes that wait nowhere are linked to themselves: the
\* linked list implements the sequence that module Scheduler uses.
IsTheQueue ==
    Quiet =>
        LET ring == <<Runqueue>> \o queue
            succ(i) == ring[(i % Len(ring)) + 1]
        IN  /\ \A i \in DOMAIN ring : next[ring[i]] = succ(i)
            /\ \A n \in Nodes \ ToSet(queue) : next[n] = n

\* Whatever is waiting gets to run.
WaitingRuns == \A n \in Nodes : state[n] = "waiting" ~> state[n] = "running"
=============================================================================
