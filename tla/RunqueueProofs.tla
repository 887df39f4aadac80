---------------------------- MODULE RunqueueProofs ----------------------------
(***************************************************************************)
(* The doubly linked list of list.h implements the sequence that module    *)
(* Scheduler uses in its place, for any number of vCPUs and pCPUs, as long *)
(* as no two calls overlap (SpecSerial).                                   *)
(*                                                                         *)
(* Links are read as positions of the queue: position 0 and the one after  *)
(* the last are the list head.  Between two stores the list is the queue   *)
(* with one link of it, or of the node moved, still to be written; the     *)
(* invariant says which, for each program counter.                         *)
(***************************************************************************)
EXTENDS RunqueueList, TLAPS

----------------------------------------------------------------------------
(* Lists and sequences.                                                    *)

In(n, q)    == \E i \in 1 .. Len(q) : q[i] = n
Distinct(q) == \A i, j \in 1 .. Len(q) : q[i] = q[j] => i = j

\* The link at a position of the ring.
Pos(q, i) == IF i = 0 \/ i = Len(q) + 1 THEN Runqueue ELSE q[i]

\* The successors f, or the predecessors g, are those of q, and whoever is not
\* in it is linked to itself.
Forward(f, q) ==
    /\ \A i \in 0 .. Len(q) : f[Pos(q, i)] = Pos(q, i + 1)
    /\ \A n \in Nodes : ~ In(n, q) => f[n] = n

Backward(g, q) ==
    /\ \A i \in 0 .. Len(q) : g[Pos(q, i + 1)] = Pos(q, i)
    /\ \A n \in Nodes : ~ In(n, q) => g[n] = n

\* Writing the successor of the last link makes x the last one.
LEMMA AppendForward ==
    ASSUME NEW q \in Seq(Nodes), Distinct(q), NEW x \in Nodes, ~ In(x, q),
           NEW f \in [Links -> Links], f[x] = Runqueue,
           Forward([f EXCEPT ![x] = x], q)
    PROVE  Forward([f EXCEPT ![Pos(q, Len(q))] = x], Append(q, x))
<1> DEFINE r == Append(q, x)
           h == [f EXCEPT ![Pos(q, Len(q))] = x]
<1>1. /\ Len(q) \in Nat /\ Len(r) = Len(q) + 1 /\ r[Len(q) + 1] = x
      /\ \A i \in 1 .. Len(q) : r[i] = q[i] /\ q[i] \in Nodes
    OBVIOUS
<1>2. \A i \in 0 .. Len(q) : Pos(r, i) = Pos(q, i) /\ Pos(q, i) \in Links /\ Pos(q, i) # x
    BY <1>1, RunqueueListAssumption DEF Pos, Links, In
<1>3. Pos(r, Len(q) + 1) = x /\ Pos(r, Len(q) + 2) = Runqueue
    BY <1>1 DEF Pos
<1>4. \A i, j \in 0 .. Len(q) : Pos(q, i) = Pos(q, j) => i = j
    BY <1>1, RunqueueListAssumption DEF Pos, Distinct
<1>5. ASSUME NEW i \in 0 .. Len(r) PROVE h[Pos(r, i)] = Pos(r, i + 1)
    <2>1. CASE i < Len(q)
        <3>1. f[Pos(q, i)] = Pos(q, i + 1)
            BY <1>1, <1>2, <2>1 DEF Forward
        <3>2. Pos(q, i) # Pos(q, Len(q))
            BY <1>1, <1>4, <2>1
        <3> QED
            BY <1>1, <1>2, <2>1, <3>1, <3>2
    <2>2. CASE i = Len(q)
        BY <1>1, <1>2, <1>3, <2>2
    <2>3. CASE i = Len(q) + 1
        <3>1. h[x] = f[x]
            BY <1>1, <1>2 DEF Links
        <3> QED
            BY <1>1, <1>3, <2>3, <3>1
    <2> QED
        BY <1>1, <2>1, <2>2, <2>3
<1>6. ASSUME NEW n \in Nodes, ~ In(n, r) PROVE h[n] = n
    <2>1. n # x /\ ~ In(n, q)
        BY <1>1, <1>6 DEF In
    <2>2. n # Pos(q, Len(q))
        BY <1>1, <2>1, RunqueueListAssumption DEF Pos, In
    <2>3. f[n] = n
        BY <2>1 DEF Forward, Links
    <2> QED
        BY <2>2, <2>3 DEF Links
<1> QED
    BY <1>5, <1>6 DEF Forward

\* Writing the predecessor of the list head makes x the last one.
LEMMA AppendBackward ==
    ASSUME NEW q \in Seq(Nodes), Distinct(q), NEW x \in Nodes, ~ In(x, q),
           NEW g \in [Links -> Links], g[x] = Pos(q, Len(q)),
           Backward([g EXCEPT ![x] = x], q)
    PROVE  Backward([g EXCEPT ![Runqueue] = x], Append(q, x))
<1> DEFINE r == Append(q, x)
           h == [g EXCEPT ![Runqueue] = x]
<1>1. /\ Len(q) \in Nat /\ Len(r) = Len(q) + 1 /\ r[Len(q) + 1] = x
      /\ \A i \in 1 .. Len(q) : r[i] = q[i] /\ q[i] \in Nodes
    OBVIOUS
<1>2. \A i \in 0 .. Len(q) : Pos(r, i) = Pos(q, i)
    BY <1>1 DEF Pos
<1>3. Pos(r, Len(q) + 1) = x /\ Pos(r, Len(q) + 2) = Runqueue
    BY <1>1 DEF Pos
<1>4. Runqueue \notin Nodes
    BY RunqueueListAssumption
<1>5. ASSUME NEW i \in 0 .. Len(r) PROVE h[Pos(r, i + 1)] = Pos(r, i)
    <2>1. CASE i < Len(q)
        <3>1. Pos(q, i + 1) \in Nodes /\ Pos(q, i + 1) # x
            BY <1>1, <2>1 DEF Pos, In
        <3>2. g[Pos(q, i + 1)] = Pos(q, i)
            BY <1>1, <2>1, <3>1 DEF Backward, Links
        <3> QED
            BY <1>1, <1>2, <1>4, <2>1, <3>1, <3>2 DEF Links
    <2>2. CASE i = Len(q)
        BY <1>1, <1>2, <1>3, <1>4, <2>2 DEF Links
    <2>3. CASE i = Len(q) + 1
        BY <1>1, <1>3, <2>3 DEF Links
    <2> QED
        BY <1>1, <2>1, <2>2, <2>3
<1>6. ASSUME NEW n \in Nodes, ~ In(n, r) PROVE h[n] = n
    <2>1. n # x /\ ~ In(n, q)
        BY <1>1, <1>6 DEF In
    <2> QED
        BY <1>4, <2>1 DEF Backward, Links
<1> QED
    BY <1>5, <1>6 DEF Backward

\* The positions of a queue without its first entry.
LEMMA TailPos ==
    ASSUME NEW q \in Seq(Nodes), Distinct(q), q # <<>>
    PROVE  /\ Tail(q) \in Seq(Nodes) /\ Len(q) \in Nat \ {0} /\ Len(Tail(q)) = Len(q) - 1
           /\ Distinct(Tail(q)) /\ Head(q) \in Nodes /\ Head(q) = q[1]
           /\ Pos(Tail(q), 0) = Runqueue /\ Pos(q, 1) = Head(q)
           /\ \A i \in 1 .. Len(q) : Pos(Tail(q), i) = Pos(q, i + 1)
           /\ \A n : In(n, q) <=> n = Head(q) \/ In(n, Tail(q))
           /\ ~ In(Head(q), Tail(q))
           /\ \A i, j \in 0 .. Len(q) : Pos(q, i) = Pos(q, j) => i = j
           /\ \A i, j \in 1 .. Len(q) + 1 : Pos(q, i) = Pos(q, j) => i = j
           /\ \A i \in 0 .. Len(q) + 1 : Pos(q, i) \in Links
<1> DEFINE r == Tail(q)
<1>1. /\ r \in Seq(Nodes) /\ Len(q) \in Nat \ {0} /\ Len(r) = Len(q) - 1
      /\ \A i \in 1 .. Len(r) : r[i] = q[i + 1]
      /\ \A i \in 1 .. Len(q) : q[i] \in Nodes
      /\ Head(q) = q[1]
    OBVIOUS
<1> HIDE DEF r
<1>2. Distinct(r)
    BY <1>1 DEF Distinct
<1>3. \A i \in 1 .. Len(q) : Pos(r, i) = Pos(q, i + 1)
    BY <1>1 DEF Pos
<1>4. ASSUME NEW n, In(n, q) PROVE n = Head(q) \/ In(n, r)
    <2>1. PICK i \in 1 .. Len(q) : q[i] = n
        BY <1>4 DEF In
    <2>2. i # 1 => i - 1 \in 1 .. Len(r) /\ r[i - 1] = n
        BY <1>1, <2>1
    <2> QED
        BY <1>1, <2>1, <2>2 DEF In
<1>5. \A n : n = Head(q) \/ In(n, r) => In(n, q)
    BY <1>1 DEF In
<1>6. ~ In(Head(q), r)
    BY <1>1 DEF In, Distinct
<1>7. /\ \A i, j \in 0 .. Len(q) : Pos(q, i) = Pos(q, j) => i = j
      /\ \A i, j \in 1 .. Len(q) + 1 : Pos(q, i) = Pos(q, j) => i = j
    BY <1>1, RunqueueListAssumption DEF Pos, Distinct
<1>8. \A i \in 0 .. Len(q) + 1 : Pos(q, i) \in Links
    BY <1>1 DEF Pos, Links
<1>9. Pos(r, 0) = Runqueue /\ Pos(q, 1) = Head(q) /\ 1 \in 1 .. Len(q)
    BY <1>1 DEF Pos
<1> QED
    BY <1>1, <1>2, <1>3, <1>4, <1>5, <1>6, <1>7, <1>8, <1>9 DEF r

\* Leading the head past the first entry, and linking that to itself, removes
\* it from the successors.
LEMMA TailForward ==
    ASSUME NEW q \in Seq(Nodes), Distinct(q), q # <<>>,
           NEW f \in [Links -> Links], Forward(f, q), NEW h \in [Links -> Links],
           h[Runqueue] = f[Head(q)], h[Head(q)] = Head(q),
           \A n \in Nodes : n # Head(q) => h[n] = f[n]
    PROVE  Forward(h, Tail(q))
<1> DEFINE r == Tail(q)
           x == Head(q)
<1>1. /\ Len(q) \in Nat \ {0} /\ Len(r) = Len(q) - 1 /\ x \in Nodes
      /\ Pos(r, 0) = Runqueue
      /\ \A i \in 1 .. Len(q) : Pos(r, i) = Pos(q, i + 1)
      /\ \A n : In(n, q) <=> n = x \/ In(n, r)
      /\ \A i, j \in 0 .. Len(q) : Pos(q, i) = Pos(q, j) => i = j
    BY TailPos
<1>2. Pos(q, 1) = x
    BY TailPos
<1> HIDE DEF r, x
<1>3. ASSUME NEW i \in 0 .. Len(r) PROVE h[Pos(r, i)] = Pos(r, i + 1)
    <2>1. CASE i = 0
        <3>1. f[x] = Pos(q, 2)
            BY <1>1, <1>2 DEF Forward
        <3> QED
            BY <1>1, <2>1, <3>1 DEF x
    <2>2. CASE i # 0
        <3>1. /\ Pos(r, i) = Pos(q, i + 1) /\ Pos(r, i + 1) = Pos(q, i + 2)
              /\ f[Pos(q, i + 1)] = Pos(q, i + 2)
            BY <1>1, <2>2 DEF Forward
        <3>2. Pos(q, i + 1) # x
            BY <1>1, <1>2, <2>2
        <3>3. Pos(q, i + 1) \in Nodes
            BY <1>1, <2>2 DEF Pos
        <3> QED
            BY <3>1, <3>2, <3>3 DEF x
    <2> QED
        BY <2>1, <2>2
<1>4. ASSUME NEW n \in Nodes, ~ In(n, r) PROVE h[n] = n
    BY <1>1, <1>4 DEF Forward, x
<1> QED
    BY <1>3, <1>4 DEF Forward, r

\* The same of the predecessors: the second entry, or the head, gets that of
\* the first.
LEMMA TailBackward ==
    ASSUME NEW q \in Seq(Nodes), Distinct(q), q # <<>>,
           NEW g \in [Links -> Links], Backward(g, q), NEW h \in [Links -> Links],
           h[Pos(q, 2)] = Runqueue, h[Head(q)] = Head(q),
           \A n \in Links : n # Head(q) /\ n # Pos(q, 2) => h[n] = g[n]
    PROVE  Backward(h, Tail(q))
<1> DEFINE r == Tail(q)
           x == Head(q)
<1>1. /\ Len(q) \in Nat \ {0} /\ Len(r) = Len(q) - 1 /\ x \in Nodes
      /\ Pos(r, 0) = Runqueue
      /\ \A i \in 1 .. Len(q) : Pos(r, i) = Pos(q, i + 1)
      /\ \A n : In(n, q) <=> n = x \/ In(n, r)
      /\ \A i, j \in 1 .. Len(q) + 1 : Pos(q, i) = Pos(q, j) => i = j
      /\ \A i \in 0 .. Len(q) + 1 : Pos(q, i) \in Links
    BY TailPos
<1>2. Pos(q, 1) = x
    BY TailPos
<1> HIDE DEF r, x
<1>3. ASSUME NEW i \in 0 .. Len(r) PROVE h[Pos(r, i + 1)] = Pos(r, i)
    <2>1. CASE i = 0
        BY <1>1, <2>1
    <2>2. CASE i # 0
        <3>1. /\ Pos(r, i) = Pos(q, i + 1) /\ Pos(r, i + 1) = Pos(q, i + 2)
              /\ g[Pos(q, i + 2)] = Pos(q, i + 1)
            BY <1>1, <2>2 DEF Backward
        <3>2. Pos(q, i + 2) # x /\ Pos(q, i + 2) # Pos(q, 2)
            BY <1>1, <1>2, <2>2
        <3>3. Pos(q, i + 2) \in Links
            BY <1>1, <2>2
        <3> QED
            BY <3>1, <3>2, <3>3 DEF x
    <2> QED
        BY <2>1, <2>2
<1>4. ASSUME NEW n \in Nodes, ~ In(n, r) PROVE h[n] = n
    <2>1. CASE n = x
        BY <2>1 DEF x
    <2>2. CASE n # x
        <3>1. g[n] = n
            BY <1>1, <1>4, <2>2 DEF Backward
        <3>2. n # Pos(q, 2)
            <4>1. CASE Len(q) = 1
                BY <4>1, RunqueueListAssumption DEF Pos
            <4>2. CASE Len(q) # 1
                <5>1. 1 \in 1 .. Len(r) /\ Pos(q, 2) = Pos(r, 1)
                    BY <1>1, <4>2
                <5>2. Pos(r, 1) = r[1]
                    BY <1>1, <4>2 DEF Pos
                <5> QED
                    BY <1>4, <5>1, <5>2 DEF In
            <4> QED
                BY <4>1, <4>2
        <3> QED
            BY <2>2, <3>1, <3>2 DEF x, Links
    <2> QED
        BY <2>1, <2>2
<1> QED
    BY <1>3, <1>4 DEF Backward, r

----------------------------------------------------------------------------
(* The invariant.                                                          *)

Adding   == {"add_next", "add_prev", "add_link", "add_tail"}
Removing == {"del_next", "del_prev", "del_selfnext", "del_selfprev"}

Ring == Forward(next, queue) /\ Backward(prev, queue)

IsFirst(x) == queue # <<>> /\ Head(queue) = x

\* What a call in progress inserts waits nowhere yet; what it removes is the
\* first entry, which is already current, or, in a detach, no entry at all.
Moves(c) ==
    /\ pc[c] \in Adding =>
          /\ item[c] \in Nodes /\ ~ In(item[c], queue) /\ state[item[c]] # "detached"
          /\ ~ In(current, queue) /\ (c = Home \/ item[c] # current)
    /\ pc[c] \in Removing =>
          /\ item[c] \in Nodes
          /\ \/ item[c] = current /\ IsFirst(item[c])
             \/ current = Null /\ ~ In(item[c], queue)
    /\ pc[c] = "pick" => current = Null /\ queue # <<>>

\* How far the links are from the queue, by the next store.
Written(c) ==
    LET x    == item[c]
        rest == RemoveFirst(queue, x)
        own(f) == [f EXCEPT ![x] = x]
    IN  /\ pc[c] \in {"add_next", "pick", "del_next"} => Ring
        /\ pc[c] = "add_prev" =>
              Forward(own(next), queue) /\ next[x] = Runqueue /\ Backward(prev, queue)
        /\ pc[c] = "add_link" =>
              /\ Forward(own(next), queue) /\ next[x] = Runqueue
              /\ Backward(own(prev), queue) /\ prev[x] = Pos(queue, Len(queue))
        /\ pc[c] = "add_tail" =>
              /\ Forward(next, Append(queue, x))
              /\ Backward(own(prev), queue) /\ prev[x] = Pos(queue, Len(queue))
        /\ pc[c] = "del_prev" =>
              /\ Forward(own(next), rest) /\ Backward(prev, queue)
              /\ next[x] = IF IsFirst(x) THEN Pos(queue, 2) ELSE x
        /\ pc[c] = "del_selfnext" => Forward(own(next), rest) /\ Backward(own(prev), rest)
        /\ pc[c] = "del_selfprev" => Forward(next, rest) /\ Backward(own(prev), rest)

\* A detached vCPU is nowhere, so that it can be attached.
Fresh == \A n \in Nodes : state[n] = "detached" => ~ In(n, queue) /\ n # current

OneCall == \A c, d \in Cpus : pc[c] # "idle" /\ pc[d] # "idle" => c = d

ListInv ==
    /\ TypeOK /\ Distinct(queue) /\ Fresh /\ OneCall
    /\ Quiet => Ring /\ ~ In(current, queue)
    /\ \A c \in Cpus : Moves(c) /\ Written(c)

\* With no other call in progress, only the caller's part is to be shown.
LEMMA Alone ==
    ASSUME TypeOK, NEW c \in Cpus, NEW s \in Steps, Goto(c, s),
           \A d \in Cpus : d # c => pc[d] = "idle",
           TypeOK', Distinct(queue)', Fresh',
           s # "idle" => Moves(c)' /\ Written(c)',
           s = "idle" => (Ring /\ ~ In(current, queue))'
    PROVE  ListInv'
<1>1. pc'[c] = s /\ \A d \in Cpus : d # c => pc'[d] = "idle"
    BY DEF Goto, TypeOK
<1>2. OneCall'
    BY <1>1 DEF OneCall
<1>3. Quiet' => s = "idle"
    BY <1>1 DEF Quiet
<1>4. ASSUME NEW d \in Cpus PROVE Moves(d)' /\ Written(d)'
    BY <1>1 DEF Moves, Written, Adding, Removing
<1> QED
    BY <1>2, <1>3, <1>4 DEF ListInv

\* Nobody else is in a call while one is in progress.
LEMMA Excluded ==
    ASSUME ListInv, NEW c \in Cpus, pc[c] # "idle"
    PROVE  \A d \in Cpus : d # c => pc[d] = "idle"
    BY DEF ListInv, OneCall

\* A queue with an entry more.
LEMMA AppendIn ==
    ASSUME NEW q \in Seq(Nodes), Distinct(q), NEW x \in Nodes, ~ In(x, q)
    PROVE  /\ Append(q, x) \in Seq(Nodes) /\ Distinct(Append(q, x)) /\ Append(q, x) # <<>>
           /\ \A n : In(n, Append(q, x)) <=> In(n, q) \/ n = x
<1> DEFINE r == Append(q, x)
<1>1. /\ r \in Seq(Nodes) /\ Len(q) \in Nat /\ Len(r) = Len(q) + 1 /\ r[Len(q) + 1] = x
      /\ \A i \in 1 .. Len(q) : r[i] = q[i]
    OBVIOUS
<1> HIDE DEF r
<1>2. \A i \in 1 .. Len(r) : i \in 1 .. Len(q) \/ i = Len(r)
    BY <1>1
<1>3. \A n : In(n, r) => In(n, q) \/ n = x
    BY <1>1, <1>2 DEF In
<1>4. \A n : In(n, q) \/ n = x => In(n, r)
    BY <1>1 DEF In
<1>5. Distinct(r)
    BY <1>1, <1>2 DEF Distinct, In
<1>6. r # <<>>
    BY <1>1
<1> QED
    BY <1>1, <1>3, <1>4, <1>5, <1>6 DEF r

\* RemoveFirst takes the first entry off the queue, or leaves it as it is.
LEMMA RemoveHead ==
    ASSUME NEW q \in Seq(Nodes), Distinct(q), NEW x
    PROVE  /\ q # <<>> /\ Head(q) = x => RemoveFirst(q, x) = Tail(q)
           /\ ~ In(x, q) => RemoveFirst(q, x) = q
<1>1. ASSUME q # <<>>, Head(q) = x PROVE RemoveFirst(q, x) = Tail(q)
    <2>1. /\ Len(q) \in Nat \ {0} /\ q[1] = x
          /\ SubSeq(q, 1, 0) \o SubSeq(q, 2, Len(q)) = Tail(q)
        BY <1>1
    <2>2. {i \in 1 .. Len(q) : q[i] = x} = {1}
        BY <2>1 DEF Distinct
    <2>3. SelectInSeq(q, LAMBDA v : v = x) = 1
        <3>1. SelectInSeq(q, LAMBDA v : v = x) = Min({1})
            BY <2>2 DEF SelectInSeq
        <3>2. Min({1}) = 1
            BY DEF Min
        <3> QED
            BY <3>1, <3>2
    <2>4. RemoveFirst(q, x) = RemoveAt(q, 1)
        BY <2>1, <2>3 DEF RemoveFirst
    <2> QED
        BY <2>1, <2>4 DEF RemoveAt
<1>2. ASSUME ~ In(x, q) PROVE RemoveFirst(q, x) = q
    BY <1>2 DEF RemoveFirst, In
<1> QED
    BY <1>1, <1>2

\* What is left when the first entry, or one that is not there, is removed.
LEMMA RemoveIn ==
    ASSUME NEW q \in Seq(Nodes), Distinct(q), NEW x,
           (q # <<>> /\ Head(q) = x) \/ ~ In(x, q)
    PROVE  /\ RemoveFirst(q, x) \in Seq(Nodes) /\ Distinct(RemoveFirst(q, x))
           /\ \A n : In(n, RemoveFirst(q, x)) <=> In(n, q) /\ n # x
<1>1. CASE q # <<>> /\ Head(q) = x
    <2>1. RemoveFirst(q, x) = Tail(q)
        BY <1>1, RemoveHead
    <2>2. /\ Tail(q) \in Seq(Nodes) /\ Distinct(Tail(q)) /\ ~ In(x, Tail(q))
          /\ \A n : In(n, q) <=> n = x \/ In(n, Tail(q))
        BY <1>1, TailPos
    <2> QED
        BY <2>1, <2>2
<1>2. CASE ~ In(x, q)
    BY <1>2, RemoveHead
<1> QED
    BY <1>1, <1>2

\* Nothing that is not a node is in a queue.
LEMMA OnlyNodes == ASSUME NEW q \in Seq(Nodes), NEW n, In(n, q) PROVE n \in Nodes
    BY DEF In

----------------------------------------------------------------------------
(* The steps.                                                              *)

\* A call begins: the list is the queue.
LEMMA BeginStep ==
    ASSUME ListInv, NEW c \in Cpus, Serial(c), Begin(c)
    PROVE  ListInv'
<1>1. /\ \A d \in Cpus : pc[d] = "idle"
      /\ TypeOK /\ Distinct(queue) /\ Fresh /\ Ring /\ ~ In(current, queue)
    BY DEF Serial, ListInv, Quiet
<1>2. UNCHANGED <<next, prev, queue>>
    BY DEF Begin, Attach, Requeue, FindWaiting, Detach
<1>3. Ring' /\ Distinct(queue)'
    BY <1>1, <1>2 DEF Ring, Forward, Backward, Distinct
<1>4. ASSUME NEW n \in Nodes, Attach(c, n) PROVE ListInv'
    <2>1. /\ Goto(c, "add_next") /\ state[n] = "detached" /\ item' = [item EXCEPT ![c] = n]
          /\ state' = [state EXCEPT ![n] = "waiting"] /\ current' = current
        BY <1>4 DEF Attach
    <2>2. TypeOK'
        BY <1>1, <1>2, <2>1 DEF TypeOK, Goto, Steps
    <2>3. Fresh'
        BY <1>1, <1>2, <2>1 DEF Fresh, TypeOK, In
    <2>4. item'[c] = n /\ pc'[c] = "add_next" /\ state'[n] = "waiting"
        BY <1>1, <2>1 DEF TypeOK, Goto
    <2>5. ~ In(n, queue) /\ n # current
        BY <1>1, <2>1 DEF Fresh
    <2>6. Moves(c)'
        BY <1>1, <1>2, <2>1, <2>4, <2>5 DEF Moves, Adding, Removing, In
    <2>7. Written(c)'
        BY <1>3, <2>4 DEF Written
    <2> QED
        BY <1>1, <1>3, <2>1, <2>2, <2>3, <2>6, <2>7, Alone DEF Steps
<1>5. ASSUME c = Home, Requeue PROVE ListInv'
    <2>1. /\ Goto(c, "add_next") /\ current \in Nodes /\ item' = [item EXCEPT ![c] = current]
          /\ state' = [state EXCEPT ![current] = "waiting"] /\ current' = current
        BY <1>1, <1>5 DEF Requeue, TypeOK
    <2>2. TypeOK'
        BY <1>1, <1>2, <2>1 DEF TypeOK, Goto, Steps
    <2>3. Fresh'
        BY <1>1, <1>2, <2>1 DEF Fresh, TypeOK, In
    <2>4. item'[c] = current /\ pc'[c] = "add_next" /\ state'[current] = "waiting"
        BY <1>1, <2>1 DEF TypeOK, Goto
    <2>5. Moves(c)'
        BY <1>1, <1>2, <1>5, <2>1, <2>4 DEF Moves, Adding, Removing, In
    <2>6. Written(c)'
        BY <1>3, <2>4 DEF Written
    <2> QED
        BY <1>1, <1>3, <2>1, <2>2, <2>3, <2>5, <2>6, Alone DEF Steps
<1>6. ASSUME c = Home, FindWaiting PROVE ListInv'
    <2>1. Goto(c, "pick") /\ current = Null /\ UNCHANGED <<current, state, item>>
        BY <1>6 DEF FindWaiting
    <2>2. TypeOK' /\ Fresh'
        BY <1>1, <1>2, <2>1 DEF TypeOK, Goto, Steps, Fresh, In
    <2>3. pc'[c] = "pick"
        BY <1>1, <2>1 DEF TypeOK, Goto
    <2>4. queue # <<>>
        <3>1. next[Runqueue] # Runqueue
            BY <1>6 DEF FindWaiting
        <3>2. queue = <<>> => Len(queue) = 0
            OBVIOUS
        <3>3. queue = <<>> => next[Runqueue] = Runqueue
            BY <1>1, <3>2 DEF Ring, Forward, Pos
        <3> QED
            BY <3>1, <3>3
    <2>5. Moves(c)'
        BY <1>2, <2>1, <2>3, <2>4 DEF Moves, Adding, Removing
    <2>6. Written(c)'
        BY <1>3, <2>3 DEF Written
    <2> QED
        BY <1>1, <1>3, <2>1, <2>2, <2>5, <2>6, Alone DEF Steps
<1>7. ASSUME c = Home, Detach PROVE ListInv'
    <2>1. /\ Goto(c, "del_next") /\ current \in Nodes /\ item' = [item EXCEPT ![c] = current]
          /\ current' = Null /\ UNCHANGED state
        BY <1>1, <1>7 DEF Detach, TypeOK
    <2>2. TypeOK' /\ Fresh'
        BY <1>1, <1>2, <2>1, RunqueueListAssumption DEF TypeOK, Goto, Steps, Fresh, In
    <2>3. item'[c] = current /\ pc'[c] = "del_next"
        BY <1>1, <2>1 DEF TypeOK, Goto
    <2>4. Moves(c)'
        BY <1>1, <1>2, <2>1, <2>3 DEF Moves, Adding, Removing, In
    <2>5. Written(c)'
        BY <1>3, <2>3 DEF Written
    <2> QED
        BY <1>1, <1>3, <2>1, <2>2, <2>4, <2>5, Alone DEF Steps
<1> QED
    BY <1>4, <1>5, <1>6, <1>7 DEF Begin

\* A store in the middle of a call: only links change.
LEMMA LinkStep ==
    ASSUME ListInv, NEW c \in Cpus, NEW s, Goto(c, s), UNCHANGED <<current, state, item, queue>>,
           \/ pc[c] \in Adding /\ s \in Adding
           \/ pc[c] \in Removing /\ s \in Removing,
           next' \in [Links -> Links], prev' \in [Links -> Links], Written(c)'
    PROVE  ListInv'
<1>1. TypeOK /\ Distinct(queue) /\ Fresh /\ Moves(c) /\ pc[c] # "idle" /\ s \in Steps /\ s # "idle"
    BY DEF ListInv, Adding, Removing, Steps
<1>2. TypeOK' /\ Distinct(queue)' /\ Fresh'
    BY <1>1 DEF TypeOK, Goto, Distinct, Fresh, In
<1>3. pc'[c] = s
    BY <1>1 DEF TypeOK, Goto
<1>4. Moves(c)'
    BY <1>1, <1>3 DEF Moves, Adding, Removing, In, IsFirst
<1> QED
    BY <1>1, <1>2, <1>4, Excluded, Alone

\* The first three stores of list_addtail.
LEMMA AddStep ==
    ASSUME ListInv, NEW c \in Cpus, AddNext(c) \/ AddPrev(c) \/ AddLink(c)
    PROVE  ListInv'
<1> DEFINE x == item[c]
<1>1. /\ next \in [Links -> Links] /\ prev \in [Links -> Links] /\ queue \in Seq(Nodes)
      /\ Distinct(queue) /\ Written(c)
      /\ pc[c] \in Adding
      /\ pc \in [Cpus -> Steps]
    BY DEF ListInv, TypeOK, AddNext, AddPrev, AddLink, Adding
<1>2. x \in Nodes /\ x \in Links /\ x # Runqueue /\ Runqueue \in Links /\ ~ In(x, queue)
    BY <1>1, RunqueueListAssumption DEF ListInv, Moves, Links
<1>3. UNCHANGED <<current, state, item, queue>>
    BY DEF AddNext, AddPrev, AddLink
<1>4. Len(queue) \in Nat /\ Pos(queue, Len(queue)) \in Links /\ Pos(queue, Len(queue) + 1) = Runqueue
    BY <1>1 DEF Pos, Links
<1>5. CASE AddNext(c)
    <2>1. /\ next' = [next EXCEPT ![x] = Runqueue] /\ prev' = prev
          /\ pc[c] = "add_next" /\ Goto(c, "add_prev") /\ pc'[c] = "add_prev"
        BY <1>1, <1>5 DEF AddNext, Goto
    <2>2. Ring /\ next[x] = x
        BY <1>1, <1>2, <2>1 DEF Written, Ring, Forward
    <2>3. [next' EXCEPT ![x] = x] = next
        BY <1>1, <1>2, <2>1, <2>2
    <2>4. Written(c)'
        BY <1>1, <1>2, <1>3, <2>1, <2>2, <2>3 DEF Written, Ring
    <2> QED
        BY <1>1, <1>2, <1>3, <2>1, <2>4, LinkStep DEF Adding
<1>6. CASE AddPrev(c)
    <2>1. /\ next' = next /\ prev' = [prev EXCEPT ![x] = prev[Runqueue]]
          /\ pc[c] = "add_prev" /\ Goto(c, "add_link") /\ pc'[c] = "add_link"
        BY <1>1, <1>6 DEF AddPrev, Goto
    <2>2. /\ Forward([next EXCEPT ![x] = x], queue) /\ next[x] = Runqueue
          /\ Backward(prev, queue) /\ prev[x] = x /\ prev[Runqueue] = Pos(queue, Len(queue))
        BY <1>1, <1>2, <1>4, <2>1 DEF Written, Backward
    <2>3. [prev' EXCEPT ![x] = x] = prev /\ prev'[x] = Pos(queue, Len(queue))
        BY <1>1, <1>2, <2>1, <2>2
    <2>4. Written(c)'
        BY <1>1, <1>3, <2>1, <2>2, <2>3 DEF Written
    <2> QED
        BY <1>1, <1>2, <1>3, <2>1, <2>4, LinkStep DEF Adding
<1>7. CASE AddLink(c)
    <2>1. /\ next' = [next EXCEPT ![prev[Runqueue]] = x] /\ prev' = prev
          /\ pc[c] = "add_link" /\ Goto(c, "add_tail") /\ pc'[c] = "add_tail"
        BY <1>1, <1>7 DEF AddLink, Goto
    <2>2. /\ Forward([next EXCEPT ![x] = x], queue) /\ next[x] = Runqueue
          /\ Backward([prev EXCEPT ![x] = x], queue) /\ prev[x] = Pos(queue, Len(queue))
        BY <1>1, <2>1 DEF Written
    <2>3. prev[Runqueue] = Pos(queue, Len(queue))
        <3>1. [prev EXCEPT ![x] = x][Pos(queue, Len(queue) + 1)] = Pos(queue, Len(queue))
            BY <1>4, <2>2 DEF Backward
        <3> QED
            BY <1>1, <1>2, <1>4, <3>1
    <2>4. Forward(next', Append(queue, x))
        BY <1>1, <1>2, <2>1, <2>2, <2>3, AppendForward
    <2>5. Written(c)'
        BY <1>1, <1>3, <2>1, <2>2, <2>4 DEF Written
    <2> QED
        BY <1>1, <1>2, <1>3, <2>1, <2>5, LinkStep DEF Adding
<1> QED
    BY <1>5, <1>6, <1>7

\* The last store of list_addtail: x waits, and do_schedule goes on to pick.
LEMMA AddTailStep == ASSUME ListInv, NEW c \in Cpus, AddTail(c) PROVE ListInv'
<1> DEFINE x == item[c]
           s == IF Requeues(c) THEN "pick" ELSE "idle"
<1>1. /\ TypeOK /\ Distinct(queue) /\ Fresh /\ Written(c) /\ Moves(c) /\ pc[c] = "add_tail"
    BY DEF ListInv, AddTail
<1>2. /\ prev' = [prev EXCEPT ![Runqueue] = x] /\ queue' = Append(queue, x)
      /\ current' = IF Requeues(c) THEN Null ELSE current
      /\ Goto(c, s) /\ s \in Steps
      /\ UNCHANGED <<next, state, item>>
    BY DEF AddTail, Steps
<1>3. /\ x \in Nodes /\ ~ In(x, queue) /\ state[x] # "detached" /\ ~ In(current, queue)
      /\ c = Home \/ x # current
      /\ Null \notin Nodes /\ x \in Links /\ Runqueue \in Links
    BY <1>1, RunqueueListAssumption DEF Moves, Adding, Links
<1>4. /\ queue' \in Seq(Nodes) /\ Distinct(queue') /\ queue' # <<>>
      /\ \A n : In(n, queue') <=> In(n, queue) \/ n = x
    BY <1>1, <1>2, <1>3, AppendIn DEF TypeOK
<1>5. TypeOK'
    BY <1>1, <1>2, <1>3, <1>4 DEF TypeOK, Goto
<1>6. Fresh'
    BY <1>1, <1>2, <1>3, <1>4 DEF Fresh
<1>7. Forward(next', queue') /\ Backward(prev', queue')
    <2>1. /\ Forward(next, Append(queue, x)) /\ prev[x] = Pos(queue, Len(queue))
          /\ Backward([prev EXCEPT ![x] = x], queue)
        BY <1>1 DEF Written
    <2> QED
        BY <1>1, <1>2, <1>3, <2>1, AppendBackward DEF TypeOK
<1>8. pc'[c] = s
    BY <1>1, <1>2 DEF TypeOK, Goto
<1>9. s # "idle" => Moves(c)' /\ Written(c)'
    BY <1>2, <1>4, <1>7, <1>8 DEF Moves, Written, Ring, Adding, Removing
<1>10. s = "idle" => (Ring /\ ~ In(current, queue))'
    <2>1. s = "idle" => current # x /\ current' = current
        BY <1>2, <1>3 DEF Requeues
    <2> QED
        BY <1>3, <1>4, <1>7, <2>1 DEF Ring
<1>11. \A d \in Cpus : d # c => pc[d] = "idle"
    BY <1>1, Excluded
<1> QED
    BY <1>1, <1>2, <1>4, <1>5, <1>6, <1>9, <1>10, <1>11, Alone

\* do_schedule takes the first entry.
LEMMA PickStep == ASSUME ListInv, PickNext PROVE ListInv'
<1>1. /\ TypeOK /\ Distinct(queue) /\ Fresh /\ pc[Home] = "pick" /\ Home \in Cpus
      /\ Ring /\ queue # <<>> /\ queue \in Seq(Nodes)
    BY DEF ListInv, TypeOK, PickNext, Moves, Written, Cpus
<1>2. next[Runqueue] = Head(queue) /\ Head(queue) \in Nodes /\ In(Head(queue), queue)
    <2>1. Pos(queue, 0) = Runqueue /\ Pos(queue, 1) = Head(queue)
        BY <1>1, TailPos DEF Pos
    <2> QED
        BY <1>1, <2>1, TailPos DEF Ring, Forward
<1>3. /\ current' = Head(queue) /\ item' = [item EXCEPT ![Home] = Head(queue)]
      /\ Goto(Home, "del_next") /\ UNCHANGED <<next, prev, state, queue>>
    BY <1>2 DEF PickNext
<1>4. TypeOK'
    BY <1>1, <1>2, <1>3 DEF TypeOK, Goto, Steps
<1>5. Fresh'
    BY <1>1, <1>2, <1>3 DEF Fresh, In
<1>6. Distinct(queue)' /\ Ring'
    BY <1>1, <1>3 DEF Distinct, Ring, Forward, Backward
<1>7. pc'[Home] = "del_next" /\ item'[Home] = Head(queue)
    BY <1>1, <1>3 DEF TypeOK, Goto
<1>8. Moves(Home)' /\ Written(Home)'
    BY <1>1, <1>2, <1>3, <1>6, <1>7 DEF Moves, Written, Adding, Removing, IsFirst
<1>9. \A d \in Cpus : d # Home => pc[d] = "idle"
    BY <1>1, Excluded
<1> QED
    BY <1>1, <1>3, <1>4, <1>5, <1>6, <1>8, <1>9, Alone DEF Steps

\* The first three stores of list_delinit.
LEMMA DelStep ==
    ASSUME ListInv, NEW c \in Cpus, DelNext(c) \/ DelPrev(c) \/ DelSelfNext(c)
    PROVE  ListInv'
<1> DEFINE x == item[c]
           rest == RemoveFirst(queue, x)
<1>1. /\ next \in [Links -> Links] /\ prev \in [Links -> Links] /\ queue \in Seq(Nodes)
      /\ Distinct(queue) /\ Written(c) /\ Moves(c)
      /\ pc[c] \in Removing /\ pc \in [Cpus -> Steps]
    BY DEF ListInv, TypeOK, DelNext, DelPrev, DelSelfNext, Removing
<1>2. x \in Nodes /\ x \in Links /\ x # Runqueue /\ Runqueue \in Links
    BY <1>1, RunqueueListAssumption DEF Moves, Links
<1>3. IsFirst(x) \/ ~ In(x, queue)
    BY <1>1 DEF Moves
<1>4. UNCHANGED <<current, state, item, queue>>
    BY DEF DelNext, DelPrev, DelSelfNext
<1>5. IsFirst(x) => /\ rest = Tail(queue) /\ In(x, queue)
                    /\ Pos(queue, 0) = Runqueue /\ Pos(queue, 1) = x
                    /\ Pos(queue, 2) \in Links /\ Pos(queue, 2) # x
    <2> SUFFICES ASSUME IsFirst(x)
                 PROVE  /\ rest = Tail(queue) /\ In(x, queue)
                        /\ Pos(queue, 0) = Runqueue /\ Pos(queue, 1) = x
                        /\ Pos(queue, 2) \in Links /\ Pos(queue, 2) # x
        OBVIOUS
    <2>1. queue # <<>> /\ Head(queue) = x /\ Len(queue) \in Nat \ {0}
        BY <1>1 DEF IsFirst
    <2>2. 1 \in 1 .. Len(queue) + 1 /\ 2 \in 1 .. Len(queue) + 1 /\ 2 \in 0 .. Len(queue) + 1
        BY <2>1
    <2>3. /\ Pos(queue, 1) = Head(queue) /\ Pos(queue, 2) \in Links /\ In(x, queue)
          /\ \A i, j \in 1 .. Len(queue) + 1 : Pos(queue, i) = Pos(queue, j) => i = j
        BY <1>1, <2>1, <2>2, TailPos
    <2>4. Pos(queue, 2) # Pos(queue, 1)
        BY <2>2, <2>3
    <2> QED
        BY <1>1, <2>1, <2>3, <2>4, RemoveHead DEF Pos
<1>6. ~ IsFirst(x) => rest = queue /\ ~ In(x, queue)
    BY <1>1, <1>3, RemoveHead DEF IsFirst
<1> HIDE DEF rest
<1>7. CASE DelNext(c)
    <2>1. /\ next' = [next EXCEPT ![prev[x]] = next[x]] /\ prev' = prev
          /\ pc[c] = "del_next" /\ Goto(c, "del_prev") /\ pc'[c] = "del_prev"
        BY <1>1, <1>7 DEF DelNext, Goto
    <2>2. Forward(next, queue) /\ Backward(prev, queue)
        BY <1>1, <2>1 DEF Written, Ring
    <2>3. CASE IsFirst(x)
        <3>1. prev[x] = Runqueue /\ next[x] = Pos(queue, 2)
            <4>1. 0 \in 0 .. Len(queue) /\ 1 \in 0 .. Len(queue)
                BY <1>1, <2>3 DEF IsFirst
            <4>2. prev[Pos(queue, 1)] = Pos(queue, 0) /\ next[Pos(queue, 1)] = Pos(queue, 2)
                BY <2>2, <4>1 DEF Forward, Backward
            <4> QED
                BY <1>5, <2>3, <4>2
        <3>2. Forward([next' EXCEPT ![x] = x], Tail(queue))
            <4> DEFINE h == [next' EXCEPT ![x] = x]
            <4>1. /\ h \in [Links -> Links] /\ h[Runqueue] = next[x] /\ h[x] = x
                  /\ \A n \in Nodes : n # x => h[n] = next[n]
                BY <1>1, <1>2, <2>1, <3>1, RunqueueListAssumption DEF Links
            <4>2. queue # <<>> /\ Head(queue) = x
                BY <2>3 DEF IsFirst
            <4> HIDE DEF h, x
            <4>3. Forward(h, Tail(queue))
                BY <1>1, <2>2, <4>1, <4>2, TailForward
            <4> QED
                BY <4>3 DEF h
        <3>3. next'[x] = Pos(queue, 2)
            BY <1>1, <1>2, <2>1, <3>1
        <3>4. Written(c)'
            BY <1>4, <1>5, <2>1, <2>2, <2>3, <3>2, <3>3 DEF Written, IsFirst, rest
        <3> QED
            BY <1>1, <1>2, <1>4, <2>1, <3>4, LinkStep DEF Removing
    <2>4. CASE ~ IsFirst(x)
        <3>1. prev[x] = x /\ next[x] = x
            BY <1>2, <1>6, <2>2, <2>4 DEF Forward, Backward
        <3>2. next' = next /\ [next' EXCEPT ![x] = x] = next
            BY <1>1, <1>2, <2>1, <3>1
        <3>3. Written(c)'
            BY <1>4, <1>6, <2>1, <2>2, <2>4, <3>1, <3>2 DEF Written, IsFirst, rest
        <3> QED
            BY <1>1, <1>2, <1>4, <2>1, <3>2, <3>3, LinkStep DEF Removing
    <2> QED
        BY <2>3, <2>4
<1>8. CASE DelPrev(c)
    <2>1. /\ next' = next /\ prev' = [prev EXCEPT ![next[x]] = prev[x]]
          /\ pc[c] = "del_prev" /\ Goto(c, "del_selfnext") /\ pc'[c] = "del_selfnext"
        BY <1>1, <1>8 DEF DelPrev, Goto
    <2>2. /\ Forward([next EXCEPT ![x] = x], rest) /\ Backward(prev, queue)
          /\ next[x] = IF IsFirst(x) THEN Pos(queue, 2) ELSE x
        BY <1>1, <2>1 DEF Written, rest
    <2>3. Backward([prev' EXCEPT ![x] = x], rest)
        <3>1. CASE IsFirst(x)
            <4> DEFINE h == [prev' EXCEPT ![x] = x]
            <4>1. prev[x] = Runqueue
                <5>1. 0 \in 0 .. Len(queue)
                    BY <1>1
                <5>2. prev[Pos(queue, 1)] = Pos(queue, 0)
                    BY <2>2, <5>1 DEF Backward
                <5> QED
                    BY <1>5, <3>1, <5>2
            <4>2. /\ h \in [Links -> Links] /\ h[Pos(queue, 2)] = Runqueue /\ h[x] = x
                  /\ \A n \in Links : n # x /\ n # Pos(queue, 2) => h[n] = prev[n]
                BY <1>1, <1>2, <1>5, <2>1, <2>2, <3>1, <4>1
            <4>3. queue # <<>> /\ Head(queue) = x
                BY <3>1 DEF IsFirst
            <4> HIDE DEF h, x
            <4>4. Backward(h, Tail(queue))
                BY <1>1, <2>2, <4>2, <4>3, TailBackward
            <4> QED
                BY <1>5, <3>1, <4>4 DEF h
        <3>2. CASE ~ IsFirst(x)
            <4>1. prev[x] = x /\ next[x] = x
                BY <1>2, <1>6, <2>2, <3>2 DEF Backward
            <4>2. [prev' EXCEPT ![x] = x] = prev
                BY <1>1, <1>2, <2>1, <4>1
            <4> QED
                BY <1>6, <2>2, <3>2, <4>2
        <3> QED
            BY <3>1, <3>2
    <2>4. Written(c)'
        BY <1>4, <2>1, <2>2, <2>3 DEF Written, rest
    <2> QED
        BY <1>1, <1>2, <1>4, <2>1, <2>4, LinkStep DEF Removing
<1>9. CASE DelSelfNext(c)
    <2>1. /\ next' = [next EXCEPT ![x] = x] /\ prev' = prev
          /\ pc[c] = "del_selfnext" /\ Goto(c, "del_selfprev") /\ pc'[c] = "del_selfprev"
        BY <1>1, <1>9 DEF DelSelfNext, Goto
    <2>2. Written(c)'
        BY <1>1, <1>4, <2>1 DEF Written
    <2> QED
        BY <1>1, <1>2, <1>4, <2>1, <2>2, LinkStep DEF Removing
<1> QED
    BY <1>7, <1>8, <1>9

\* The last store of list_delinit: the entry is off the queue, and runs unless
\* it is being detached.
LEMMA DelSelfPrevStep == ASSUME ListInv, NEW c \in Cpus, DelSelfPrev(c) PROVE ListInv'
<1> DEFINE x == item[c]
<1>1. /\ TypeOK /\ Distinct(queue) /\ Fresh /\ Written(c) /\ Moves(c) /\ pc[c] = "del_selfprev"
    BY DEF ListInv, DelSelfPrev
<1>2. /\ prev' = [prev EXCEPT ![x] = x] /\ queue' = RemoveFirst(queue, x)
      /\ state' = IF x = current /\ current \in Nodes
                  THEN [state EXCEPT ![current] = "running"] ELSE state
      /\ Goto(c, "idle") /\ UNCHANGED <<next, current, item>>
    BY DEF DelSelfPrev
<1>3. /\ x \in Nodes /\ Null \notin Nodes /\ x \in Links
      /\ (x = current /\ IsFirst(x)) \/ (current = Null /\ ~ In(x, queue))
    BY <1>1, RunqueueListAssumption DEF Moves, Removing, Links
<1>4. /\ queue' \in Seq(Nodes) /\ Distinct(queue')
      /\ \A n : In(n, queue') <=> In(n, queue) /\ n # x
    BY <1>1, <1>2, <1>3, RemoveIn DEF TypeOK, IsFirst
<1>5. TypeOK'
    BY <1>1, <1>2, <1>3, <1>4 DEF TypeOK, Goto, Steps
<1>6. Fresh'
    BY <1>1, <1>2, <1>3, <1>4 DEF Fresh, TypeOK
<1>7. Ring'
    BY <1>1, <1>2 DEF Written, Ring
<1>8. ~ In(current', queue')
    BY <1>1, <1>2, <1>3, <1>4, OnlyNodes DEF TypeOK
<1>9. \A d \in Cpus : d # c => pc[d] = "idle"
    BY <1>1, Excluded
<1> QED
    BY <1>1, <1>2, <1>4, <1>5, <1>6, <1>7, <1>8, <1>9, Alone DEF Steps

\* Every step keeps the invariant.
LEMMA ListStep == ListInv /\ [NextSerial]_vars => ListInv'
<1> SUFFICES ASSUME ListInv, [NextSerial]_vars PROVE ListInv'
    OBVIOUS
<1>1. ASSUME NEW c \in Cpus, Serial(c), Begin(c) PROVE ListInv'
    BY <1>1, BeginStep
<1>2. ASSUME NEW c \in Cpus, Run(c) PROVE ListInv'
    BY <1>2, AddStep, AddTailStep, DelStep, DelSelfPrevStep, PickStep DEF Run, Store
<1>3. CASE UNCHANGED vars
    <2> USE <1>3 DEF vars
    <2>1. TypeOK' /\ Distinct(queue') /\ Fresh' /\ OneCall'
        BY DEF ListInv, TypeOK, Fresh, OneCall, In
    <2>2. Ring' = Ring /\ Quiet' = Quiet /\ In(current', queue') = In(current, queue)
        BY DEF Ring, Quiet, Forward, Backward, In
    <2>3. \A c \in Cpus : Moves(c)' = Moves(c)
        BY DEF Moves, In, IsFirst
    <2>4. \A c \in Cpus : Written(c)' = Written(c)
        BY DEF Written, Ring, Forward, Backward, In, IsFirst
    <2> QED
        BY <2>1, <2>2, <2>3, <2>4 DEF ListInv
<1> QED
    BY <1>1, <1>2, <1>3 DEF NextSerial

\* An empty list is linked to itself, and so is every node.
LEMMA ListStart == Init => ListInv
<1> SUFFICES ASSUME Init PROVE ListInv
    OBVIOUS
<1>1. TypeOK
    BY DEF Init, TypeOK, Links, Steps
<1>2. queue \in Seq(Nodes) /\ Len(queue) = 0 /\ current = Null
    BY DEF Init
<1>3. Distinct(queue) /\ \A n : ~ In(n, queue)
    BY <1>2 DEF Distinct, In
<1>4. Ring
    BY <1>2 DEF Init, Ring, Forward, Backward, Pos, Links
<1>5. Fresh /\ OneCall
    BY <1>2, <1>3, RunqueueListAssumption DEF Init, Fresh, OneCall
<1>6. \A c \in Cpus : Moves(c) /\ Written(c)
    BY DEF Init, Moves, Written, Adding, Removing
<1> QED
    BY <1>1, <1>3, <1>4, <1>5, <1>6 DEF ListInv

\* The invariant holds in every reachable state.
LEMMA ListInvariant == SpecSerial => []ListInv
    BY ListStart, ListStep, PTL DEF SpecSerial

\* The links of a ring agree in both directions at every node.
LEMMA RingIsValid ==
    ASSUME TypeOK, Ring, NEW n \in Links
    PROVE  prev[next[n]] = n /\ next[prev[n]] = n
<1>1. queue \in Seq(Nodes) /\ Len(queue) \in Nat
    BY DEF TypeOK
<1>2. CASE n \in Nodes /\ ~ In(n, queue)
    BY <1>2 DEF Ring, Forward, Backward
<1>3. CASE ~ (n \in Nodes /\ ~ In(n, queue))
    <2>1. PICK i \in 0 .. Len(queue) : Pos(queue, i) = n
        BY <1>1, <1>3 DEF Links, In, Pos
    <2>2. PICK j \in 1 .. Len(queue) + 1 : Pos(queue, j) = n
        BY <1>1, <1>3 DEF Links, In, Pos
    <2>3. next[n] = Pos(queue, i + 1) /\ prev[Pos(queue, i + 1)] = n
        BY <2>1 DEF Ring, Forward, Backward
    <2>4. j - 1 \in 0 .. Len(queue) /\ j = (j - 1) + 1
        BY <1>1
    <2>5. prev[n] = Pos(queue, j - 1) /\ next[Pos(queue, j - 1)] = n
        BY <2>2, <2>4 DEF Ring, Forward, Backward
    <2> QED
        BY <2>3, <2>5
<1> QED
    BY <1>2, <1>3

\* Between calls the links agree in both directions, as list_validate asserts
\* (include/lib/list.h:123), when no two calls overlap.
THEOREM ListIsValid == SpecSerial => []ListValidate
<1>1. ASSUME ListInv PROVE ListValidate
    <2> SUFFICES ASSUME Quiet
                 PROVE  /\ prev[next[Runqueue]] = Runqueue /\ next[prev[Runqueue]] = Runqueue
                        /\ \A n \in Nodes : prev[next[n]] = n /\ next[prev[n]] = n
        BY DEF ListValidate
    <2>1. TypeOK /\ Ring
        BY <1>1 DEF ListInv
    <2> QED
        BY <2>1, RingIsValid DEF Links
<1> QED
    BY <1>1, ListInvariant, PTL

\* Between calls the list read from its head is the queue that Scheduler has
\* in its place, and who does not wait is linked to itself, so that no node is
\* ever in two lists (core/sched/rr.c:77, 94, 128, 145).
THEOREM ListIsTheQueue == SpecSerial => []IsTheQueue
<1>1. ASSUME ListInv PROVE IsTheQueue
    <2> DEFINE ring == <<Runqueue>> \o queue
               succ(i) == ring[(i % Len(ring)) + 1]
    <2> SUFFICES ASSUME Quiet
                 PROVE  /\ \A i \in DOMAIN ring : next[ring[i]] = succ(i)
                        /\ \A n \in Nodes \ ToSet(queue) : next[n] = n
        BY DEF IsTheQueue
    <2>1. Forward(next, queue) /\ queue \in Seq(Nodes)
        BY <1>1 DEF ListInv, Ring, TypeOK
    <2>2. /\ Len(queue) \in Nat /\ Len(ring) = Len(queue) + 1 /\ DOMAIN ring = 1 .. Len(queue) + 1
          /\ ring[1] = Runqueue /\ \A i \in 2 .. Len(queue) + 1 : ring[i] = queue[i - 1]
        BY <2>1
    <2> HIDE DEF ring
    <2>3. \A i \in 1 .. Len(queue) + 1 : ring[i] = Pos(queue, i - 1)
        BY <2>2 DEF Pos
    <2>4. ASSUME NEW i \in DOMAIN ring PROVE next[ring[i]] = succ(i)
        <3>1. next[Pos(queue, i - 1)] = Pos(queue, i)
            <4>1. i - 1 \in 0 .. Len(queue) /\ (i - 1) + 1 = i
                BY <2>2
            <4> QED
                BY <2>1, <4>1 DEF Forward
        <3>2. CASE i = Len(queue) + 1
            <4>1. i % Len(ring) = 0
                BY <2>2, <3>2
            <4>2. Pos(queue, i) = Runqueue
                BY <3>2 DEF Pos
            <4> QED
                BY <2>2, <2>3, <3>1, <4>1, <4>2
        <3>3. CASE i # Len(queue) + 1
            <4>1. i % Len(ring) = i
                <5>1. \A m \in Nat : \A k \in 0 .. m - 1 : k % m = k
                    OBVIOUS
                <5>2. Len(ring) \in Nat /\ i \in 0 .. Len(ring) - 1
                    BY <2>2, <3>3
                <5> QED
                    BY <5>1, <5>2
            <4> QED
                BY <2>2, <2>3, <3>1, <3>3, <4>1
        <3> QED
            BY <3>2, <3>3
    <2>5. ASSUME NEW n \in Nodes \ ToSet(queue) PROVE next[n] = n
        <3>1. ~ In(n, queue)
            BY <2>1, <2>2 DEF In, ToSet
        <3> QED
            BY <2>1, <3>1 DEF Forward
    <2> QED
        BY <2>4, <2>5
<1> QED
    BY <1>1, ListInvariant, PTL

----------------------------------------------------------------------------
(* The list as the round robin's queue, step by step.                      *)

\* An attached vCPU that is not in the queue goes to the end of it.
Enters(n) == ~ In(n, queue) /\ state[n] # "detached" /\ queue' = Append(queue, n)

\* The first vCPU leaves the queue, and it is the one that runs.
Leaves ==
    /\ queue # <<>> /\ queue' = Tail(queue)
    /\ current' = Head(queue) /\ state'[Head(queue)] = "running"

\* Stores other than the last of a call leave the queue as it is.
LEMMA FifoStep ==
    ASSUME ListInv, NextSerial
    PROVE  \/ queue' = queue
           \/ \E n \in Nodes : Enters(n)
           \/ Leaves
<1>1. ASSUME NEW c \in Cpus, Begin(c) PROVE queue' = queue
    BY <1>1 DEF Begin, Attach, Requeue, FindWaiting, Detach
<1>2. ASSUME NEW c \in Cpus, AddTail(c) PROVE \E n \in Nodes : Enters(n)
    <2>1. /\ item[c] \in Nodes /\ ~ In(item[c], queue) /\ state[item[c]] # "detached"
          /\ queue' = Append(queue, item[c])
        BY <1>2 DEF ListInv, Moves, Adding, AddTail
    <2> QED
        BY <2>1 DEF Enters
<1>3. ASSUME NEW c \in Cpus, DelSelfPrev(c) PROVE queue' = queue \/ Leaves
    <2> DEFINE x == item[c]
    <2>1. /\ TypeOK /\ Distinct(queue) /\ queue \in Seq(Nodes) /\ x \in Nodes
          /\ (x = current /\ IsFirst(x)) \/ ~ In(x, queue)
        BY <1>3 DEF ListInv, TypeOK, Moves, Removing, DelSelfPrev
    <2>2. /\ queue' = RemoveFirst(queue, x) /\ current' = current
          /\ state' = IF x = current /\ current \in Nodes
                      THEN [state EXCEPT ![current] = "running"] ELSE state
        BY <1>3 DEF DelSelfPrev
    <2>3. CASE x = current /\ IsFirst(x)
        <3>1. queue # <<>> /\ Head(queue) = x /\ queue' = Tail(queue)
            BY <2>1, <2>2, <2>3, RemoveHead DEF IsFirst
        <3>2. state'[x] = "running"
            BY <2>1, <2>2, <2>3 DEF TypeOK
        <3> QED
            BY <2>2, <2>3, <3>1, <3>2 DEF Leaves
    <2>4. CASE ~ In(x, queue)
        BY <2>1, <2>2, <2>4, RemoveHead
    <2> QED
        BY <2>1, <2>3, <2>4
<1>4. ASSUME NEW c \in Cpus,
             \/ AddNext(c) \/ AddPrev(c) \/ AddLink(c)
             \/ DelNext(c) \/ DelPrev(c) \/ DelSelfNext(c) \/ PickNext
      PROVE  queue' = queue
    BY <1>4 DEF AddNext, AddPrev, AddLink, DelNext, DelPrev, DelSelfNext, PickNext
<1> QED
    BY <1>1, <1>2, <1>3, <1>4 DEF NextSerial, Run, Store

\* What list_addtail inserts goes to the end, was not waiting and is attached;
\* what list_delinit removes from the queue is the first vCPU of it, which
\* then runs, and a detach removes none: the steps of the sequence that module
\* Scheduler has for the list (core/sched/rr.c).
THEOREM ListIsAFifo ==
    SpecSerial => [][(\E n \in Nodes : Enters(n)) \/ Leaves]_queue
<1>1. ListInv /\ [NextSerial]_vars => [(\E n \in Nodes : Enters(n)) \/ Leaves]_queue
    <2>1. CASE NextSerial
        BY <2>1, FifoStep
    <2>2. CASE UNCHANGED vars
        BY <2>2 DEF vars
    <2> QED
        BY <2>1, <2>2
<1> QED
    BY <1>1, ListInvariant, PTL DEF SpecSerial
=============================================================================
