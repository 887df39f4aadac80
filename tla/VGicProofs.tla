----------------------------- MODULE VGicProofs -----------------------------
(***************************************************************************)
(* Proofs about the virtual interrupts: no guest gets the interrupt of     *)
(* another, an active SPI is owed a deactivation, no vCPU holds an SPI     *)
(* twice, and a context switch neither loses nor duplicates an interrupt,  *)
(* for any number of list registers, queue entries, vCPUs and pCPUs.       *)
(***************************************************************************)
EXTENDS VGic, FiniteSetTheorems, FunctionTheorems, WellFoundedInduction, TLAPS

(* The sets of slots, their least elements and ranks.                      *)

\* Lowest is defined where a search has something to find.
LEMMA LowestIsLeast ==
    ASSUME NEW S, S \subseteq Nat, S # {}
    PROVE  Lowest(S) \in S /\ \A i \in S : Lowest(S) <= i
<1>1. PICK m \in S : \A n \in S : ~(<<n, m>> \in OpToRel(<, Nat))
    BY NatLessThanWellFounded, WFMin, Zenon
<1>2. ASSUME NEW n \in S PROVE m <= n
    <2>1. m \in Nat /\ n \in Nat
        OBVIOUS
    <2>2. n < m => <<n, m>> \in OpToRel(<, Nat)
        BY <2>1, Zenon DEF OpToRel
    <2>3. ~(n < m)
        BY <1>1, <2>2, Zenon
    <2> QED
        BY <2>1, <2>3
<1> QED
    BY <1>2 DEF Lowest

\* The indices of an array and their subsets are finite.
LEMMA FiniteIndices ==
    ASSUME NEW n \in Nat, NEW S, S \subseteq 0 .. n - 1
    PROVE  IsFiniteSet(S) /\ Cardinality(S) \in Nat
<1>1. IsFiniteSet(0 .. n - 1)
    BY FS_Interval
<1>2. IsFiniteSet(S)
    BY <1>1, FS_Subset
<1> QED
    BY <1>2, FS_CardinalityType

\* A set of indices has a greatest one.
LEMMA Greatest ==
    ASSUME NEW n \in Nat, NEW S, S \subseteq 0 .. n - 1, S # {}
    PROVE  \E m \in S : \A i \in S : i <= m
<1> DEFINE T == {n - i : i \in S}
<1>1. \A i \in S : i \in 0 .. n - 1
    OBVIOUS
<1>2. T \subseteq Nat /\ T # {}
    <2>1. \A i \in S : n - i \in Nat
        BY <1>1
    <2> QED
        BY <2>1
<1>3. \A i \in S : n - i \in T
    OBVIOUS
<1> HIDE DEF T
<1>4. Lowest(T) \in T /\ \A j \in T : Lowest(T) <= j
    BY <1>2, LowestIsLeast
<1>5. PICK m \in S : Lowest(T) = n - m
    BY <1>4 DEF T
<1>6. ASSUME NEW i \in S PROVE i <= m
    <2>1. n - m <= n - i
        BY <1>3, <1>4, <1>5
    <2> QED
        BY <1>1, <2>1
<1> QED
    BY <1>6

\* Rank counts what is below: it grows by one from an element to the next.
LEMMA RankStep ==
    ASSUME NEW n \in Nat, NEW S, S \subseteq 0 .. n - 1,
           NEW i \in S, Rank(S, i) # 0
    PROVE  \E j \in S : j < i /\ Rank(S, i) = Rank(S, j) + 1
<1> DEFINE B == {j \in S : j < i}
<1>1. B \subseteq 0 .. n - 1 /\ IsFiniteSet(B) /\ Rank(S, i) = Cardinality(B)
    <2>1. B \subseteq 0 .. n - 1
        OBVIOUS
    <2> QED
        BY <2>1, FiniteIndices DEF Rank
<1>2. B # {}
    BY <1>1, FS_EmptySet
<1>3. PICK m \in B : \A j \in B : j <= m
    BY <1>1, <1>2, Greatest
<1>4. {j \in S : j < m} = B \ {m}
    <2>1. \A j \in S : j \in Int
        OBVIOUS
    <2>2. m \in S /\ m < i
        BY <1>3
    <2>3. ASSUME NEW j \in S PROVE j < m <=> j < i /\ j # m
        <3>1. j < i => j <= m
            BY <1>3
        <3> QED
            BY <2>1, <2>2, <3>1
    <2> QED
        BY <2>3
<1>5. Cardinality(B \ {m}) = Cardinality(B) - 1
    BY <1>1, <1>3, FS_RemoveElement
<1>6. Rank(S, m) = Rank(S, i) - 1
    BY <1>1, <1>4, <1>5 DEF Rank
<1>7. Rank(S, i) \in Nat
    BY <1>1, FS_CardinalityType
<1>8. m \in S /\ m < i
    BY <1>3
<1> QED
    BY <1>6, <1>7, <1>8

\* Ranks lie below the size, and order the elements.
LEMMA RankOrder ==
    ASSUME NEW n \in Nat, NEW S, S \subseteq 0 .. n - 1
    PROVE  /\ \A i \in S : Rank(S, i) \in Nat /\ Rank(S, i) < Cardinality(S)
           /\ \A i, j \in S : Rank(S, i) = Rank(S, j) => i = j
<1> DEFINE B(i) == {j \in S : j < i}
<1>0. \A i \in S : i \in Int
    OBVIOUS
<1>1. IsFiniteSet(S) /\ Cardinality(S) \in Nat
    BY FiniteIndices
<1>2. \A i \in S : /\ IsFiniteSet(B(i)) /\ Cardinality(B(i)) \in Nat
                   /\ Rank(S, i) = Cardinality(B(i))
    <2> TAKE i \in S
    <2>1. B(i) \subseteq 0 .. n - 1
        OBVIOUS
    <2> QED
        BY <2>1, FiniteIndices DEF Rank
<1>3. ASSUME NEW i \in S PROVE Rank(S, i) < Cardinality(S)
    <2>1. B(i) \in SUBSET S /\ i \in S /\ i \notin B(i)
        BY <1>0
    <2>2. Cardinality(B(i)) <= Cardinality(S) /\ Cardinality(S) # Cardinality(B(i))
        BY <1>1, <2>1, FS_Subset
    <2> HIDE DEF B
    <2> QED
        BY <1>1, <1>2, <2>2
<1>4. ASSUME NEW i \in S, NEW j \in S, i < j PROVE Rank(S, i) # Rank(S, j)
    <2>0. \A x \in S : x < i => x < j
        <3> TAKE x \in S
        <3>1. x \in Int /\ i \in Int /\ j \in Int
            BY <1>0
        <3> QED
            BY <1>4, <3>1
    <2>a. ~ (i < i)
        BY <1>0
    <2>1. B(i) \in SUBSET B(j) /\ i \in B(j) /\ i \notin B(i)
        BY <1>4, <2>0, <2>a, Zenon
    <2> HIDE DEF B
    <2>2. B(i) # B(j)
        BY <2>1
    <2>3. Cardinality(B(j)) # Cardinality(B(i))
        BY <1>2, <2>1, <2>2, FS_Subset
    <2> QED
        BY <1>2, <2>3
<1>5. ASSUME NEW i \in S, NEW j \in S, Rank(S, i) = Rank(S, j) PROVE i = j
    BY <1>0, <1>4, <1>5
<1> QED
    BY <1>2, <1>3, <1>5

\* Every rank below the size is taken.
LEMMA RankOnto ==
    ASSUME NEW n \in Nat, NEW S, S \subseteq 0 .. n - 1,
           NEW k \in Nat, k < Cardinality(S)
    PROVE  \E i \in S : Rank(S, i) = k
<1>0. \A i \in S : i \in 0 .. n - 1
    OBVIOUS
<1>1. IsFiniteSet(S) /\ Cardinality(S) \in Nat /\ \A i \in S : i \in Nat
    <2>1. \A i \in S : i \in Nat
        BY <1>0
    <2> QED
        BY <2>1, FiniteIndices
<1>2. S # {}
    BY FS_EmptySet, <1>1
<1>3. PICK m \in S : \A i \in S : i <= m
    BY <1>2, Greatest
<1>4. Rank(S, m) = Cardinality(S) - 1
    <2>1. {j \in S : j < m} = S \ {m}
        <3>1. \A j \in S : j < m <=> j # m
            <4> TAKE j \in S
            <4>1. j \in Nat /\ m \in Nat /\ j <= m
                BY <1>1, <1>3
            <4> QED
                BY <4>1
        <3> QED
            BY <3>1
    <2>2. Cardinality(S \ {m}) = Cardinality(S) - 1
        BY <1>1, FS_RemoveElement
    <2> QED
        BY <2>1, <2>2 DEF Rank
<1> DEFINE T == {i \in S : Rank(S, i) >= k}
<1>5. T \subseteq Nat /\ m \in T
    <2>1. Rank(S, m) >= k
        BY <1>1, <1>4
    <2> QED
        BY <1>1, <2>1
<1> DEFINE l == Lowest(T)
<1>6. l \in T /\ \A i \in T : l <= i
    BY <1>5, LowestIsLeast
<1> HIDE DEF l
<1>7. Rank(S, l) \in Nat /\ Rank(S, l) >= k /\ l \in Nat /\ l \in S
    BY <1>1, <1>6, RankOrder
<1>8. ASSUME Rank(S, l) > k PROVE FALSE
    <2>0. Rank(S, l) # 0
        BY <1>7, <1>8
    <2>1. PICK j \in S : j < l /\ Rank(S, l) = Rank(S, j) + 1
        BY <1>7, <2>0, RankStep
    <2>2. Rank(S, j) \in Nat
        BY RankOrder
    <2>3. j \in T
        BY <1>7, <1>8, <2>1, <2>2
    <2> QED
        BY <1>1, <1>6, <1>7, <2>1, <2>3
<1> QED
    BY <1>7, <1>8

----------------------------------------------------------------------------
(* Counting what an array of LRs or queue entries holds.                   *)

Cells == Entries \cup {NoEntry}

\* The places of an array where v holds irq.
Holding(v, irq, a) == {i \in DOMAIN a : a[i].to = v /\ a[i].irq = irq}

\* An empty cell is for nobody, an entry for a vCPU.
LEMMA CellFacts ==
    /\ NoEntry.to = None /\ NoEntry.irq = None
    /\ \A e \in Cells : /\ e.to \in Vcpus \cup {None}
                        /\ e = NoEntry <=> e.to = None
    /\ \A v \in Vcpus, irq \in Irqs : /\ Entry(v, irq) \in Entries
                                      /\ Entry(v, irq).to = v
                                      /\ Entry(v, irq).irq = irq
<1>1. NoEntry.to = None /\ NoEntry.irq = None
    BY DEF NoEntry
<1>2. ASSUME NEW e \in Cells
      PROVE  e.to \in Vcpus \cup {None} /\ (e = NoEntry <=> e.to = None)
    <2>1. CASE e = NoEntry
        BY <1>1, <2>1
    <2>2. CASE e \in Entries
        <3>1. e.to \in Vcpus /\ e.to # None
            BY <2>2, VGicAssumption DEF Entries
        <3> QED
            BY <1>1, <3>1
    <2> QED
        BY <2>1, <2>2 DEF Cells
<1>3. \A v \in Vcpus, irq \in Irqs : /\ Entry(v, irq) \in Entries
                                     /\ Entry(v, irq).to = v
                                     /\ Entry(v, irq).irq = irq
    BY DEF Entry, Entries
<1> QED
    BY <1>1, <1>2, <1>3

\* CountOf is the size of a finite set.
LEMMA CountIs ==
    ASSUME NEW n \in Nat, NEW a \in [0 .. n - 1 -> Cells], NEW v, NEW irq
    PROVE  /\ IsFiniteSet(Holding(v, irq, a))
           /\ CountOf(v, irq, a) = Cardinality(Holding(v, irq, a))
           /\ CountOf(v, irq, a) \in Nat
           /\ CountOf(v, irq, a) = 0 <=> Holding(v, irq, a) = {}
           /\ CountOf(v, irq, a) <= 1 <=> \A i, j \in Holding(v, irq, a) : i = j
<1> DEFINE H == Holding(v, irq, a)
<1>1. H \subseteq 0 .. n - 1
    BY DEF Holding
<1>2. {i \in Held(v, a) : a[i].irq = irq} = H
    BY DEF Held, Holding
<1>3. CountOf(v, irq, a) = Cardinality(H)
    BY <1>2 DEF CountOf
<1> HIDE DEF H
<1>4. IsFiniteSet(H) /\ Cardinality(H) \in Nat
    BY <1>1, FiniteIndices
<1>5. Cardinality(H) = 0 <=> H = {}
    BY <1>4, FS_EmptySet
<1>6. Cardinality(H) = 1 <=> \E x : H = {x}
    BY <1>4, FS_Singleton
<1>7. Cardinality(H) <= 1 <=> \A i, j \in H : i = j
    <2>1. (\A i, j \in H : i = j) <=> H = {} \/ \E x : H = {x}
        <3>1. ASSUME NEW x \in H, \A i, j \in H : i = j PROVE H = {x}
            BY <3>1
        <3> QED
            BY <3>1, Zenon
    <2>2. Cardinality(H) <= 1 <=> Cardinality(H) = 0 \/ Cardinality(H) = 1
        BY <1>4
    <2> QED
        BY <1>5, <1>6, <2>1, <2>2, Zenon
<1> QED
    BY <1>3, <1>4, <1>5, <1>7 DEF H

\* The free places of an array.
LEMMA FreeIs ==
    ASSUME NEW n \in Nat, NEW a \in [0 .. n - 1 -> Cells]
    PROVE  /\ Free(a) \subseteq 0 .. n - 1 /\ Free(a) \subseteq Nat
           /\ Used(a) \subseteq 0 .. n - 1
           /\ \A i \in 0 .. n - 1 : /\ i \in Free(a) <=> a[i].to = None
                                    /\ i \in Used(a) <=> i \notin Free(a)
<1>1. Free(a) \subseteq 0 .. n - 1 /\ Used(a) \subseteq 0 .. n - 1
    BY DEF Free, Used
<1>2. Free(a) \subseteq Nat
    <2>1. 0 .. n - 1 \subseteq Nat
        OBVIOUS
    <2> QED
        BY <1>1, <2>1
<1>3. \A i \in 0 .. n - 1 : /\ i \in Free(a) <=> a[i].to = None
                            /\ i \in Used(a) <=> i \notin Free(a)
    BY CellFacts DEF Free, Used
<1> QED
    BY <1>1, <1>2, <1>3

\* Put adds one entry, for its vCPU and interrupt alone.
LEMMA PutCount ==
    ASSUME NEW n \in Nat, NEW a \in [0 .. n - 1 -> Cells],
           NEW w \in Vcpus, NEW j \in Irqs
    PROVE  /\ Put(a, Entry(w, j)) \in [0 .. n - 1 -> Cells]
           /\ \A i \in 0 .. n - 1 : Put(a, Entry(w, j))[i] \in {a[i], Entry(w, j)}
           /\ \A v \in Vcpus, irq \in Irqs :
                 CountOf(v, irq, Put(a, Entry(w, j))) =
                    IF Free(a) # {} /\ v = w /\ irq = j
                    THEN CountOf(v, irq, a) + 1 ELSE CountOf(v, irq, a)
<1> DEFINE b == Put(a, Entry(w, j))
           f == Lowest(Free(a))
<1>1. CASE Free(a) = {}
    BY <1>1 DEF Put
<1>2. CASE Free(a) # {}
    <2>1. f \in Free(a) /\ f \in 0 .. n - 1 /\ a[f].to = None
        BY <1>2, FreeIs, LowestIsLeast
    <2>2. b = [a EXCEPT ![f] = Entry(w, j)]
        BY <1>2 DEF Put
    <2>3. Entry(w, j) \in Cells /\ Entry(w, j).to = w /\ Entry(w, j).irq = j
        BY CellFacts DEF Cells
    <2> HIDE DEF f, b
    <2>4. /\ b \in [0 .. n - 1 -> Cells]
          /\ b[f] = Entry(w, j)
          /\ \A i \in 0 .. n - 1 : i # f => b[i] = a[i]
        BY <2>1, <2>2, <2>3
    <2>5. ASSUME NEW v \in Vcpus, NEW irq \in Irqs
          PROVE  CountOf(v, irq, b) = IF v = w /\ irq = j
                                      THEN CountOf(v, irq, a) + 1 ELSE CountOf(v, irq, a)
        <3>1. v # None
            BY VGicAssumption
        <3>2. f \notin Holding(v, irq, a)
            BY <2>1, <3>1 DEF Holding
        <3>3. Holding(v, irq, b) = IF v = w /\ irq = j
                                   THEN Holding(v, irq, a) \cup {f} ELSE Holding(v, irq, a)
            <4>1. \A i \in 0 .. n - 1 : i # f => (i \in Holding(v, irq, b) <=> i \in Holding(v, irq, a))
                BY <2>4 DEF Holding
            <4>2. f \in Holding(v, irq, b) <=> v = w /\ irq = j
                BY <2>1, <2>3, <2>4 DEF Holding
            <4>3. Holding(v, irq, b) \subseteq 0 .. n - 1 /\ Holding(v, irq, a) \subseteq 0 .. n - 1
                BY <2>4 DEF Holding
            <4>4. f \in 0 .. n - 1
                BY <2>1
            <4>5. CASE v = w /\ irq = j
                <5>1. \A i : i \in Holding(v, irq, b) <=> i \in Holding(v, irq, a) \cup {f}
                    BY <4>1, <4>2, <4>3, <4>4, <4>5, Zenon
                <5> QED
                    BY <4>5, <5>1
            <4>6. CASE ~ (v = w /\ irq = j)
                <5>1. \A i : i \in Holding(v, irq, b) <=> i \in Holding(v, irq, a)
                    BY <3>2, <4>1, <4>2, <4>3, <4>4, <4>6, Zenon
                <5> QED
                    BY <4>6, <5>1
            <4> QED
                BY <4>5, <4>6
        <3>4. Cardinality(Holding(v, irq, a) \cup {f}) = CountOf(v, irq, a) + 1
            BY <3>2, CountIs, FS_AddElement
        <3>5. CountOf(v, irq, b) = Cardinality(Holding(v, irq, b))
            BY <2>4, CountIs
        <3>6. CountOf(v, irq, a) = Cardinality(Holding(v, irq, a))
            BY CountIs
        <3> QED
            BY <3>3, <3>4, <3>5, <3>6
    <2>6. \A i \in 0 .. n - 1 : b[i] \in {a[i], Entry(w, j)}
        BY <2>4
    <2> QED
        BY <1>2, <2>4, <2>5, <2>6 DEF b
<1> QED
    BY <1>1, <1>2

\* The size of two sets that share nothing.
LEMMA DisjointUnion ==
    ASSUME NEW A, NEW B, IsFiniteSet(A), IsFiniteSet(B), A \cap B = {}
    PROVE  Cardinality(A \cup B) = Cardinality(A) + Cardinality(B)
<1>1. Cardinality({}) = 0
    BY FS_EmptySet
<1>2. Cardinality(A) \in Nat /\ Cardinality(B) \in Nat
    BY FS_CardinalityType
<1>3. Cardinality(A \cup B) = Cardinality(A) + Cardinality(B) - Cardinality(A \cap B)
    BY FS_Union
<1>4. Cardinality(A \cap B) = 0
    BY <1>1
<1> QED
    BY <1>2, <1>3, <1>4

\* gic_inject_pending_irqs only moves entries: of each interrupt of each
\* vCPU, the queue and the LRs hold together as many as before.
LEMMA MoveKeeps ==
    ASSUME NEW q \in [Queue -> Cells], NEW l \in [Slots -> Cells]
    PROVE  /\ Drained(q, l) \in [Queue -> Cells] /\ Filled(q, l) \in [Slots -> Cells]
           /\ \A s \in Slots : \/ Filled(q, l)[s] = l[s]
                               \/ \E i \in Queue : Filled(q, l)[s] = q[i]
           /\ \A i \in Queue : Drained(q, l)[i] \in {NoEntry, q[i]}
           /\ \A v \in Vcpus, irq \in Irqs :
                 CountOf(v, irq, Drained(q, l)) + CountOf(v, irq, Filled(q, l))
                    = CountOf(v, irq, q) + CountOf(v, irq, l)
<1> DEFINE U == Used(q)
           F == Free(l)
           match(s) == CHOOSE i \in U : Rank(U, i) = Rank(F, s)
           FS == {s \in F : Rank(F, s) < Cardinality(U)}
           UQ == {i \in U : Rank(U, i) < Cardinality(F)}
           dq == Drained(q, l)
           fl == Filled(q, l)
<1>0. NumLr \in Nat /\ MaxPending \in Nat
    BY VGicAssumption
<1>1. /\ F \subseteq Slots /\ U \subseteq Queue
      /\ \A s \in Slots : s \in F <=> l[s].to = None
      /\ \A i \in Queue : i \in U <=> q[i].to # None
    <2>1. F \subseteq Slots /\ \A s \in Slots : s \in F <=> l[s].to = None
        BY <1>0, FreeIs DEF Slots
    <2>2. U \subseteq Queue /\ \A i \in Queue : i \in U <=> q[i].to # None
        BY <1>0, FreeIs DEF Queue
    <2> QED
        BY <2>1, <2>2
<1>2. /\ dq = [i \in Queue |-> IF i \in UQ THEN NoEntry ELSE q[i]]
      /\ fl = [s \in Slots |-> IF s \in FS THEN q[match(s)] ELSE l[s]]
    BY DEF Drained, Filled
<1> HIDE DEF U, F
<1>3. /\ \A i \in U : Rank(U, i) \in Nat /\ Rank(U, i) < Cardinality(U)
      /\ \A i, j \in U : Rank(U, i) = Rank(U, j) => i = j
      /\ \A k \in Nat : k < Cardinality(U) => \E i \in U : Rank(U, i) = k
    BY <1>0, <1>1, RankOrder, RankOnto DEF Queue
<1>4. /\ \A s \in F : Rank(F, s) \in Nat /\ Rank(F, s) < Cardinality(F)
      /\ \A s, t \in F : Rank(F, s) = Rank(F, t) => s = t
      /\ \A k \in Nat : k < Cardinality(F) => \E s \in F : Rank(F, s) = k
    BY <1>0, <1>1, RankOrder, RankOnto DEF Slots
<1>5. ASSUME NEW s \in FS
      PROVE  match(s) \in UQ /\ Rank(U, match(s)) = Rank(F, s)
    <2>1. \E i \in U : Rank(U, i) = Rank(F, s)
        BY <1>3, <1>4
    <2>2. match(s) \in U /\ Rank(U, match(s)) = Rank(F, s)
        BY <2>1
    <2>3. Rank(F, s) < Cardinality(F)
        BY <1>4
    <2> HIDE DEF match
    <2> QED
        BY <2>2, <2>3
<1>6. \A i \in UQ : \E s \in FS : match(s) = i
    <2> TAKE i \in UQ
    <2>1. PICK s \in F : Rank(F, s) = Rank(U, i)
        BY <1>3, <1>4
    <2>2. s \in FS
        BY <1>3, <2>1
    <2> HIDE DEF match
    <2>3. match(s) = i
        BY <1>3, <1>5, <2>1, <2>2
    <2> QED
        BY <2>2, <2>3
<1> HIDE DEF match
<1>7. \A s, t \in FS : match(s) = match(t) => s = t
    <2>1. \A s \in FS : s \in F
        OBVIOUS
    <2> QED
        <3> TAKE s, t \in FS
        <3> HAVE match(s) = match(t)
        <3>1. Rank(F, s) = Rank(U, match(s)) /\ Rank(F, t) = Rank(U, match(t))
            BY <1>5, Zenon
        <3>2. Rank(F, s) = Rank(F, t)
            BY <3>1
        <3> QED
            BY <1>4, <2>1, <3>2
<1>8. UQ \subseteq U /\ UQ \subseteq Queue /\ FS \subseteq F /\ FS \subseteq Slots
    BY <1>1
<1>9. NoEntry \in Cells
    BY DEF Cells
<1> HIDE DEF UQ, FS, dq, fl
<1>10. dq \in [Queue -> Cells] /\ fl \in [Slots -> Cells]
    <2>1. \A s \in Slots : (IF s \in FS THEN q[match(s)] ELSE l[s]) \in Cells
        BY <1>5, <1>8
    <2> QED
        BY <1>2, <1>9, <2>1
<1>11. \A s \in Slots : \/ fl[s] = l[s]
                        \/ \E i \in Queue : fl[s] = q[i]
    BY <1>2, <1>5, <1>8
<1>12. \A i \in Queue : dq[i] \in {NoEntry, q[i]}
    BY <1>2
<1>13. ASSUME NEW v \in Vcpus, NEW irq \in Irqs
       PROVE  CountOf(v, irq, dq) + CountOf(v, irq, fl)
                = CountOf(v, irq, q) + CountOf(v, irq, l)
    <2> DEFINE X == {s \in FS : q[match(s)].to = v /\ q[match(s)].irq = irq}
               Y == {i \in UQ : q[i].to = v /\ q[i].irq = irq}
    <2>0. v # None /\ NoEntry.to = None
        BY VGicAssumption, CellFacts
    <2>1. [s \in X |-> match(s)] \in Bijection(X, Y)
        <3>1. \A s \in X : match(s) \in Y
            BY <1>5
        <3>2. \A s, t \in X : match(s) = match(t) => s = t
            BY <1>7
        <3>3. \A i \in Y : \E s \in X : match(s) = i
            BY <1>6
        <3> HIDE DEF X, Y
        <3> QED
            BY <3>1, <3>2, <3>3, Zenon
               DEF Bijection, Injection, Surjection, IsInjective
    <2>2. X \subseteq 0 .. NumLr - 1 /\ Y \subseteq 0 .. MaxPending - 1
        BY <1>8 DEF Slots, Queue
    <2>3. IsFiniteSet(X) /\ IsFiniteSet(Y) /\ Cardinality(Y) \in Nat
        BY <1>0, <2>2, FiniteIndices
    <2>4. Cardinality(X) = Cardinality(Y)
        <3>1. ExistsBijection(X, Y)
            BY <2>1 DEF ExistsBijection
        <3> HIDE DEF X, Y
        <3> QED
            BY <2>3, <3>1, FS_Bijection
    <2>5. Holding(v, irq, fl) = Holding(v, irq, l) \cup X
        <3>1. \A s \in Slots : s \in Holding(v, irq, fl) <=> s \in Holding(v, irq, l) \cup X
            <4> TAKE s \in Slots
            <4>1. CASE s \in FS
                <5>1. fl[s] = q[match(s)] /\ l[s].to = None
                    BY <1>1, <1>2, <1>8, <4>1
                <5> QED
                    BY <1>10, <2>0, <4>1, <5>1 DEF Holding
            <4>2. CASE s \notin FS
                <5>1. fl[s] = l[s]
                    BY <1>2, <4>2
                <5> QED
                    BY <1>10, <4>2, <5>1 DEF Holding
            <4> QED
                BY <4>1, <4>2
        <3>2. Holding(v, irq, fl) \subseteq Slots /\ Holding(v, irq, l) \cup X \subseteq Slots
            BY <1>8, <1>10 DEF Holding
        <3> HIDE DEF X
        <3> QED
            BY <3>1, <3>2
    <2>6. Holding(v, irq, l) \cap X = {}
        BY <1>1, <1>8, <2>0 DEF Holding
    <2>7. Holding(v, irq, q) = Holding(v, irq, dq) \cup Y
        <3>1. \A i \in Queue : i \in Holding(v, irq, q) <=> i \in Holding(v, irq, dq) \cup Y
            <4> TAKE i \in Queue
            <4>1. CASE i \in UQ
                <5>1. dq[i] = NoEntry
                    BY <1>2, <4>1
                <5> QED
                    BY <1>10, <2>0, <4>1, <5>1 DEF Holding
            <4>2. CASE i \notin UQ
                <5>1. dq[i] = q[i]
                    BY <1>2, <4>2
                <5> QED
                    BY <1>10, <4>2, <5>1 DEF Holding
            <4> QED
                BY <4>1, <4>2
        <3>2. Holding(v, irq, q) \subseteq Queue /\ Holding(v, irq, dq) \cup Y \subseteq Queue
            BY <1>8, <1>10 DEF Holding
        <3> HIDE DEF Y
        <3> QED
            BY <3>1, <3>2
    <2>8. Holding(v, irq, dq) \cap Y = {}
        BY <1>2, <1>8, <2>0 DEF Holding
    <2> HIDE DEF X, Y
    <2>9. /\ IsFiniteSet(Holding(v, irq, q)) /\ CountOf(v, irq, q) = Cardinality(Holding(v, irq, q))
          /\ IsFiniteSet(Holding(v, irq, dq)) /\ CountOf(v, irq, dq) = Cardinality(Holding(v, irq, dq))
          /\ CountOf(v, irq, q) \in Nat /\ CountOf(v, irq, dq) \in Nat
        BY <1>0, <1>10, CountIs DEF Queue
    <2>10. /\ IsFiniteSet(Holding(v, irq, l)) /\ CountOf(v, irq, l) = Cardinality(Holding(v, irq, l))
           /\ IsFiniteSet(Holding(v, irq, fl)) /\ CountOf(v, irq, fl) = Cardinality(Holding(v, irq, fl))
           /\ CountOf(v, irq, l) \in Nat /\ CountOf(v, irq, fl) \in Nat
        BY <1>0, <1>10, CountIs DEF Slots
    <2>11. CountOf(v, irq, fl) = CountOf(v, irq, l) + Cardinality(X)
        <3>1. Cardinality(Holding(v, irq, l) \cup X) =
                 Cardinality(Holding(v, irq, l)) + Cardinality(X)
            BY <2>3, <2>6, <2>10, DisjointUnion
        <3> QED
            BY <2>5, <2>10, <3>1
    <2>12. CountOf(v, irq, q) = CountOf(v, irq, dq) + Cardinality(Y)
        <3>1. Cardinality(Holding(v, irq, dq) \cup Y) =
                 Cardinality(Holding(v, irq, dq)) + Cardinality(Y)
            BY <2>3, <2>8, <2>9, DisjointUnion
        <3> QED
            BY <2>7, <2>9, <3>1
    <2> QED
        BY <2>3, <2>4, <2>9, <2>10, <2>11, <2>12
<1> QED
    BY <1>10, <1>11, <1>12, <1>13 DEF dq, fl

----------------------------------------------------------------------------
(* The inductive invariant.                                                *)

\* A device has one owner, and that is the first vCPU of its VM.
OneOwner ==
    /\ \A v \in Vcpus : mapped[v] # {} => v \in First
    /\ \A v, w \in Vcpus : v # w => mapped[v] \cap mapped[w] = {}

\* Whoever holds an SPI owns it, and the SPI is active: it cannot be
\* acknowledged again while a copy of it is under way.
HeldIsActive ==
    \A v \in Vcpus, spi \in Spis :
        Copies(v, spi) > 0 => spi \in mapped[v] /\ spi \in spiActive

Inv ==
    /\ TypeOK
    /\ NoStray
    /\ OneOwner
    /\ HeldIsActive
    /\ ActiveIsOwed
    /\ OneCopy

\* The arrays of a well-typed state.
LEMMA Arrays ==
    ASSUME TypeOK
    PROVE  /\ NumLr \in Nat /\ MaxPending \in Nat
           /\ Slots = 0 .. NumLr - 1 /\ Queue = 0 .. MaxPending - 1
           /\ lr \in [Pcpus -> [Slots -> Cells]]
           /\ saved \in [Vcpus -> [Slots -> Cells]]
           /\ pend \in [Vcpus -> [Queue -> Cells]]
           /\ cur \in [Pcpus -> Vcpus \cup {None}]
           /\ \A p \in Pcpus : cur[p] \in Vcpus => PcpuOf[cur[p]] = p
           /\ PcpuOf \in [Vcpus -> Pcpus]
           /\ None \notin Vcpus /\ None \notin Irqs
           /\ Spis \subseteq Irqs /\ Softs \subseteq Irqs /\ Spis \cap Softs = {}
<1>1. /\ NumLr \in Nat /\ MaxPending \in Nat /\ PcpuOf \in [Vcpus -> Pcpus]
      /\ None \notin Vcpus /\ None \notin Irqs
      /\ Spis \subseteq Irqs /\ Softs \subseteq Irqs /\ Spis \cap Softs = {}
    BY VGicAssumption DEF Irqs
<1> QED
    BY <1>1 DEF TypeOK, Slots, Queue, Cells

\* Copies in the next state, from the arrays of the next state.
LEMMA CopiesNext ==
    ASSUME NEW v, NEW j
    PROVE  Copies(v, j)' =
             CountOf(v, j, pend'[v])
             + (IF cur'[PcpuOf[v]] = v THEN CountOf(v, j, lr'[PcpuOf[v]])
                                       ELSE CountOf(v, j, saved'[v]))
BY DEF Copies, CountOf, Held

\* How often a vCPU holds an interrupt is a natural number.
LEMMA CopiesType ==
    ASSUME TypeOK, NEW v \in Vcpus, NEW j
    PROVE  /\ Copies(v, j) \in Nat
           /\ CountOf(v, j, pend[v]) \in Nat
           /\ CountOf(v, j, saved[v]) \in Nat
           /\ \A p \in Pcpus : CountOf(v, j, lr[p]) \in Nat
<1>1. CountOf(v, j, pend[v]) \in Nat
    BY Arrays, CountIs
<1>2. CountOf(v, j, saved[v]) \in Nat
    BY Arrays, CountIs
<1>3. \A p \in Pcpus : CountOf(v, j, lr[p]) \in Nat
    BY Arrays, CountIs
<1>4. PcpuOf[v] \in Pcpus
    BY Arrays
<1> QED
    BY <1>1, <1>2, <1>3, <1>4 DEF Copies

\* Where no count of an SPI changes and nothing is activated or
\* deactivated, the rest of the invariant follows.
LEMMA CopiesKept ==
    ASSUME Inv, mapped' = mapped, spiActive' = spiActive, lost \subseteq lost',
           \A v \in Vcpus, spi \in Spis : Copies(v, spi)' = Copies(v, spi)
    PROVE  OneOwner' /\ HeldIsActive' /\ ActiveIsOwed' /\ OneCopy'
<1>1. OneOwner'
    BY DEF Inv, OneOwner
<1>2. HeldIsActive'
    BY DEF Inv, HeldIsActive
<1>3. ActiveIsOwed'
    <2>1. spiActive \subseteq Spis
        BY DEF Inv, TypeOK
    <2>2. ASSUME NEW spi \in spiActive
          PROVE  \E v \in Vcpus : /\ spi \in mapped'[v]
                                  /\ Copies(v, spi)' > 0 \/ <<v, spi>> \in lost'
        BY <2>1 DEF Inv, ActiveIsOwed
    <2> QED
        BY <2>2 DEF ActiveIsOwed
<1>4. OneCopy'
    BY DEF Inv, OneCopy
<1> QED
    BY <1>1, <1>2, <1>3, <1>4

----------------------------------------------------------------------------
(* Injection.                                                              *)

\* Put on the LRs of a pCPU.
LEMMA PutLr ==
    ASSUME NEW a \in [Slots -> Cells], NEW w \in Vcpus, NEW j \in Irqs
    PROVE  /\ Put(a, Entry(w, j)) \in [Slots -> Cells]
           /\ \A i \in Slots : Put(a, Entry(w, j))[i] \in {a[i], Entry(w, j)}
           /\ \A v \in Vcpus, irq \in Irqs :
                 CountOf(v, irq, Put(a, Entry(w, j))) =
                    IF Free(a) # {} /\ v = w /\ irq = j
                    THEN CountOf(v, irq, a) + 1 ELSE CountOf(v, irq, a)
<1>1. NumLr \in Nat /\ Slots = 0 .. NumLr - 1
    BY VGicAssumption DEF Slots
<1>2. a \in [0 .. NumLr - 1 -> Cells]
    BY <1>1
<1>3. /\ Put(a, Entry(w, j)) \in [0 .. NumLr - 1 -> Cells]
      /\ \A i \in 0 .. NumLr - 1 : Put(a, Entry(w, j))[i] \in {a[i], Entry(w, j)}
      /\ \A v \in Vcpus, irq \in Irqs :
            CountOf(v, irq, Put(a, Entry(w, j))) =
               IF Free(a) # {} /\ v = w /\ irq = j
               THEN CountOf(v, irq, a) + 1 ELSE CountOf(v, irq, a)
    BY <1>1, <1>2, PutCount
<1> QED
    BY <1>1, <1>3

\* Put on the queue of a vCPU.
LEMMA PutQueue ==
    ASSUME NEW a \in [Queue -> Cells], NEW w \in Vcpus, NEW j \in Irqs
    PROVE  /\ Put(a, Entry(w, j)) \in [Queue -> Cells]
           /\ \A i \in Queue : Put(a, Entry(w, j))[i] \in {a[i], Entry(w, j)}
           /\ \A v \in Vcpus, irq \in Irqs :
                 CountOf(v, irq, Put(a, Entry(w, j))) =
                    IF Free(a) # {} /\ v = w /\ irq = j
                    THEN CountOf(v, irq, a) + 1 ELSE CountOf(v, irq, a)
<1>1. MaxPending \in Nat /\ Queue = 0 .. MaxPending - 1
    BY VGicAssumption DEF Queue
<1>2. a \in [0 .. MaxPending - 1 -> Cells]
    BY <1>1
<1>3. /\ Put(a, Entry(w, j)) \in [0 .. MaxPending - 1 -> Cells]
      /\ \A i \in 0 .. MaxPending - 1 : Put(a, Entry(w, j))[i] \in {a[i], Entry(w, j)}
      /\ \A v \in Vcpus, irq \in Irqs :
            CountOf(v, irq, Put(a, Entry(w, j))) =
               IF Free(a) # {} /\ v = w /\ irq = j
               THEN CountOf(v, irq, a) + 1 ELSE CountOf(v, irq, a)
    BY <1>1, <1>2, PutCount
<1> QED
    BY <1>1, <1>3

\* virq_inject: every vCPU it is meant for gets one copy more or loses the
\* interrupt, nobody else gets anything.
LEMMA InjectStep ==
    ASSUME TypeOK, NoStray, NEW p \in Pcpus, NEW T \in SUBSET Vcpus,
           NEW irq \in Irqs, Inject(p, T, irq)
    PROVE  /\ lr' \in [Pcpus -> [Slots -> Cells]]
           /\ pend' \in [Vcpus -> [Queue -> Cells]]
           /\ lost' \subseteq Vcpus \X Irqs /\ lost \subseteq lost'
           /\ cur' = cur /\ saved' = saved /\ mapped' = mapped
           /\ NoStray'
           /\ \A v \in Vcpus, j \in Irqs :
                 /\ v \in T /\ j = irq =>
                       \/ Copies(v, j)' = Copies(v, j) + 1
                       \/ Copies(v, j)' = Copies(v, j) /\ <<v, j>> \in lost'
                 /\ v \notin T \/ j # irq => Copies(v, j)' = Copies(v, j)
<1> DEFINE D == Direct(p, T)
           queued == T \ D
<1>0. cur' = cur /\ saved' = saved /\ mapped' = mapped
    BY DEF Inject
<1>a. /\ lr \in [Pcpus -> [Slots -> Cells]]
      /\ saved \in [Vcpus -> [Slots -> Cells]]
      /\ pend \in [Vcpus -> [Queue -> Cells]]
      /\ cur \in [Pcpus -> Vcpus \cup {None}]
      /\ \A x \in Pcpus : cur[x] \in Vcpus => PcpuOf[cur[x]] = x
      /\ \A v \in Vcpus : PcpuOf[v] \in Pcpus
      /\ None \notin Vcpus
    BY Arrays
<1> USE <1>a
<1>1. \/ D = {}
      \/ D = {cur[p]} /\ cur[p] \in T /\ cur[p] \in Vcpus /\ Free(lr[p]) # {}
    BY DEF Direct
<1>2. /\ lr' = [lr EXCEPT ![p] = IF D = {} THEN @ ELSE Put(@, Entry(cur[p], irq))]
      /\ pend' = [v \in Vcpus |-> IF v \in queued THEN Put(pend[v], Entry(v, irq))
                                  ELSE pend[v]]
      /\ lost' = lost \cup {<<v, irq>> : v \in {u \in queued : Free(pend[u]) = {}}}
    BY DEF Inject
<1> HIDE DEF D
<1>3. \A x \in Pcpus : x # p => lr'[x] = lr[x]
    BY <1>2
<1>4. lr'[p] = IF D = {} THEN lr[p] ELSE Put(lr[p], Entry(cur[p], irq))
    BY <1>2
<1>5. ASSUME D # {}
      PROVE  /\ lr'[p] \in [Slots -> Cells]
             /\ \A s \in Slots : lr'[p][s] \in {lr[p][s], Entry(cur[p], irq)}
             /\ \A v \in Vcpus, j \in Irqs :
                   CountOf(v, j, lr'[p]) = IF v = cur[p] /\ j = irq
                                           THEN CountOf(v, j, lr[p]) + 1
                                           ELSE CountOf(v, j, lr[p])
    <2>1. /\ cur[p] \in Vcpus /\ Free(lr[p]) # {} /\ lr[p] \in [Slots -> Cells]
          /\ lr'[p] = Put(lr[p], Entry(cur[p], irq))
        BY <1>1, <1>4, <1>5
    <2> QED
        BY <2>1, PutLr
<1>6. ASSUME NEW v \in queued
      PROVE  /\ pend'[v] \in [Queue -> Cells]
             /\ \A i \in Queue : pend'[v][i] \in {pend[v][i], Entry(v, irq)}
             /\ \A w \in Vcpus, j \in Irqs :
                   CountOf(w, j, pend'[v]) = IF Free(pend[v]) # {} /\ w = v /\ j = irq
                                             THEN CountOf(w, j, pend[v]) + 1
                                             ELSE CountOf(w, j, pend[v])
    <2>1. v \in Vcpus /\ pend[v] \in [Queue -> Cells] /\ pend'[v] = Put(pend[v], Entry(v, irq))
        BY <1>2
    <2> QED
        BY <2>1, PutQueue
<1>7. \A v \in Vcpus \ queued : pend'[v] = pend[v]
    BY <1>2
<1>8. lr' \in [Pcpus -> [Slots -> Cells]]
    <2>1. lr'[p] \in [Slots -> Cells]
        BY <1>4, <1>5
    <2> QED
        BY <1>2, <2>1
<1>9. pend' \in [Vcpus -> [Queue -> Cells]]
    <2>1. \A v \in Vcpus : pend'[v] \in [Queue -> Cells]
        BY <1>6, <1>7
    <2>2. pend' = [v \in Vcpus |-> pend'[v]]
        BY <1>2
    <2> QED
        BY <2>1, <2>2
<1>10. lost' \subseteq Vcpus \X Irqs /\ lost \subseteq lost'
    BY <1>2 DEF TypeOK
<1>11. NoStray'
    <2>1. ASSUME NEW x \in Pcpus, NEW s \in Slots
          PROVE  lr'[x][s].to \in {None, cur'[x]}
        <3>1. lr[x][s].to \in {None, cur[x]}
            BY DEF NoStray
        <3>2. CASE x = p /\ D # {}
            <4>1. lr'[p][s] = lr[p][s] \/ lr'[p][s] = Entry(cur[p], irq)
                BY <1>5, <3>2
            <4>2. Entry(cur[p], irq).to = cur[p]
                BY <1>1, <3>2, CellFacts
            <4> QED
                BY <1>0, <3>1, <3>2, <4>1, <4>2
        <3>3. CASE ~ (x = p /\ D # {})
            BY <1>0, <1>3, <1>4, <3>1, <3>3
        <3> QED
            BY <3>2, <3>3
    <2>2. ASSUME NEW v \in Vcpus, NEW s \in Slots
          PROVE  saved'[v][s].to \in {None, v}
        BY <1>0 DEF NoStray
    <2>3. ASSUME NEW v \in Vcpus, NEW i \in Queue
          PROVE  pend'[v][i].to \in {None, v}
        <3>1. pend[v][i].to \in {None, v}
            BY DEF NoStray
        <3>2. CASE v \in queued
            <4>1. pend'[v][i] = pend[v][i] \/ pend'[v][i] = Entry(v, irq)
                BY <1>6, <3>2
            <4>2. Entry(v, irq).to = v
                BY CellFacts
            <4> QED
                BY <3>1, <4>1, <4>2
        <3>3. CASE v \notin queued
            BY <1>7, <3>1, <3>3
        <3> QED
            BY <3>2, <3>3
    <2> QED
        BY <2>1, <2>2, <2>3 DEF NoStray
<1>12. ASSUME NEW v \in Vcpus, NEW j \in Irqs
       PROVE  /\ v \in T /\ j = irq =>
                    \/ Copies(v, j)' = Copies(v, j) + 1
                    \/ Copies(v, j)' = Copies(v, j) /\ <<v, j>> \in lost'
              /\ v \notin T \/ j # irq => Copies(v, j)' = Copies(v, j)
    <2> DEFINE x == PcpuOf[v]
               here == cur[x] = v
    <2>0. x \in Pcpus
        OBVIOUS
    <2>1. /\ Copies(v, j)' = CountOf(v, j, pend'[v])
               + (IF here THEN CountOf(v, j, lr'[x]) ELSE CountOf(v, j, saved[v]))
          /\ Copies(v, j) = CountOf(v, j, pend[v])
               + (IF here THEN CountOf(v, j, lr[x]) ELSE CountOf(v, j, saved[v]))
        BY <1>0, CopiesNext DEF Copies
    <2>2. /\ CountOf(v, j, pend[v]) \in Nat /\ CountOf(v, j, saved[v]) \in Nat
          /\ CountOf(v, j, lr[x]) \in Nat
        BY <2>0, CopiesType
    <2>3. CASE v \in D
        <3>1. v = cur[p] /\ D # {} /\ v \in T /\ v \notin queued
            BY <1>1, <2>3
        <3>2. x = p /\ here
            BY <3>1
        <3>3. pend'[v] = pend[v]
            BY <1>7, <3>1
        <3>4. CountOf(v, j, lr'[p]) = IF j = irq THEN CountOf(v, j, lr[p]) + 1
                                      ELSE CountOf(v, j, lr[p])
            BY <1>5, <3>1
        <3> QED
            BY <2>1, <2>2, <3>1, <3>2, <3>3, <3>4
    <2>4. CASE v \notin D
        <3>1. here => CountOf(v, j, lr'[x]) = CountOf(v, j, lr[x])
            <4>1. CASE x = p /\ D # {}
                <5>1. here => v = cur[p] /\ D = {cur[p]}
                    BY <1>1, <4>1
                <5> QED
                    BY <2>4, <5>1
            <4>2. CASE ~ (x = p /\ D # {})
                BY <1>3, <1>4, <2>0, <4>2
            <4> QED
                BY <4>1, <4>2
        <3>2. CASE v \in T
            <4>1. v \in queued
                BY <2>4, <3>2
            <4>2. CountOf(v, j, pend'[v]) = IF Free(pend[v]) # {} /\ j = irq
                                            THEN CountOf(v, j, pend[v]) + 1
                                            ELSE CountOf(v, j, pend[v])
                BY <1>6, <4>1
            <4>3. Free(pend[v]) = {} => <<v, irq>> \in lost'
                BY <1>2, <4>1
            <4> HIDE DEF here, x
            <4>4. Copies(v, j)' - Copies(v, j) = CountOf(v, j, pend'[v]) - CountOf(v, j, pend[v])
                BY <2>1, <2>2, <3>1, <4>2
            <4>5. Copies(v, j)' \in Int /\ Copies(v, j) \in Int
                BY <2>1, <2>2, <3>1, <4>2
            <4>6. CASE Free(pend[v]) # {} /\ j = irq
                BY <2>2, <3>2, <4>2, <4>4, <4>5, <4>6
            <4>7. CASE ~ (Free(pend[v]) # {} /\ j = irq)
                <5>0. CountOf(v, j, pend'[v]) = CountOf(v, j, pend[v])
                    BY <4>2, <4>7
                <5>1. Copies(v, j)' = Copies(v, j)
                    BY <2>1, <3>1, <5>0, Zenon
                <5> QED
                    BY <3>2, <4>3, <4>7, <5>1
            <4> QED
                BY <4>6, <4>7
        <3>3. CASE v \notin T
            <4>1. pend'[v] = pend[v]
                BY <1>7, <3>3
            <4> HIDE DEF here, x
            <4> QED
                BY <2>1, <2>2, <3>1, <3>3, <4>1
        <3> QED
            BY <3>2, <3>3
    <2> QED
        BY <2>3, <2>4
<1> QED
    BY <1>0, <1>8, <1>9, <1>10, <1>11, <1>12

\* The state after an injection has the types of the invariant.
LEMMA InjectTyped ==
    ASSUME Inv, NEW p \in Pcpus, NEW T \in SUBSET Vcpus,
           NEW irq \in Irqs, Inject(p, T, irq),
           line' \subseteq Spis, spiActive' \subseteq Spis
    PROVE  TypeOK' /\ NoStray'
<1>1. TypeOK /\ NoStray
    BY DEF Inv
<1>2. /\ lr' \in [Pcpus -> [Slots -> Cells]]
      /\ pend' \in [Vcpus -> [Queue -> Cells]]
      /\ lost' \subseteq Vcpus \X Irqs
      /\ cur' = cur /\ saved' = saved /\ mapped' = mapped
      /\ NoStray'
    BY <1>1, InjectStep
<1> QED
    BY <1>1, <1>2 DEF TypeOK, Cells

\* A software interrupt leaves the counts of every SPI alone.
LEMMA SoftStep ==
    ASSUME Inv, NEW p \in Pcpus, NEW v \in Vcpus, NEW irq \in Softs,
           SoftInject(p, v, irq)
    PROVE  Inv'
<1>1. /\ Inject(p, {v}, irq) /\ line' = line /\ spiActive' = spiActive
      /\ irq \in Irqs /\ {v} \in SUBSET Vcpus
    BY DEF SoftInject, Irqs
<1>2. TypeOK' /\ NoStray'
    BY <1>1, InjectTyped DEF Inv, TypeOK
<1>3. lost \subseteq lost' /\ mapped' = mapped
    BY <1>1, InjectStep DEF Inv
<1>4. \A w \in Vcpus, spi \in Spis : Copies(w, spi)' = Copies(w, spi)
    <2> TAKE w \in Vcpus, spi \in Spis
    <2>1. spi \in Irqs /\ spi # irq
        BY VGicAssumption DEF Irqs
    <2> QED
        BY <1>1, <2>1, InjectStep DEF Inv
<1>5. OneOwner' /\ HeldIsActive' /\ ActiveIsOwed' /\ OneCopy'
    BY <1>1, <1>3, <1>4, CopiesKept
<1> QED
    BY <1>2, <1>5 DEF Inv

\* A physical interrupt: it was not active, so nobody held it; its owner
\* holds one copy now, or has lost it.
LEMMA DoIrqStep ==
    ASSUME Inv, NEW spi \in Spis, DoIrq(spi)
    PROVE  Inv'
<1> DEFINE T == Targets(spi)
<1>1. /\ Inject(Boot, T, spi) /\ line' = line /\ spiActive' = spiActive \cup {spi}
      /\ spi \in Irqs /\ Boot \in Pcpus /\ spi \notin spiActive
    BY VGicAssumption DEF DoIrq, Irqs, LeftActive
<1>2. PICK o \in Vcpus : spi \in mapped[o]
    BY DEF DoIrq
<1>3. T = {o}
    <2>1. o \in First
        BY <1>2 DEF Inv, OneOwner
    <2>2. \A w \in Vcpus : spi \in mapped[w] => w = o
        BY <1>2 DEF Inv, OneOwner
    <2>3. First \subseteq Vcpus
        BY VGicAssumption
    <2> QED
        BY <1>2, <2>1, <2>2, <2>3 DEF Targets
<1> HIDE DEF T
<1>4. TypeOK' /\ NoStray'
    <2>1. line' \subseteq Spis /\ spiActive' \subseteq Spis
        BY <1>1 DEF Inv, TypeOK
    <2>2. T \in SUBSET Vcpus
        BY <1>3
    <2> QED
        BY <1>1, <2>1, <2>2, InjectTyped
<1>5. /\ lost \subseteq lost' /\ mapped' = mapped
      /\ \A v \in Vcpus, j \in Irqs :
            /\ v \in T /\ j = spi =>
                  \/ Copies(v, j)' = Copies(v, j) + 1
                  \/ Copies(v, j)' = Copies(v, j) /\ <<v, j>> \in lost'
            /\ v \notin T \/ j # spi => Copies(v, j)' = Copies(v, j)
    <2>1. T \in SUBSET Vcpus /\ TypeOK /\ NoStray
        BY <1>3 DEF Inv
    <2> QED
        BY <1>1, <2>1, InjectStep
<1>6. \A v \in Vcpus, j \in Spis : Copies(v, j) \in Nat /\ j \in Irqs
    BY CopiesType DEF Inv, Irqs
<1>7. \A v \in Vcpus : Copies(v, spi) = 0
    <2> TAKE v \in Vcpus
    <2>1. ~ (Copies(v, spi) > 0)
        BY <1>1 DEF Inv, HeldIsActive
    <2> QED
        BY <1>6, <2>1
<1>8. \A v \in Vcpus, j \in Spis : (v # o \/ j # spi) => Copies(v, j)' = Copies(v, j)
    BY <1>3, <1>5, <1>6
<1>9. \/ Copies(o, spi)' = 1
      \/ Copies(o, spi)' = 0 /\ <<o, spi>> \in lost'
    BY <1>3, <1>5, <1>6, <1>7
<1>10. OneOwner'
    BY <1>5 DEF Inv, OneOwner
<1>11. HeldIsActive'
    <2> SUFFICES ASSUME NEW v \in Vcpus, NEW j \in Spis, Copies(v, j)' > 0
                 PROVE  j \in mapped'[v] /\ j \in spiActive'
        BY DEF HeldIsActive
    <2>1. CASE v = o /\ j = spi
        BY <1>1, <1>2, <1>5, <2>1
    <2>2. CASE v # o \/ j # spi
        <3>1. Copies(v, j) > 0
            BY <1>8, <2>2
        <3> QED
            BY <1>1, <1>5, <3>1 DEF Inv, HeldIsActive
    <2> QED
        BY <2>1, <2>2
<1>12. ActiveIsOwed'
    <2> SUFFICES ASSUME NEW j \in spiActive'
                 PROVE  \E v \in Vcpus : /\ j \in mapped'[v]
                                         /\ Copies(v, j)' > 0 \/ <<v, j>> \in lost'
        BY DEF ActiveIsOwed
    <2>1. CASE j = spi
        BY <1>2, <1>5, <1>9, <2>1
    <2>2. CASE j # spi
        <3>1. j \in spiActive /\ j \in Spis
            BY <1>1, <2>2 DEF Inv, TypeOK
        <3>2. PICK v \in Vcpus : j \in mapped[v] /\ (Copies(v, j) > 0 \/ <<v, j>> \in lost)
            BY <3>1 DEF Inv, ActiveIsOwed
        <3>3. Copies(v, j)' = Copies(v, j)
            BY <1>8, <2>2, <3>1
        <3> QED
            BY <1>5, <3>2, <3>3
    <2> QED
        BY <2>1, <2>2
<1>13. OneCopy'
    <2> SUFFICES ASSUME NEW v \in Vcpus, NEW j \in Spis PROVE Copies(v, j)' <= 1
        BY DEF OneCopy
    <2>1. CASE v = o /\ j = spi
        BY <1>9, <2>1
    <2>2. CASE v # o \/ j # spi
        BY <1>8, <2>2 DEF Inv, OneCopy
    <2> QED
        BY <2>1, <2>2
<1> QED
    BY <1>4, <1>10, <1>11, <1>12, <1>13 DEF Inv

----------------------------------------------------------------------------
(* The guest and the completion.                                           *)

\* The guest acknowledges or ends the interrupt of an LR: the LR stays with
\* its vCPU and its interrupt, whatever state it gets.
LEMMA GuestStep ==
    ASSUME Inv, NEW p \in Pcpus, NEW s \in Slots, GuestAck(p, s) \/ GuestEoi(p, s)
    PROVE  Inv'
<1>a. PICK st \in {"active", "done"} :
         /\ lr[p][s].state # "empty"
         /\ lr' = [lr EXCEPT ![p][s].state = st]
         /\ line' \subseteq line
         /\ UNCHANGED <<cur, saved, pend, mapped, spiActive, lost>>
    BY DEF GuestAck, GuestEoi
<1> DEFINE e == lr[p][s]
           f == [e EXCEPT !.state = st]
<1>1. /\ lr \in [Pcpus -> [Slots -> Cells]] /\ NumLr \in Nat /\ Slots = 0 .. NumLr - 1
      /\ TypeOK
    BY Arrays DEF Inv
<1>2. e \in Entries
    <2>1. e # NoEntry
        BY <1>a DEF NoEntry
    <2>2. e \in Cells
        BY <1>1
    <2> QED
        BY <2>1, <2>2 DEF Cells
<1>3. f \in Entries /\ f.to = e.to /\ f.irq = e.irq
    BY <1>2 DEF Entries
<1>4. lr' = [lr EXCEPT ![p] = [lr[p] EXCEPT ![s] = f]]
    BY <1>1, <1>a
<1> HIDE DEF f
<1>5. /\ \A x \in Pcpus : x # p => lr'[x] = lr[x]
      /\ \A t \in Slots : t # s => lr'[p][t] = lr[p][t]
      /\ lr'[p][s] = f
    BY <1>1, <1>4
<1>6. lr' \in [Pcpus -> [Slots -> Cells]]
    <2>1. [lr[p] EXCEPT ![s] = f] \in [Slots -> Cells]
        BY <1>1, <1>3 DEF Cells
    <2> QED
        BY <1>1, <1>4, <2>1
<1>7. TypeOK'
    BY <1>1, <1>6, <1>a DEF TypeOK, Cells
<1>8. \A x \in Pcpus, t \in Slots : /\ lr'[x][t].to = lr[x][t].to
                                    /\ lr'[x][t].irq = lr[x][t].irq
    BY <1>3, <1>5
<1>9. NoStray'
    BY <1>8, <1>a DEF Inv, NoStray
<1>10. \A v \in Vcpus, j \in Spis : Copies(v, j)' = Copies(v, j)
    <2> TAKE v \in Vcpus, j \in Spis
    <2>1. PcpuOf[v] \in Pcpus
        BY <1>1, Arrays
    <2>2. ASSUME NEW x \in Pcpus
          PROVE  CountOf(v, j, lr'[x]) = CountOf(v, j, lr[x])
        <3>1. lr[x] \in [Slots -> Cells] /\ lr'[x] \in [Slots -> Cells]
            BY <1>1, <1>6
        <3>2. Holding(v, j, lr'[x]) = Holding(v, j, lr[x])
            BY <1>8, <3>1 DEF Holding
        <3> QED
            BY <1>1, <3>1, <3>2, CountIs
    <2> QED
        BY <1>a, <2>1, <2>2, CopiesNext DEF Copies
<1>11. OneOwner' /\ HeldIsActive' /\ ActiveIsOwed' /\ OneCopy'
    BY <1>10, <1>a, CopiesKept
<1> QED
    BY <1>7, <1>9, <1>11 DEF Inv

\* gic_isr_maintenance_irq: the EOIed LRs of the current vCPU are emptied,
\* and of the SPIs that it owns exactly those are deactivated.
LEMMA MaintenanceStep ==
    ASSUME Inv, NEW p \in Pcpus, Maintenance(p)
    PROVE  Inv'
<1>1. /\ lr \in [Pcpus -> [Slots -> Cells]] /\ NumLr \in Nat /\ Slots = 0 .. NumLr - 1
      /\ \A v \in Vcpus : PcpuOf[v] \in Pcpus
      /\ TypeOK
    BY Arrays DEF Inv
<1>2. /\ Done(p) # {} /\ Done(p) \subseteq Slots
      /\ \A s \in Slots : s \in Done(p) <=> lr[p][s].state = "done"
      /\ lr' = [lr EXCEPT ![p] = [s \in Slots |-> IF s \in Done(p) THEN NoEntry ELSE lr[p][s]]]
      /\ spiActive' = spiActive \ (Completed(p) \cap mapped[cur[p]])
      /\ UNCHANGED <<cur, saved, pend, mapped, line, lost>>
    BY DEF Maintenance, Done
<1>3. \A s \in Done(p) : lr[p][s].to = cur[p] /\ cur[p] \in Vcpus
    <2> TAKE s \in Done(p)
    <2>1. lr[p][s] \in Cells /\ lr[p][s] # NoEntry
        BY <1>1, <1>2 DEF NoEntry
    <2>2. lr[p][s] \in Entries /\ lr[p][s].to \in {None, cur[p]}
        BY <1>2, <2>1 DEF Cells, Inv, NoStray
    <2>3. lr[p][s].to \in Vcpus /\ lr[p][s].to # None
        BY <2>2, VGicAssumption DEF Entries
    <2> QED
        BY <2>2, <2>3
<1>4. PICK c \in Vcpus : c = cur[p] /\ PcpuOf[c] = p
    <2>1. cur[p] \in Vcpus
        BY <1>2, <1>3
    <2> QED
        BY <1>1, <2>1, Arrays
<1>5. /\ \A x \in Pcpus : x # p => lr'[x] = lr[x]
      /\ \A s \in Slots : lr'[p][s] = IF s \in Done(p) THEN NoEntry ELSE lr[p][s]
      /\ lr'[p] \in [Slots -> Cells]
    BY <1>1, <1>2 DEF Cells
<1>6. lr' \in [Pcpus -> [Slots -> Cells]]
    BY <1>1, <1>2, <1>5
<1>7. spiActive' \subseteq Spis
    BY <1>1, <1>2 DEF TypeOK
<1>8. TypeOK'
    BY <1>1, <1>2, <1>6, <1>7 DEF TypeOK, Cells
<1>9. NoStray'
    <2>1. ASSUME NEW x \in Pcpus, NEW s \in Slots PROVE lr'[x][s].to \in {None, cur[x]}
        <3>1. lr[x][s].to \in {None, cur[x]}
            BY DEF Inv, NoStray
        <3>2. lr'[x][s] = lr[x][s] \/ lr'[x][s] = NoEntry
            BY <1>5
        <3> QED
            BY <3>1, <3>2, CellFacts
    <2> QED
        BY <1>2, <2>1 DEF Inv, NoStray
<1>10. ASSUME NEW v \in Vcpus, NEW j \in Spis, v # c \/ j \notin Completed(p)
       PROVE  Copies(v, j)' = Copies(v, j)
    <2>1. CASE PcpuOf[v] # p \/ v # c
        <3>1. cur[PcpuOf[v]] = v => lr'[PcpuOf[v]] = lr[PcpuOf[v]]
            BY <1>1, <1>4, <1>5, <2>1
        <3>2. Copies(v, j)' =
                CountOf(v, j, pend[v])
                + (IF cur[PcpuOf[v]] = v THEN CountOf(v, j, lr'[PcpuOf[v]])
                                         ELSE CountOf(v, j, saved[v]))
            BY <1>2, CopiesNext
        <3>3. CASE cur[PcpuOf[v]] = v
            BY <3>1, <3>2, <3>3 DEF Copies
        <3>4. CASE cur[PcpuOf[v]] # v
            BY <3>2, <3>4 DEF Copies
        <3> QED
            BY <3>3, <3>4
    <2>2. CASE v = c
        <3>1. Holding(v, j, lr'[p]) = Holding(v, j, lr[p])
            <4>1. \A s \in Slots : s \in Holding(v, j, lr'[p]) <=> s \in Holding(v, j, lr[p])
                <5> TAKE s \in Slots
                <5>1. CASE s \in Done(p)
                    <6>1. lr[p][s].irq # j
                        BY <1>10, <2>2, <5>1 DEF Completed
                    <6>2. lr'[p][s].irq # j
                        BY <1>5, <5>1, CellFacts, VGicAssumption
                    <6> QED
                        BY <6>1, <6>2 DEF Holding
                <5>2. CASE s \notin Done(p)
                    BY <1>1, <1>5, <5>2 DEF Holding
                <5> QED
                    BY <5>1, <5>2
            <4>2. Holding(v, j, lr'[p]) \subseteq Slots /\ Holding(v, j, lr[p]) \subseteq Slots
                BY <1>1, <1>5 DEF Holding
            <4> QED
                BY <4>1, <4>2
        <3>2. CountOf(v, j, lr'[p]) = CountOf(v, j, lr[p])
            <4>1. CountOf(v, j, lr'[p]) = Cardinality(Holding(v, j, lr'[p]))
                BY <1>1, <1>5, CountIs
            <4>2. CountOf(v, j, lr[p]) = Cardinality(Holding(v, j, lr[p]))
                BY <1>1, CountIs
            <4> QED
                BY <3>1, <4>1, <4>2
        <3> QED
            BY <1>2, <1>4, <2>2, <3>2, CopiesNext DEF Copies
    <2> QED
        BY <2>1, <2>2
<1>11. ASSUME NEW j \in Spis, j \in Completed(p)
       PROVE  /\ Copies(c, j)' = 0 /\ Copies(c, j) = 1
              /\ j \in mapped[c]
    <2>1. PICK s \in Done(p) : lr[p][s].irq = j
        BY <1>11 DEF Completed
    <2>2. s \in Holding(c, j, lr[p])
        BY <1>1, <1>2, <1>3, <1>4, <2>1 DEF Holding
    <2>3. /\ Copies(c, j) = CountOf(c, j, pend[c]) + CountOf(c, j, lr[p])
          /\ Copies(c, j)' = CountOf(c, j, pend[c]) + CountOf(c, j, lr'[p])
        BY <1>2, <1>4, CopiesNext DEF Copies
    <2>4. /\ CountOf(c, j, pend[c]) \in Nat /\ CountOf(c, j, lr[p]) \in Nat
          /\ CountOf(c, j, lr[p]) # 0
        BY <1>1, <1>4, <2>2, CopiesType, CountIs
    <2>5. Copies(c, j) <= 1
        BY <1>4 DEF Inv, OneCopy
    <2>6. CountOf(c, j, pend[c]) = 0 /\ CountOf(c, j, lr[p]) = 1
        BY <2>3, <2>4, <2>5
    <2>7. \A t \in Holding(c, j, lr[p]) : t = s
        BY <1>1, <2>2, <2>6, CountIs
    <2>8. Holding(c, j, lr'[p]) = {}
        <3> SUFFICES ASSUME NEW t \in Holding(c, j, lr'[p]) PROVE FALSE
            OBVIOUS
        <3>1. t \in Slots /\ lr'[p][t].to = c /\ lr'[p][t].irq = j
            BY <1>5 DEF Holding
        <3>2. CASE t \in Done(p)
            BY <1>4, <1>5, <3>1, <3>2, CellFacts, VGicAssumption
        <3>3. CASE t \notin Done(p)
            <4>1. t \in Holding(c, j, lr[p])
                BY <1>1, <1>5, <3>1, <3>3 DEF Holding
            <4> QED
                BY <2>1, <2>7, <3>3, <4>1
        <3> QED
            BY <3>2, <3>3
    <2>9. CountOf(c, j, lr'[p]) = 0
        BY <1>1, <1>5, <2>8, CountIs
    <2>10. j \in mapped[c]
        <3>1. Copies(c, j) > 0
            BY <2>3, <2>6
        <3> QED
            BY <1>4, <3>1 DEF Inv, HeldIsActive
    <2> QED
        BY <2>3, <2>6, <2>9, <2>10
<1>12. OneOwner'
    BY <1>2 DEF Inv, OneOwner
<1>13. HeldIsActive'
    <2> SUFFICES ASSUME NEW v \in Vcpus, NEW j \in Spis, Copies(v, j)' > 0
                 PROVE  j \in mapped[v] /\ j \in spiActive'
        BY <1>2 DEF HeldIsActive
    <2>1. v # c \/ j \notin Completed(p)
        BY <1>11
    <2>2. Copies(v, j) > 0
        BY <1>10, <2>1
    <2>3. j \in mapped[v] /\ j \in spiActive
        BY <2>2 DEF Inv, HeldIsActive
    <2>4. j \notin Completed(p) \cap mapped[c]
        BY <1>4, <2>1, <2>3 DEF Inv, OneOwner
    <2> QED
        BY <1>2, <1>4, <2>3, <2>4
<1>14. ActiveIsOwed'
    <2> SUFFICES ASSUME NEW j \in spiActive'
                 PROVE  \E v \in Vcpus : /\ j \in mapped[v]
                                         /\ Copies(v, j)' > 0 \/ <<v, j>> \in lost
        BY <1>2 DEF ActiveIsOwed
    <2>1. j \in spiActive /\ j \in Spis /\ ~ (j \in Completed(p) /\ j \in mapped[c])
        BY <1>2, <1>4, <1>7
    <2>2. PICK v \in Vcpus : j \in mapped[v] /\ (Copies(v, j) > 0 \/ <<v, j>> \in lost)
        BY <2>1 DEF Inv, ActiveIsOwed
    <2>3. Copies(v, j)' = Copies(v, j)
        BY <1>10, <2>1, <2>2
    <2> QED
        BY <2>2, <2>3
<1>15. OneCopy'
    <2> SUFFICES ASSUME NEW v \in Vcpus, NEW j \in Spis PROVE Copies(v, j)' <= 1
        BY DEF OneCopy
    <2>1. CASE v = c /\ j \in Completed(p)
        BY <1>11, <2>1
    <2>2. CASE v # c \/ j \notin Completed(p)
        BY <1>10, <2>2 DEF Inv, OneCopy
    <2> QED
        BY <2>1, <2>2
<1> QED
    BY <1>8, <1>9, <1>12, <1>13, <1>14, <1>15 DEF Inv

----------------------------------------------------------------------------
(* The context switch.                                                     *)

\* do_context_switch: the entries of the vCPU that leaves are saved, those
\* of the one that comes are restored and completed from its queue.
LEMMA SwitchFacts ==
    ASSUME TypeOK, NoStray, NEW p \in Pcpus, NEW v \in Vcpus, Switch(p, v)
    PROVE  /\ TypeOK' /\ NoStray'
           /\ \A w \in Vcpus, j \in Irqs : Copies(w, j)' = Copies(w, j)
<1> DEFINE l == saved'[v]
<1>1. /\ lr \in [Pcpus -> [Slots -> Cells]]
      /\ saved \in [Vcpus -> [Slots -> Cells]]
      /\ pend \in [Vcpus -> [Queue -> Cells]]
      /\ cur \in [Pcpus -> Vcpus \cup {None}]
      /\ \A x \in Pcpus : cur[x] \in Vcpus => PcpuOf[cur[x]] = x
      /\ \A w \in Vcpus : PcpuOf[w] \in Pcpus
      /\ None \notin Vcpus
    BY Arrays
<1>2. /\ PcpuOf[v] = p
      /\ saved' = IF cur[p] = None THEN saved ELSE [saved EXCEPT ![cur[p]] = lr[p]]
      /\ lr' = [lr EXCEPT ![p] = Filled(pend[v], l)]
      /\ pend' = [pend EXCEPT ![v] = Drained(pend[v], l)]
      /\ cur' = [cur EXCEPT ![p] = v]
      /\ UNCHANGED <<mapped, line, spiActive, lost>>
    BY <1>1 DEF Switch, SavedLr, Restored
<1>3. /\ saved' \in [Vcpus -> [Slots -> Cells]]
      /\ \A w \in Vcpus : saved'[w] = IF w = cur[p] THEN lr[p] ELSE saved[w]
    BY <1>1, <1>2
<1>4. l \in [Slots -> Cells] /\ pend[v] \in [Queue -> Cells]
    BY <1>1, <1>3
<1>5. l = IF v = cur[p] THEN lr[p] ELSE saved[v]
    BY <1>3
<1> HIDE DEF l
<1>6. /\ lr'[p] = Filled(pend[v], l) /\ pend'[v] = Drained(pend[v], l) /\ cur'[p] = v
      /\ \A x \in Pcpus : x # p => lr'[x] = lr[x] /\ cur'[x] = cur[x]
      /\ \A w \in Vcpus : w # v => pend'[w] = pend[w]
    BY <1>1, <1>2
<1>7. /\ lr'[p] \in [Slots -> Cells] /\ pend'[v] \in [Queue -> Cells]
      /\ \A s \in Slots : \/ lr'[p][s] = l[s]
                          \/ \E i \in Queue : lr'[p][s] = pend[v][i]
      /\ \A i \in Queue : pend'[v][i] \in {NoEntry, pend[v][i]}
      /\ \A w \in Vcpus, j \in Irqs :
            CountOf(w, j, pend'[v]) + CountOf(w, j, lr'[p])
               = CountOf(w, j, pend[v]) + CountOf(w, j, l)
    BY <1>4, <1>6, MoveKeeps
<1>8. TypeOK'
    <2>1. lr' \in [Pcpus -> [Slots -> Cells]]
        BY <1>1, <1>2, <1>6, <1>7
    <2>2. pend' \in [Vcpus -> [Queue -> Cells]]
        BY <1>1, <1>2, <1>6, <1>7
    <2>3. /\ cur' \in [Pcpus -> Vcpus \cup {None}]
          /\ \A x \in Pcpus : cur'[x] = None \/ PcpuOf[cur'[x]] = x
        <3>1. \A x \in Pcpus : cur[x] = None \/ PcpuOf[cur[x]] = x
            BY <1>1
        <3> QED
            BY <1>1, <1>2, <1>6, <3>1
    <2> QED
        BY <1>2, <1>3, <2>1, <2>2, <2>3 DEF TypeOK, Cells
<1>9. NoStray'
    <2>1. \A s \in Slots : l[s].to \in {None, v}
        BY <1>5 DEF NoStray
    <2>2. ASSUME NEW x \in Pcpus, NEW s \in Slots
          PROVE  lr'[x][s].to \in {None, cur'[x]}
        <3>1. CASE x = p
            <4>1. \A i \in Queue : pend[v][i].to \in {None, v}
                BY DEF NoStray
            <4> QED
                BY <1>6, <1>7, <2>1, <3>1, <4>1
        <3>2. CASE x # p
            BY <1>6, <3>2 DEF NoStray
        <3> QED
            BY <3>1, <3>2
    <2>3. ASSUME NEW w \in Vcpus, NEW s \in Slots
          PROVE  saved'[w][s].to \in {None, w}
        <3>1. lr[p][s].to \in {None, cur[p]} /\ saved[w][s].to \in {None, w}
            BY DEF NoStray
        <3> QED
            BY <1>3, <3>1
    <2>4. ASSUME NEW w \in Vcpus, NEW i \in Queue
          PROVE  pend'[w][i].to \in {None, w}
        <3>1. pend[w][i].to \in {None, w}
            BY DEF NoStray
        <3>2. CASE w = v
            BY <1>7, <3>1, <3>2, CellFacts
        <3>3. CASE w # v
            BY <1>6, <3>1, <3>3
        <3> QED
            BY <3>2, <3>3
    <2> QED
        BY <2>2, <2>3, <2>4 DEF NoStray
<1>10. ASSUME NEW w \in Vcpus, NEW j \in Irqs
       PROVE  Copies(w, j)' = Copies(w, j)
    <2>1. Copies(w, j)' =
            CountOf(w, j, pend'[w])
            + (IF cur'[PcpuOf[w]] = w THEN CountOf(w, j, lr'[PcpuOf[w]])
                                      ELSE CountOf(w, j, saved'[w]))
        BY CopiesNext
    <2>2. CASE w = v
        <3>1. Copies(w, j)' = CountOf(v, j, pend'[v]) + CountOf(v, j, lr'[p])
            BY <1>2, <1>6, <2>1, <2>2
        <3>2. Copies(w, j)' = CountOf(v, j, pend[v]) + CountOf(v, j, l)
            BY <1>7, <3>1
        <3>3. Copies(w, j) = CountOf(v, j, pend[v]) + CountOf(v, j, l)
            BY <1>2, <1>5, <2>2 DEF Copies
        <3> QED
            BY <3>2, <3>3
    <2>3. CASE w # v /\ PcpuOf[w] = p
        <3>1. Copies(w, j)' = CountOf(w, j, pend[w]) + CountOf(w, j, saved'[w])
            BY <1>6, <2>1, <2>3
        <3>2. saved'[w] = IF w = cur[p] THEN lr[p] ELSE saved[w]
            BY <1>3
        <3> QED
            BY <2>3, <3>1, <3>2 DEF Copies
    <2>4. CASE PcpuOf[w] # p
        <3>1. w # v /\ w # cur[p]
            BY <1>1, <1>2, <2>4
        <3>2. pend'[w] = pend[w] /\ saved'[w] = saved[w]
            BY <1>3, <1>6, <3>1
        <3>3. PcpuOf[w] \in Pcpus
            BY <1>1
        <3>4. lr'[PcpuOf[w]] = lr[PcpuOf[w]] /\ cur'[PcpuOf[w]] = cur[PcpuOf[w]]
            BY <1>6, <2>4, <3>3
        <3> QED
            BY <2>1, <3>2, <3>4 DEF Copies
    <2> QED
        BY <2>2, <2>3, <2>4
<1> QED
    BY <1>8, <1>9, <1>10

\* The switch keeps the invariant.
LEMMA SwitchStep ==
    ASSUME Inv, NEW p \in Pcpus, NEW v \in Vcpus, Switch(p, v)
    PROVE  Inv'
<1>1. /\ TypeOK' /\ NoStray'
      /\ \A w \in Vcpus, j \in Irqs : Copies(w, j)' = Copies(w, j)
    BY SwitchFacts DEF Inv
<1>2. mapped' = mapped /\ spiActive' = spiActive /\ lost' = lost
    BY DEF Switch
<1>3. \A w \in Vcpus, j \in Spis : Copies(w, j)' = Copies(w, j)
    BY <1>1 DEF Irqs
<1>4. OneOwner' /\ HeldIsActive' /\ ActiveIsOwed' /\ OneCopy'
    BY <1>2, <1>3, CopiesKept
<1> QED
    BY <1>1, <1>4 DEF Inv

----------------------------------------------------------------------------
(* The invariant holds.                                                    *)

\* Steps that touch neither the LRs nor the queues.
LEMMA QuietCopies ==
    ASSUME UNCHANGED <<cur, lr, saved, pend>>, NEW v, NEW j
    PROVE  Copies(v, j)' = Copies(v, j)
BY CopiesNext DEF Copies

\* set_enable: the SPI gets its owner.
LEMMA EnableStep ==
    ASSUME Inv, NEW p \in Pcpus, NEW spi \in Spis, GuestEnable(p, spi)
    PROVE  Inv'
<1>1. /\ cur[p] \in First /\ cur[p] \in Vcpus
      /\ \A v \in Vcpus : spi \notin mapped[v]
      /\ mapped' = [mapped EXCEPT ![cur[p]] = @ \cup {spi}]
      /\ UNCHANGED <<cur, lr, saved, pend, line, spiActive, lost>>
    BY VGicAssumption DEF GuestEnable, places
<1>2. mapped \in [Vcpus -> SUBSET Spis]
    BY DEF Inv, TypeOK
<1>3. /\ mapped' \in [Vcpus -> SUBSET Spis]
      /\ \A v \in Vcpus : mapped'[v] = IF v = cur[p] THEN mapped[v] \cup {spi} ELSE mapped[v]
    BY <1>1, <1>2
<1>4. TypeOK' /\ NoStray'
    BY <1>1, <1>3 DEF Inv, TypeOK, NoStray
<1>5. \A v \in Vcpus, j \in Spis : Copies(v, j)' = Copies(v, j)
    BY <1>1, QuietCopies
<1>6. OneOwner'
    <2>1. ASSUME NEW v \in Vcpus, mapped'[v] # {} PROVE v \in First
        BY <1>1, <1>3, <2>1 DEF Inv, OneOwner
    <2>2. ASSUME NEW v \in Vcpus, NEW w \in Vcpus, v # w
          PROVE  mapped'[v] \cap mapped'[w] = {}
        <3>1. mapped[v] \cap mapped[w] = {}
            BY <2>2 DEF Inv, OneOwner
        <3>2. spi \notin mapped[v] /\ spi \notin mapped[w]
            BY <1>1
        <3>3. /\ mapped'[v] = IF v = cur[p] THEN mapped[v] \cup {spi} ELSE mapped[v]
              /\ mapped'[w] = IF w = cur[p] THEN mapped[w] \cup {spi} ELSE mapped[w]
            BY <1>3
        <3> QED
            BY <2>2, <3>1, <3>2, <3>3
    <2> QED
        BY <2>1, <2>2 DEF OneOwner
<1>7. \A v \in Vcpus : mapped[v] \subseteq mapped'[v]
    BY <1>3
<1>8. HeldIsActive'
    BY <1>1, <1>5, <1>7 DEF Inv, HeldIsActive
<1>9. ActiveIsOwed'
    <2>1. spiActive \subseteq Spis
        BY DEF Inv, TypeOK
    <2>2. ASSUME NEW j \in spiActive
          PROVE  \E v \in Vcpus : /\ j \in mapped'[v]
                                  /\ Copies(v, j)' > 0 \/ <<v, j>> \in lost
        BY <1>5, <1>7, <2>1 DEF Inv, ActiveIsOwed
    <2> QED
        BY <1>1, <2>2 DEF ActiveIsOwed
<1>10. OneCopy'
    BY <1>5 DEF Inv, OneCopy
<1> QED
    BY <1>4, <1>6, <1>8, <1>9, <1>10 DEF Inv

\* Inv is inductive.
LEMMA Inductive == Inv /\ [Next]_vars => Inv'
<1> SUFFICES ASSUME Inv, [Next]_vars PROVE Inv'
    OBVIOUS
<1>1. CASE Soft
    BY <1>1, SoftStep DEF Soft
<1>2. ASSUME NEW spi \in Spis, DoIrq(spi) PROVE Inv'
    BY <1>2, DoIrqStep
<1>3. ASSUME NEW p \in Pcpus, Maintenance(p) PROVE Inv'
    BY <1>3, MaintenanceStep
<1>4. ASSUME NEW p \in Pcpus, NEW spi \in Spis, GuestEnable(p, spi) PROVE Inv'
    BY <1>4, EnableStep
<1>5. ASSUME NEW p \in Pcpus, NEW s \in Slots, GuestAck(p, s) \/ GuestEoi(p, s)
      PROVE  Inv'
    BY <1>5, GuestStep
<1>6. ASSUME NEW p \in Pcpus, NEW v \in Vcpus, Switch(p, v) PROVE Inv'
    BY <1>6, SwitchStep
<1>7. ASSUME UNCHANGED <<cur, lr, saved, pend, mapped, spiActive, lost>>,
             line' \subseteq Spis
      PROVE  Inv'
    <2>1. TypeOK' /\ NoStray'
        BY <1>7 DEF Inv, TypeOK, NoStray
    <2>2. \A v \in Vcpus, j \in Spis : Copies(v, j)' = Copies(v, j)
        BY <1>7, QuietCopies
    <2>3. OneOwner' /\ HeldIsActive' /\ ActiveIsOwed' /\ OneCopy'
        BY <1>7, <2>2, CopiesKept
    <2> QED
        BY <2>1, <2>3 DEF Inv
<1>8. ASSUME NEW spi \in Spis, Raise(spi) PROVE Inv'
    BY <1>7, <1>8 DEF Raise, places, Inv, TypeOK
<1>9. CASE UNCHANGED vars
    BY <1>7, <1>9 DEF vars, places, Inv, TypeOK
<1> QED
    BY <1>1, <1>2, <1>3, <1>4, <1>5, <1>6, <1>8, <1>9 DEF Next

\* Init establishes Inv.
LEMMA InitInv == Init => Inv
<1> SUFFICES ASSUME Init PROVE Inv
    OBVIOUS
<1>0. NumLr \in Nat /\ MaxPending \in Nat /\ NoEntry \in Cells
    BY VGicAssumption DEF Cells
<1>1. TypeOK
    BY DEF Init, TypeOK, Cells
<1>2. NoStray
    BY CellFacts DEF Init, NoStray
<1>3. OneOwner /\ ActiveIsOwed
    BY DEF Init, OneOwner, ActiveIsOwed
<1>4. ASSUME NEW v \in Vcpus, NEW j \in Spis PROVE Copies(v, j) = 0
    <2>1. v # None /\ PcpuOf[v] \in Pcpus
        BY VGicAssumption
    <2>2. CountOf(v, j, pend[v]) = 0
        <3>1. pend[v] \in [0 .. MaxPending - 1 -> Cells]
            BY <1>0 DEF Init, Queue
        <3>2. Holding(v, j, pend[v]) = {}
            BY <2>1, CellFacts DEF Holding, Init
        <3> QED
            BY <1>0, <3>1, <3>2, CountIs
    <2>3. CountOf(v, j, saved[v]) = 0
        <3>1. saved[v] \in [0 .. NumLr - 1 -> Cells]
            BY <1>0 DEF Init, Slots
        <3>2. Holding(v, j, saved[v]) = {}
            BY <2>1, CellFacts DEF Holding, Init
        <3> QED
            BY <1>0, <3>1, <3>2, CountIs
    <2>4. cur[PcpuOf[v]] # v
        BY <2>1 DEF Init
    <2> QED
        BY <2>2, <2>3, <2>4 DEF Copies
<1>5. HeldIsActive /\ OneCopy
    BY <1>4 DEF HeldIsActive, OneCopy
<1> QED
    BY <1>1, <1>2, <1>3, <1>5 DEF Inv

\* Inv holds in every reachable state.
LEMMA Invariant == Spec => []Inv
<1>1. Spec => Init /\ [][Next]_vars
    BY PTL DEF Spec
<1> QED
    BY <1>1, InitInv, Inductive, PTL

----------------------------------------------------------------------------
(* The theorems.                                                           *)

\* LRs, saved LRs and queues keep their shape, and a pCPU runs vCPUs of its
\* own only.
THEOREM VGicTyped == Spec => []TypeOK
<1>1. Inv => TypeOK
    BY DEF Inv
<1> QED
    BY <1>1, Invariant, PTL

\* No interrupt reaches a vCPU that it was not made for: vcpu_save and
\* vcpu_restore leave nothing of one guest in the LRs of the next.
THEOREM NothingStrays == Spec => []NoStray
<1>1. Inv => NoStray
    BY DEF Inv
<1> QED
    BY <1>1, Invariant, PTL

\* An SPI that do_irq left active is on its way to its deactivation, or the
\* injection found no room and said so.
THEOREM DeactivationIsOwed == Spec => []ActiveIsOwed
<1>1. Inv => ActiveIsOwed
    BY DEF Inv
<1> QED
    BY <1>1, Invariant, PTL

\* No vCPU ever holds an SPI twice, in its LRs and its queue together.
THEOREM AtMostOneCopy == Spec => []OneCopy
<1>1. Inv => OneCopy
    BY DEF Inv
<1> QED
    BY <1>1, Invariant, PTL

\* A context switch keeps the number of copies of every interrupt of every
\* vCPU, for any number of LRs and queue entries.
THEOREM SwitchIsLossless == Spec => SwitchKeeps
<1>1. ASSUME Inv
      PROVE  [(\E p \in Pcpus, v \in Vcpus : Switch(p, v)) =>
                \A v \in Vcpus, irq \in Irqs : Copies(v, irq)' = Copies(v, irq)]_vars
    BY <1>1, SwitchFacts DEF Inv
<1> QED
    BY <1>1, Invariant, PTL DEF SwitchKeeps
=============================================================================
