------------------------------ MODULE RtProofs ------------------------------
(***************************************************************************)
(* Proofs about the real-time policies: their variables keep their types,  *)
(* an attached idle guest keeps do_schedule from hanging, a detached entry *)
(* gets no more than what is left of its budget, and under either policy a *)
(* vCPU that response-time analysis accepts never misses a deadline.  For  *)
(* the last, the sums of the analysis are first shown to be sums: what the *)
(* fold that defines them computes, and what follows.                      *)
(***************************************************************************)
EXTENDS RtPolicies, FiniteSetTheorems, WellFoundedInduction, TLAPS

\* Every non-empty set of naturals has a least element.
LEMMA Least ==
    ASSUME NEW S, S \subseteq Nat, S # {}
    PROVE  \E m \in S : \A n \in S : m <= n
<1>1. PICK m \in S : \A n \in S : ~(<<n, m>> \in OpToRel(<, Nat))
    BY NatLessThanWellFounded, WFMin, Zenon
<1>2. ASSUME NEW n \in S PROVE m <= n
    <2>1. m \in Nat /\ n \in Nat
        OBVIOUS
    <2>2. n < m => <<n, m>> \in OpToRel(<, Nat)
        BY <2>1, Zenon DEF OpToRel
    <2>3. ~(n < m)
        BY <1>1, <2>2, Zenon
    <2> QED
        BY <2>1, <2>3
<1> QED
    BY <1>2

----------------------------------------------------------------------------
(* Sums over a finite set, as a fold defines them.                          *)

\* The element a fold takes out of a non-empty set first.
Pick(T) == CHOOSE x \in T : TRUE

\* It is one of the set, whose other elements are fewer.
LEMMA PickOne ==
    ASSUME NEW S, IsFiniteSet(S), NEW T \in SUBSET S, T # {}
    PROVE  /\ Pick(T) \in T /\ T \ {Pick(T)} \in SUBSET S
           /\ Cardinality(T) \in Nat /\ Cardinality(T) > 0
           /\ Cardinality(T \ {Pick(T)}) = Cardinality(T) - 1
<1>1. IsFiniteSet(T)
    BY FS_Subset
<1>2. Pick(T) \in T
    BY DEF Pick
<1>3. Cardinality(T \ {Pick(T)}) = Cardinality(T) - 1
    BY <1>1, <1>2, FS_RemoveElement
<1>4. Cardinality(T) \in Nat /\ Cardinality(T) # 0
    BY <1>1, FS_CardinalityType, FS_EmptySet
<1> QED
    BY <1>2, <1>3, <1>4

\* A family G of sets holds every subset of S when it holds the empty set and
\* every set whose rest it holds.
LEMMA PickInduction ==
    ASSUME NEW S, IsFiniteSet(S), NEW G, {} \in G,
           \A T \in SUBSET S : T # {} /\ T \ {Pick(T)} \in G => T \in G
    PROVE  SUBSET S \subseteq G
<1> DEFINE sizes == {Cardinality(T) : T \in (SUBSET S) \ G}
<1> SUFFICES ASSUME NEW U \in (SUBSET S) \ G PROVE FALSE
    OBVIOUS
<1>1. \A T \in (SUBSET S) \ G : T # {} /\ Cardinality(T) \in Nat
    BY PickOne
<1>2. sizes \subseteq Nat /\ sizes # {}
    BY <1>1
<1>3. PICK m \in sizes : \A n \in sizes : m <= n
    BY <1>2, Least
<1>4. PICK T \in (SUBSET S) \ G : Cardinality(T) = m
    OBVIOUS
<1>5. T \ {Pick(T)} \in (SUBSET S) \ G
    BY <1>1, <1>4
<1>6. Cardinality(T \ {Pick(T)}) \in sizes
    BY <1>5
<1>7. Cardinality(T \ {Pick(T)}) = Cardinality(T) - 1 /\ Cardinality(T) \in Nat
    BY <1>1, PickOne
<1> QED
    BY <1>3, <1>4, <1>6, <1>7

\* The sizes of the subsets of a finite set.
LEMMA SubsetSizes ==
    ASSUME NEW S, IsFiniteSet(S)
    PROVE  /\ \A T \in SUBSET S : Cardinality(T) \in Nat /\ (Cardinality(T) = 0 <=> T = {})
           /\ \A T \in SUBSET S : Cardinality(T) <= Cardinality(S)
           /\ \A T \in SUBSET S : Cardinality(T) <= 0 => T = {}
<1>1. ASSUME NEW T \in SUBSET S
      PROVE  /\ Cardinality(T) \in Nat /\ (Cardinality(T) = 0 <=> T = {})
             /\ Cardinality(T) <= Cardinality(S)
    <2>1. IsFiniteSet(T) /\ Cardinality(T) <= Cardinality(S)
        BY FS_Subset
    <2> QED
        BY <2>1, FS_CardinalityType, FS_EmptySet
<1>2. ASSUME NEW T \in SUBSET S, Cardinality(T) <= 0 PROVE T = {}
    <2>1. Cardinality(T) \in Nat /\ (Cardinality(T) = 0 <=> T = {})
        BY <1>1
    <2> QED
        BY <1>2, <2>1
<1> QED
    BY <1>1, <1>2

\* What a fold with a binary function op makes of the subsets of S.
Folds(h, S, f, op, base) ==
    /\ h \in [SUBSET S -> Nat]
    /\ h[{}] = base
    /\ \A T \in SUBSET S : T # {} => h[T] = op[f[Pick(T)]][h[T \ {Pick(T)}]]

\* Such a function exists.
LEMMA FoldExists ==
    ASSUME NEW S, IsFiniteSet(S), NEW f \in [S -> Nat],
           NEW op \in [Nat -> [Nat -> Nat]], NEW base \in Nat
    PROVE  \E h : Folds(h, S, f, op, base)
<1> DEFINE Upto(n) == \E h \in [SUBSET S -> Nat] :
               /\ h[{}] = base
               /\ \A T \in SUBSET S : Cardinality(T) <= n /\ T # {} =>
                     h[T] = op[f[Pick(T)]][h[T \ {Pick(T)}]]
           bad == {n \in Nat : ~Upto(n)}
<1>1. /\ \A T \in SUBSET S : Cardinality(T) \in Nat /\ (Cardinality(T) = 0 <=> T = {})
      /\ \A T \in SUBSET S : Cardinality(T) <= Cardinality(S)
      /\ \A T \in SUBSET S : Cardinality(T) <= 0 => T = {}
    BY SubsetSizes
<1>2. Upto(0)
    <2> DEFINE h == [T \in SUBSET S |-> base]
    <2>1. h \in [SUBSET S -> Nat] /\ h[{}] = base
        OBVIOUS
    <2> HIDE DEF h
    <2> QED
        BY <1>1, <2>1
<1>3. ASSUME NEW n \in Nat, Upto(n) PROVE Upto(n + 1)
    <2>1. PICK h \in [SUBSET S -> Nat] :
               /\ h[{}] = base
               /\ \A T \in SUBSET S : Cardinality(T) <= n /\ T # {} =>
                     h[T] = op[f[Pick(T)]][h[T \ {Pick(T)}]]
        BY <1>3
    <2> HIDE DEF Upto, bad
    <2> DEFINE next(T) == op[f[Pick(T)]][h[T \ {Pick(T)}]]
               g == [T \in SUBSET S |-> IF T = {} THEN base
                                       ELSE IF Cardinality(T) = n + 1 THEN next(T) ELSE h[T]]
    <2>2. ASSUME NEW T \in SUBSET S, T # {} PROVE next(T) \in Nat
        <3>1. Pick(T) \in S /\ T \ {Pick(T)} \in SUBSET S
            BY <2>2, PickOne
        <3>2. f[Pick(T)] \in Nat /\ h[T \ {Pick(T)}] \in Nat
            BY <3>1
        <3>3. op[f[Pick(T)]] \in [Nat -> Nat]
            BY <3>2
        <3> QED
            BY <3>2, <3>3
    <2> HIDE DEF next
    <2>3. g \in [SUBSET S -> Nat]
        BY <2>2
    <2>4. g[{}] = base
        OBVIOUS
    <2>5. \A T \in SUBSET S : T # {} => g[T] = IF Cardinality(T) = n + 1 THEN next(T) ELSE h[T]
        OBVIOUS
    <2>6. g[{}] = h[{}]
        BY <2>1, <2>4
    <2> HIDE DEF g
    <2>7. ASSUME NEW T \in SUBSET S, Cardinality(T) <= n + 1, T # {}
          PROVE  g[T] = op[f[Pick(T)]][g[T \ {Pick(T)}]]
        <3>1. /\ T \ {Pick(T)} \in SUBSET S /\ Cardinality(T) \in Nat
              /\ Cardinality(T \ {Pick(T)}) = Cardinality(T) - 1
            BY <2>7, PickOne
        <3>2. Cardinality(T \ {Pick(T)}) # n + 1
            BY <2>7, <3>1
        <3>3. g[T \ {Pick(T)}] = h[T \ {Pick(T)}]
            BY <2>5, <2>6, <3>1, <3>2
        <3>4. g[T] = next(T)
            <4>1. CASE Cardinality(T) = n + 1
                BY <2>5, <2>7, <4>1
            <4>2. CASE Cardinality(T) # n + 1
                <5>1. Cardinality(T) <= n
                    BY <2>7, <3>1, <4>2
                <5>2. g[T] = h[T]
                    BY <2>5, <2>7, <4>2
                <5> QED
                    BY <2>1, <2>7, <5>1, <5>2 DEF next
            <4> QED
                BY <4>1, <4>2
        <3> QED
            BY <3>3, <3>4 DEF next
    <2> QED
        BY <2>3, <2>4, <2>7 DEF Upto
<1> HIDE DEF Upto
<1>4. bad = {}
    <2> SUFFICES ASSUME bad # {} PROVE FALSE
        OBVIOUS
    <2>1. PICK m \in bad : \A n \in bad : m <= n
        BY Least
    <2>2. m # 0 /\ m \in Nat
        BY <1>2
    <2>3. m - 1 \in Nat /\ m - 1 \notin bad /\ (m - 1) + 1 = m
        BY <2>1, <2>2
    <2> QED
        BY <1>3, <2>3
<1>5. Cardinality(S) \in Nat
    BY <1>1
<1>6. Upto(Cardinality(S))
    BY <1>4, <1>5
<1>7. PICK h \in [SUBSET S -> Nat] :
               /\ h[{}] = base
               /\ \A T \in SUBSET S : Cardinality(T) <= Cardinality(S) /\ T # {} =>
                     h[T] = op[f[Pick(T)]][h[T \ {Pick(T)}]]
    BY <1>6 DEF Upto
<1>8. Folds(h, S, f, op, base)
    BY <1>1, <1>7 DEF Folds
<1> QED
    BY <1>8

\* The sums of f over the subsets of S.
SumsOf(sum, f, S) ==
    /\ sum \in [SUBSET S -> Nat]
    /\ sum[{}] = 0
    /\ \A T \in SUBSET S : T # {} => sum[T] = f[Pick(T)] + sum[T \ {Pick(T)}]

\* SumFunction is one of them.
LEMMA SumIs ==
    ASSUME NEW S, IsFiniteSet(S), NEW f \in [S -> Nat]
    PROVE  \E sum : SumsOf(sum, f, S) /\ SumFunction(f) = sum[S]
<1> DEFINE rest(h) == [T \in SUBSET S |->
                     IF T = {} THEN 0 ELSE f[Pick(T)] + h[T \ {Pick(T)}]]
           sum == CHOOSE h : h = rest(h)
           op == [m \in Nat |-> [n \in Nat |-> m + n]]
           G == {T \in SUBSET S : sum[T] \in Nat}
<1>1. DOMAIN f = S /\ SumFunction(f) = sum[S]
    BY DEF SumFunction, SumFunctionOnSet, FoldFunctionOnSet, MapThenFoldSet, Pick, rest
<1>2. op \in [Nat -> [Nat -> Nat]] /\ \A m, n \in Nat : op[m][n] = m + n
    OBVIOUS
<1> HIDE DEF op
<1>3. \E g : g = rest(g)
    <2>1. PICK g : Folds(g, S, f, op, 0)
        BY <1>2, FoldExists
    <2>2. ASSUME NEW T \in SUBSET S, T # {}
          PROVE  op[f[Pick(T)]][g[T \ {Pick(T)}]] = f[Pick(T)] + g[T \ {Pick(T)}]
        <3>1. Pick(T) \in S /\ T \ {Pick(T)} \in SUBSET S
            BY <2>2, PickOne
        <3>2. f[Pick(T)] \in Nat /\ g[T \ {Pick(T)}] \in Nat
            BY <2>1, <3>1 DEF Folds
        <3> QED
            BY <1>2, <3>2
    <2>3. \A T \in SUBSET S : g[T] = IF T = {} THEN 0 ELSE f[Pick(T)] + g[T \ {Pick(T)}]
        BY <2>1, <2>2 DEF Folds
    <2>4. g = rest(g)
        BY <2>1, <2>3 DEF Folds
    <2> QED
        BY <2>4
<1> HIDE DEF rest
<1>4. sum = rest(sum)
    BY <1>3
<1> HIDE DEF sum
<1>5. /\ sum = [T \in SUBSET S |-> sum[T]]
      /\ sum[{}] = 0
      /\ \A T \in SUBSET S : T # {} => sum[T] = f[Pick(T)] + sum[T \ {Pick(T)}]
    BY <1>4 DEF rest
<1>6. {} \in G
    BY <1>5
<1>7. ASSUME NEW T \in SUBSET S, T # {}, T \ {Pick(T)} \in G PROVE T \in G
    <2>1. Pick(T) \in S /\ sum[T \ {Pick(T)}] \in Nat
        BY <1>7, PickOne
    <2>3. f[Pick(T)] \in Nat
        BY <2>1
    <2>2. sum[T] = f[Pick(T)] + sum[T \ {Pick(T)}]
        BY <1>5, <1>7
    <2> QED
        BY <2>1, <2>2, <2>3
<1> HIDE DEF G
<1>8. SUBSET S \subseteq G
    BY <1>6, <1>7, PickInduction
<1>9. \A T \in SUBSET S : sum[T] \in Nat
    BY <1>8 DEF G
<1>10. sum \in [SUBSET S -> Nat]
    BY <1>5, <1>9
<1>11. SumsOf(sum, f, S)
    BY <1>5, <1>10 DEF SumsOf
<1> QED
    BY <1>1, <1>11

\* Adding a at one element and as much or more everywhere else adds a or more
\* to the sum.
LEMMA SumGrows ==
    ASSUME NEW S, IsFiniteSet(S), NEW f \in [S -> Nat], NEW g \in [S -> Nat],
           NEW k \in S, NEW a \in Nat, f[k] + a <= g[k], \A x \in S : f[x] <= g[x]
    PROVE  SumFunction(f) + a <= SumFunction(g)
<1>1. PICK F : SumsOf(F, f, S) /\ SumFunction(f) = F[S]
    BY SumIs
<1>2. PICK G : SumsOf(G, g, S) /\ SumFunction(g) = G[S]
    BY SumIs
<1> DEFINE less == {T \in SUBSET S : /\ F[T] <= G[T]
                                     /\ k \in T => F[T] + a <= G[T]}
<1>3. {} \in less
    BY <1>1, <1>2 DEF SumsOf
<1>4. ASSUME NEW T \in SUBSET S, T # {}, T \ {Pick(T)} \in less PROVE T \in less
    <2> DEFINE x == Pick(T)
               U == T \ {Pick(T)}
    <2>1. x \in S /\ U \in SUBSET S
        BY <1>4, PickOne
    <2>2. F[T] = f[x] + F[U] /\ G[T] = g[x] + G[U]
        BY <1>1, <1>2, <1>4 DEF SumsOf
    <2>3. F[U] <= G[U] /\ (k \in U => F[U] + a <= G[U]) /\ (k \in T => k \in U \/ k = x)
        BY <1>4
    <2> HIDE DEF x, U
    <2>4. /\ f[x] \in Nat /\ g[x] \in Nat /\ F[U] \in Nat /\ G[U] \in Nat
          /\ f[x] <= g[x] /\ (k = x => f[x] + a <= g[x])
        BY <1>1, <1>2, <2>1 DEF SumsOf
    <2>5. F[T] <= G[T]
        BY <2>2, <2>3, <2>4
    <2>6. ASSUME k \in T PROVE F[T] + a <= G[T]
        <3>1. CASE k = x
            BY <2>2, <2>3, <2>4, <3>1
        <3>2. CASE k \in U
            BY <2>2, <2>3, <2>4, <3>2
        <3> QED
            BY <2>3, <2>6, <3>1, <3>2
    <2> QED
        BY <2>5, <2>6
<1> HIDE DEF less
<1>5. SUBSET S \subseteq less
    BY <1>3, <1>4, PickInduction
<1>6. S \in less
    BY <1>5
<1> QED
    BY <1>1, <1>2, <1>6 DEF less

\* The sum of naturals is a natural, zero over the empty set.
LEMMA SumNat ==
    ASSUME NEW S, IsFiniteSet(S), NEW f \in [S -> Nat]
    PROVE  /\ SumFunction(f) \in Nat
           /\ S = {} => SumFunction(f) = 0
<1>1. PICK F : SumsOf(F, f, S) /\ SumFunction(f) = F[S]
    BY SumIs
<1>2. F[S] \in Nat /\ (S = {} => F[S] = 0)
    BY <1>1 DEF SumsOf
<1> QED
    BY <1>1, <1>2

\* As much or more everywhere makes as much or more in all.
LEMMA SumMonotone ==
    ASSUME NEW S, IsFiniteSet(S), NEW f \in [S -> Nat], NEW g \in [S -> Nat],
           \A x \in S : f[x] <= g[x]
    PROVE  SumFunction(f) <= SumFunction(g)
<1>1. CASE S = {}
    <2>1. SumFunction(f) = 0 /\ SumFunction(g) = 0
        BY <1>1, SumNat
    <2> QED
        BY <2>1
<1>2. CASE S # {}
    <2>1. PICK k \in S : TRUE
        BY <1>2
    <2>2. f[k] \in Nat /\ g[k] \in Nat /\ f[k] + 0 <= g[k]
        OBVIOUS
    <2>3. SumFunction(f) + 0 <= SumFunction(g)
        BY <2>2, SumGrows
    <2> QED
        BY <2>3, SumNat
<1> QED
    BY <1>1, <1>2

\* No summand is more than the sum.
LEMMA SumCovers ==
    ASSUME NEW S, IsFiniteSet(S), NEW f \in [S -> Nat], NEW k \in S
    PROVE  f[k] <= SumFunction(f)
<1> DEFINE zero == [x \in S |-> 0]
<1>1. /\ zero \in [S -> Nat] /\ f[k] \in Nat /\ zero[k] + f[k] <= f[k]
      /\ \A x \in S : zero[x] <= f[x]
    OBVIOUS
<1> HIDE DEF zero
<1>2. SumFunction(zero) + f[k] <= SumFunction(f)
    BY <1>1, SumGrows
<1>3. SumFunction(zero) \in Nat /\ SumFunction(f) \in Nat
    BY <1>1, SumNat
<1> QED
    BY <1>1, <1>2, <1>3

----------------------------------------------------------------------------
(* Types, the idle guest, and entries off the list.                        *)

\* The countdowns of a well-typed state, with the expired entries renewed.
LEMMA LeftType ==
    ASSUME TypeOK
    PROVE  /\ PeriodLeft \in [Vcpus -> 0 .. MaxWord]
           /\ BudgetLeft \in [Vcpus -> 0 .. MaxWord]
           /\ Counted \in [Vcpus -> 0 .. MaxWord]
           /\ \A v \in Vcpus : Period(v) \in 0 .. MaxWord /\ Budget(v) \in 0 .. MaxWord
           /\ Entries \subseteq Vcpus
<1>1. \A v \in Vcpus : Period(v) \in 0 .. MaxWord /\ Budget(v) \in 0 .. MaxWord
    BY RtAssumption DEF TypeOK, Period, Budget
<1>2. PeriodLeft \in [Vcpus -> 0 .. MaxWord]
    BY <1>1 DEF TypeOK, PeriodLeft, Renewed
<1>3. BudgetLeft \in [Vcpus -> 0 .. MaxWord]
    BY <1>1 DEF TypeOK, BudgetLeft, Renewed
<1>4. Counted \in [Vcpus -> 0 .. MaxWord]
    BY <1>2, RtAssumption DEF Counted, Less
<1>5. Entries \subseteq Vcpus
    BY DEF TypeOK, Entries
<1> QED
    BY <1>1, <1>2, <1>3, <1>4, <1>5

\* A set that holds zero, and every number up to N whose predecessor it holds,
\* holds them all.
LEMMA UpTo ==
    ASSUME NEW N \in Nat, NEW G, 0 \in G, \A n \in 1 .. N : n - 1 \in G => n \in G
    PROVE  \A n \in 0 .. N : n \in G
<1> DEFINE bad == {n \in 0 .. N : n \notin G}
<1> SUFFICES ASSUME bad # {} PROVE FALSE
    OBVIOUS
<1>0. bad \subseteq Nat
    OBVIOUS
<1>1. PICK m \in bad : \A n \in bad : m <= n
    BY <1>0, Least
<1>2. m \in 1 .. N /\ m - 1 \in 0 .. N
    OBVIOUS
<1>3. m - 1 \in G
    BY <1>1, <1>2
<1> QED
    BY <1>2, <1>3

\* The search of do_schedule as an equation.
Search(g) ==
    [n \in 0 .. Len(runqueue) |->
        IF n = 0 THEN 0 ELSE IF Takes(n, g[n - 1]) THEN n ELSE g[n - 1]]

\* It goes through the list, so it has a solution, and Found is one.
LEMMA FoundIs ==
    ASSUME TypeOK
    PROVE  Found = Search(Found)
<1> DEFINE N == Len(runqueue)
           G == {m \in 0 .. N : \E g \in [0 .. N -> 0 .. N] :
                    \A n \in 0 .. m : g[n] = Search(g)[n]}
<1>1. N \in Nat
    BY DEF TypeOK
<1>2. 0 \in G
    <2> DEFINE g == [n \in 0 .. N |-> 0]
    <2>1. g \in [0 .. N -> 0 .. N] /\ g[0] = Search(g)[0]
        BY <1>1 DEF Search
    <2> HIDE DEF g, N
    <2>2. \A n \in 0 .. 0 : n = 0
        OBVIOUS
    <2> QED
        BY <1>1, <2>1, <2>2
<1>3. ASSUME NEW m \in 1 .. N, m - 1 \in G PROVE m \in G
    <2>1. PICK g \in [0 .. N -> 0 .. N] : \A n \in 0 .. m - 1 : g[n] = Search(g)[n]
        BY <1>3
    <2> DEFINE h == [g EXCEPT ![m] = Search(g)[m]]
    <2>2. Search(g)[m] \in 0 .. N
        BY <1>1 DEF Search
    <2>3. h \in [0 .. N -> 0 .. N] /\ \A n \in 0 .. N : n # m => h[n] = g[n]
        BY <2>2
    <2>4. h[m] = Search(g)[m]
        BY <1>1
    <2> HIDE DEF h
    <2>5. ASSUME NEW n \in 0 .. m PROVE h[n] = Search(h)[n]
        <3>1. n \in 0 .. N /\ (n # 0 => n - 1 \in 0 .. N /\ n - 1 # m)
            BY <1>1
        <3>2. n # 0 => h[n - 1] = g[n - 1]
            BY <2>3, <3>1
        <3>3. Search(h)[n] = Search(g)[n]
            BY <3>1, <3>2 DEF Search
        <3>4. n # m => n \in 0 .. m - 1
            BY <1>1
        <3> QED
            BY <2>1, <2>3, <2>4, <3>1, <3>3, <3>4
    <2> QED
        BY <1>1, <2>3, <2>5
<1> HIDE DEF G
<1>4. N \in G
    <2>1. \A n \in 0 .. N : n \in G
        BY <1>1, <1>2, <1>3, UpTo
    <2> QED
        BY <1>1, <2>1
<1>5. \E g : g = Search(g)
    <2>1. PICK g \in [0 .. N -> 0 .. N] : \A n \in 0 .. N : g[n] = Search(g)[n]
        BY <1>4 DEF G
    <2>2. g = Search(g)
        BY <2>1 DEF Search
    <2> QED
        BY <2>2
<1>6. Found = CHOOSE g : g = Search(g)
    BY DEF Found, Search
<1> QED
    BY <1>5, <1>6

\* After n entries the search has found one with budget left, if there is one;
\* under rate monotonic none of them has a shorter period.
LEMMA FoundSoFar ==
    ASSUME TypeOK
    PROVE  \A n \in 0 .. Len(runqueue) :
              /\ Found[n] \in 0 .. n
              /\ Found[n] # 0 => runqueue[Found[n]] \in Eligible
              /\ Found[n] = 0 => \A i \in 1 .. n : runqueue[i] \notin Eligible
              /\ policy = "rm" => \A i \in 1 .. n : runqueue[i] \in Eligible =>
                     Period(runqueue[Found[n]]) <= Period(runqueue[i])
<1> DEFINE N == Len(runqueue)
           least(n) == policy = "rm" => \A i \in 1 .. n : runqueue[i] \in Eligible =>
                     Period(runqueue[Found[n]]) <= Period(runqueue[i])
           good(n) == /\ Found[n] \in 0 .. n
                      /\ Found[n] # 0 => runqueue[Found[n]] \in Eligible
                      /\ Found[n] = 0 => \A i \in 1 .. n : runqueue[i] \notin Eligible
                      /\ least(n)
           G == {n \in 0 .. N : good(n)}
<1>1. N \in Nat /\ MaxWord \in Nat
    BY RtAssumption DEF TypeOK
<1>2. /\ Found[0] = 0
      /\ \A n \in 1 .. N : Found[n] = IF Takes(n, Found[n - 1]) THEN n ELSE Found[n - 1]
    BY <1>1, FoundIs DEF Search
<1>3. \A i \in 1 .. N : /\ runqueue[i] \in Entries /\ runqueue[i] \in Vcpus
                        /\ Period(runqueue[i]) \in 0 .. MaxWord
                        /\ Key(runqueue[i], PeriodLeft) \in 0 .. MaxWord
                        /\ BudgetLeft[runqueue[i]] \in 0 .. MaxWord
    <2>1. \A i \in 1 .. N : runqueue[i] \in Entries /\ runqueue[i] \in Vcpus
        BY DEF TypeOK, Entries
    <2> QED
        BY <2>1, LeftType DEF Key, KeyRm, KeyEdf
<1>4. 0 \in G
    BY <1>1, <1>2
<1>5. ASSUME NEW n \in 1 .. N, n - 1 \in G PROVE n \in G
    <2> DEFINE f == Found[n - 1]
               v == runqueue[n]
    <2>1. /\ f \in 0 .. n - 1 /\ (f # 0 => f \in 1 .. N /\ runqueue[f] \in Eligible)
          /\ f = 0 => \A i \in 1 .. n - 1 : runqueue[i] \notin Eligible
          /\ least(n - 1)
        BY <1>1, <1>5
    <2>2. Found[n] = IF Takes(n, f) THEN n ELSE f
        BY <1>2
    <2>3. \A i \in 1 .. n : i = n \/ i \in 1 .. n - 1
        BY <1>1
    <2>4. MinPeriod(f) \in 0 .. MaxWord /\ (f # 0 => MinPeriod(f) = Period(runqueue[f]))
          /\ (f = 0 => MinPeriod(f) = MaxWord)
        BY <1>1, <1>3, <2>1 DEF MinPeriod
    <2> HIDE DEF f, G
    <2>5. CASE Takes(n, f)
        <3>1. v \in Eligible
            BY <1>1, <1>3, <2>4, <2>5 DEF Takes, Eligible
        <3>2. Found[n] = n
            BY <2>2, <2>5
        <3>3. ASSUME policy = "rm", NEW i \in 1 .. n, runqueue[i] \in Eligible
              PROVE  Period(v) <= Period(runqueue[i])
            <4>1. CASE i = n
                BY <1>3, <4>1
            <4>2. CASE i \in 1 .. n - 1
                <5>1. f # 0 /\ Period(runqueue[f]) <= Period(runqueue[i])
                    BY <2>1, <3>3, <4>2 DEF f
                <5>2. Period(v) < Period(runqueue[f])
                    BY <2>4, <2>5, <3>3, <5>1 DEF Takes, Key, KeyRm
                <5>3. /\ Period(v) \in 0 .. MaxWord /\ Period(runqueue[f]) \in 0 .. MaxWord
                      /\ Period(runqueue[i]) \in 0 .. MaxWord
                    BY <1>1, <1>3, <2>1, <4>2, <5>1
                <5> HIDE DEF v
                <5> QED
                    BY <1>1, <5>1, <5>2, <5>3
            <4> QED
                BY <2>3, <4>1, <4>2
        <3> QED
            BY <1>1, <3>1, <3>2, <3>3 DEF G
    <2>6. CASE ~Takes(n, f)
        <3>1. Found[n] = f
            BY <2>2, <2>6
        <3>2. v \in Eligible => /\ f # 0
                                /\ policy = "rm" => Period(runqueue[f]) <= Period(v)
            <4>1. ASSUME v \in Eligible PROVE MinPeriod(f) <= Key(v, PeriodLeft)
                BY <1>1, <1>3, <2>4, <2>6, <4>1 DEF Takes, Eligible
            <4>2. ASSUME v \in Eligible, f = 0 PROVE FALSE
                BY <1>1, <1>3, <2>4, <4>1, <4>2 DEF Eligible
            <4> QED
                BY <2>4, <4>1, <4>2 DEF Key, KeyRm
        <3>3. \A i \in 1 .. n : runqueue[i] \in Eligible =>
                 f # 0 /\ (policy = "rm" => Period(runqueue[f]) <= Period(runqueue[i]))
            BY <2>1, <2>3, <3>2 DEF f
        <3> QED
            BY <1>1, <2>1, <3>1, <3>3 DEF G
    <2> QED
        BY <2>5, <2>6
<1> HIDE DEF G
<1>6. \A n \in 0 .. N : n \in G
    BY <1>1, <1>4, <1>5, UpTo
<1> QED
    BY <1>6 DEF G

\* The search of do_schedule ends with an eligible entry, under rate monotonic
\* with one of shortest period.
LEMMA BestIsFound ==
    ASSUME TypeOK, Eligible # {}
    PROVE  /\ Best \in Eligible
           /\ policy = "rm" => \A u \in Eligible : Period(Best) <= Period(u)
<1> DEFINE N == Len(runqueue)
<1>1. N \in 0 .. N
    BY DEF TypeOK
<1>2. \A u \in Eligible : \E i \in 1 .. N : runqueue[i] = u
    BY DEF Eligible, Entries
<1>3. Found[N] # 0
    BY <1>1, <1>2, FoundSoFar
<1>4. Best = runqueue[Found[N]]
    BY DEF Best
<1> QED
    BY <1>1, <1>2, <1>3, <1>4, FoundSoFar

\* The search of do_schedule ends with an entry of the list.
LEMMA BestIsAnEntry ==
    ASSUME TypeOK, Eligible # {}
    PROVE  Best \in Entries
    BY BestIsFound DEF Eligible

\* The variables keep their types.
LEMMA TypeStep == TypeOK /\ [Next]_vars => TypeOK'
<1> SUFFICES ASSUME TypeOK, [Next]_vars PROVE TypeOK'
    OBVIOUS
<1> USE DEF TypeOK
<1>1. ASSUME Tick PROVE TypeOK'
    <2>1. Chosen \in Vcpus
        BY <1>1, LeftType, BestIsAnEntry
           DEF Tick, Hangs, Chosen, CurrentHasBudget
    <2>2. missed' \subseteq Vcpus /\ period_cntdn' \in [Vcpus -> 0 .. MaxWord]
        BY <1>1, LeftType DEF Tick, CountDown, Expired
    <2>3. budget_cntdn' \in [Vcpus -> 0 .. MaxWord]
        <3>1. Less(BudgetLeft[Chosen]) \in 0 .. MaxWord
            <4>1. BudgetLeft[Chosen] \in 0 .. MaxWord
                BY <2>1, LeftType
            <4> HIDE DEF TypeOK
            <4> QED
                BY <4>1, RtAssumption DEF Less
        <3>2. budget_cntdn' = [BudgetLeft EXCEPT ![Chosen] = Less(BudgetLeft[Chosen])]
            BY <1>1 DEF Tick
        <3> QED
            BY <2>1, <3>1, <3>2, LeftType
    <2>4. Stopped \in [Vcpus -> {"detached", "waiting", "running"}]
        BY DEF Stopped
    <2> QED
        BY <1>1, <2>1, <2>2, <2>3, <2>4 DEF Tick
<1>2. ASSUME Hang PROVE TypeOK'
    <2>1. missed' \subseteq Vcpus /\ period_cntdn' \in [Vcpus -> 0 .. MaxWord]
        BY <1>2, LeftType DEF Hang, CountDown, Expired
    <2>2. Stopped \in [Vcpus -> {"detached", "waiting", "running"}]
        BY DEF Stopped
    <2> QED
        BY <1>2, <2>1, <2>2, LeftType DEF Hang
<1>3. ASSUME NEW v \in Vcpus, Attach(v) PROVE TypeOK'
    <2>1. Period(v) \in 0 .. MaxWord /\ Budget(v) \in 0 .. MaxWord
        BY LeftType
    <2>2. runqueue' \in Seq(Vcpus)
        BY <1>3 DEF Attach
    <2>3. state' \in [Vcpus -> {"detached", "waiting", "running"}]
        BY <1>3 DEF Attach
    <2>4. /\ period_cntdn' \in [Vcpus -> 0 .. MaxWord]
          /\ budget_cntdn' \in [Vcpus -> 0 .. MaxWord]
        BY <1>3, <2>1 DEF Attach
    <2> QED
        BY <1>3, <2>2, <2>3, <2>4 DEF Attach
<1>4. ASSUME NEW v \in Vcpus, Detach(v) PROVE TypeOK'
    <2>1. runqueue' \in Seq(Vcpus)
        <3>1. PICK i \in 1 .. Len(runqueue) :
                 runqueue' = SubSeq(runqueue, 1, i - 1)
                             \o SubSeq(runqueue, i + 1, Len(runqueue))
            BY <1>4 DEF Detach
        <3>2. /\ SubSeq(runqueue, 1, i - 1) \in Seq(Vcpus)
              /\ SubSeq(runqueue, i + 1, Len(runqueue)) \in Seq(Vcpus)
            <4>1. runqueue \in Seq(Vcpus)
                OBVIOUS
            <4> HIDE DEF TypeOK
            <4>2. SubSeq(runqueue, 1, i - 1) \in Seq(Vcpus)
                BY <4>1
            <4>3. SubSeq(runqueue, i + 1, Len(runqueue)) \in Seq(Vcpus)
                BY <4>1
            <4> QED
                BY <4>2, <4>3
        <3> QED
            BY <3>1, <3>2
    <2>2. UNCHANGED <<policy, conf, current, state, period_cntdn, budget_cntdn, missed, stuck>>
        BY <1>4 DEF Detach
    <2> QED
        BY <2>1, <2>2
<1>5. ASSUME UNCHANGED vars PROVE TypeOK'
    BY <1>5 DEF vars
<1> QED
    BY <1>1, <1>2, <1>3, <1>4, <1>5 DEF Next

\* A detach adds nothing to the list.
LEMMA DetachLeaves ==
    ASSUME TypeOK, NEW u \in Vcpus, Detach(u)
    PROVE  Entries' \subseteq Entries
<1> SUFFICES ASSUME NEW v \in Entries' PROVE v \in Entries
    OBVIOUS
<1>1. PICK i \in 1 .. Len(runqueue) :
         runqueue' = SubSeq(runqueue, 1, i - 1)
                     \o SubSeq(runqueue, i + 1, Len(runqueue))
    BY DEF Detach
<1>2. PICK j \in 1 .. Len(runqueue') : runqueue'[j] = v
    BY DEF Entries
<1>3. runqueue \in Seq(Vcpus)
    BY DEF TypeOK
<1> DEFINE before == SubSeq(runqueue, 1, i - 1)
           after  == SubSeq(runqueue, i + 1, Len(runqueue))
<1>4. /\ before \in Seq(Vcpus) /\ Len(before) = i - 1
      /\ \A k \in 1 .. i - 1 : before[k] = runqueue[k]
    BY <1>3
<1>5. /\ after \in Seq(Vcpus) /\ Len(after) = Len(runqueue) - i
      /\ \A k \in 1 .. Len(runqueue) - i : after[k] = runqueue[k + i]
    BY <1>3
<1>6. runqueue' = before \o after
    BY <1>1
<1> HIDE DEF before, after
<1>7. j + 1 \in 1 .. Len(runqueue) /\ j \in Nat \ {0} /\ i \in Nat
    <2>1. Len(runqueue) \in Nat /\ i \in Nat \ {0}
        BY <1>3
    <2>2. Len(runqueue') = (i - 1) + (Len(runqueue) - i)
        BY <1>4, <1>5, <1>6
    <2> QED
        BY <1>2, <2>1, <2>2
<1>8. runqueue'[j] = IF j < i THEN runqueue[j] ELSE runqueue[j + 1]
    <2>1. CASE j < i
        <3>1. j \in 1 .. i - 1
            BY <1>7, <2>1
        <3>2. runqueue'[j] = before[j]
            BY <1>4, <1>5, <1>6, <3>1
        <3> QED
            BY <1>4, <2>1, <3>1, <3>2
    <2>2. CASE ~(j < i)
        <3>1. /\ j - (i - 1) \in 1 .. Len(runqueue) - i /\ Len(runqueue) \in Nat
              /\ (j - (i - 1)) + i = j + 1
            BY <1>3, <1>7, <2>2
        <3>2. runqueue'[j] = after[j - (i - 1)]
            BY <1>4, <1>5, <1>6, <1>7, <2>2, <3>1
        <3> QED
            BY <1>5, <2>2, <3>1, <3>2
    <2> QED
        BY <2>1, <2>2
<1> QED
    BY <1>2, <1>3, <1>7, <1>8 DEF Entries

\* An attached idle guest is always eligible.
LEMMA IdleEligible ==
    ASSUME TypeOK, IdleInv, NEW v \in Entries, Idle(v)
    PROVE  /\ v \in Eligible
           /\ PeriodLeft[v] \in 1 .. Period(v)
           /\ PeriodLeft[v] <= BudgetLeft[v]
<1>1. v \in Vcpus /\ Period(v) \in 1 .. MaxWord - 1 /\ Budget(v) = Period(v)
    BY LeftType, RtAssumption DEF Idle
<1>2. PeriodLeft[v] \in 1 .. Period(v) /\ PeriodLeft[v] <= BudgetLeft[v]
    <2>1. CASE v \in Expired
        BY <1>1, <2>1 DEF PeriodLeft, BudgetLeft, Renewed
    <2>2. CASE v \notin Expired
        BY <1>1, <2>2 DEF PeriodLeft, BudgetLeft, Renewed, Expired, IdleInv, TypeOK
    <2> QED
        BY <2>1, <2>2
<1>3. Key(v, PeriodLeft) < MaxWord
    BY <1>1, <1>2, RtAssumption DEF Key, KeyRm, KeyEdf
<1>4. BudgetLeft[v] > 0
    BY <1>1, <1>2, LeftType
<1> QED
    BY <1>2, <1>3, <1>4 DEF Eligible

\* IdleInv is inductive.
LEMMA IdleStep == TypeOK /\ IdleInv /\ [Next]_vars => IdleInv'
<1> SUFFICES ASSUME TypeOK, IdleInv, [Next]_vars, NEW v \in Entries', Idle(v)'
             PROVE  /\ period_cntdn'[v] <= Period(v)'
                    /\ period_cntdn'[v] <= budget_cntdn'[v]
    BY DEF IdleInv
<1>0. conf' = conf /\ Period(v)' = Period(v) /\ Budget(v)' = Budget(v) /\ Idle(v)
    BY DEF Next, Tick, Hang, Attach, Detach, vars, Period, Budget, Idle
<1>1. ASSUME Tick PROVE /\ period_cntdn'[v] <= Period(v)
                        /\ period_cntdn'[v] <= budget_cntdn'[v]
    <2>1. v \in Entries /\ v \in Vcpus
        BY <1>1, LeftType DEF Tick, Entries
    <2>2. PeriodLeft[v] \in 1 .. Period(v) /\ PeriodLeft[v] <= BudgetLeft[v]
        BY <1>0, <2>1, IdleEligible
    <2>3. period_cntdn'[v] = PeriodLeft[v] - 1
        BY <1>1, <2>1, <2>2 DEF Tick, CountDown, Counted, Less
    <2>4. Period(v) \in Nat /\ BudgetLeft[v] \in Nat
        BY <2>1, LeftType
    <2>5. budget_cntdn'[v] \in {BudgetLeft[v], BudgetLeft[v] - 1}
        BY <1>1, <2>1, <2>2, <2>4, LeftType DEF Tick, Less
    <2> QED
        BY <2>2, <2>3, <2>4, <2>5
<1>2. ASSUME Hang PROVE /\ period_cntdn'[v] <= Period(v)
                        /\ period_cntdn'[v] <= budget_cntdn'[v]
    <2>1. v \in Entries
        BY <1>2 DEF Hang, Entries
    <2> QED
        BY <1>0, <1>2, <2>1, IdleEligible DEF Hang, Hangs
<1>3. ASSUME NEW u \in Vcpus, Attach(u)
      PROVE  /\ period_cntdn'[v] <= Period(v)
             /\ period_cntdn'[v] <= budget_cntdn'[v]
    <2>1. u = v \/ v \in Entries
        <3>1. PICK i \in 1 .. Len(runqueue') : runqueue'[i] = v
            BY DEF Entries
        <3>2. runqueue \in Seq(Vcpus) /\ runqueue' = Append(runqueue, u)
            BY <1>3 DEF Attach, TypeOK
        <3>3. i \in 1 .. Len(runqueue) => runqueue[i] = v
            BY <3>1, <3>2
        <3>4. i \notin 1 .. Len(runqueue) => v = u
            BY <3>1, <3>2
        <3> QED
            BY <3>3, <3>4 DEF Entries
    <2>2. CASE u = v
        BY <1>0, <1>3, <2>2, LeftType DEF Attach, TypeOK, Idle
    <2>3. CASE u # v
        BY <1>0, <1>3, <2>1, <2>3, LeftType DEF Attach, TypeOK, IdleInv
    <2> QED
        BY <2>2, <2>3
<1>4. ASSUME NEW u \in Vcpus, Detach(u)
      PROVE  /\ period_cntdn'[v] <= Period(v)
             /\ period_cntdn'[v] <= budget_cntdn'[v]
    <2>1. v \in Entries
        BY <1>4, DetachLeaves
    <2> QED
        BY <1>0, <1>4, <2>1 DEF Detach, IdleInv
<1>5. ASSUME UNCHANGED vars
      PROVE  /\ period_cntdn'[v] <= Period(v)
             /\ period_cntdn'[v] <= budget_cntdn'[v]
    <2>1. v \in Entries
        BY <1>5 DEF vars, Entries
    <2> QED
        BY <1>0, <1>5, <2>1 DEF vars, IdleInv
<1> QED
    BY <1>0, <1>1, <1>2, <1>3, <1>4, <1>5 DEF Next

\* Both hold initially.
LEMMA InitOK == Init => TypeOK /\ IdleInv
<1> SUFFICES ASSUME Init PROVE TypeOK /\ IdleInv
    OBVIOUS
<1>1. 0 \in 0 .. MaxWord
    BY RtAssumption
<1>2. runqueue \in Seq(Vcpus) /\ Len(runqueue) = 0
    BY DEF Init
<1>3. Entries = {}
    BY <1>2 DEF Entries
<1> QED
    BY <1>1, <1>2, <1>3 DEF Init, TypeOK, IdleInv

\* The variables of both policies keep their types, for every configuration.
THEOREM TypeCorrect == Spec => []TypeOK
BY InitOK, TypeStep, PTL DEF Spec

\* do_schedule never hangs while an idle guest is attached to the pCPU,
\* whatever the vCPUs, their slices, and the order of attach and detach.
THEOREM IdleKeepsItGoing == Spec => IdleSuffices
<1>1. TypeOK /\ IdleInv /\ [Next]_vars => TypeOK' /\ IdleInv'
    BY TypeStep, IdleStep
<1>2. TypeOK /\ IdleInv /\ [Next]_vars =>
         [stuck' /\ ~stuck => \A v \in Entries : ~Idle(v)]_vars
    <2> SUFFICES ASSUME TypeOK, IdleInv, [Next]_vars, stuck', ~stuck
                 PROVE  \A v \in Entries : ~Idle(v)
        BY DEF vars
    <2>1. Hang
        BY DEF Next, Tick, Attach, Detach, vars
    <2> QED
        BY <2>1, IdleEligible DEF Hang, Hangs
<1> QED
    BY InitOK, <1>1, <1>2, PTL DEF Spec, IdleSuffices

\* What a call leaves of the budget of an entry that is not on the list: no
\* more than there was, and none of it if it does not go on being current.
LEMMA OffTheList ==
    ASSUME TypeOK, NEW v \in Vcpus, v \notin Entries, state[v] # "detached", Next
    PROVE  /\ budget_cntdn'[v] <= budget_cntdn[v]
           /\ current' = v => current = v
<1>1. BudgetLeft \in [Vcpus -> 0 .. MaxWord] /\ BudgetLeft[v] = budget_cntdn[v]
    BY LeftType DEF TypeOK, BudgetLeft, Renewed, Expired
<1>2. budget_cntdn[v] \in 0 .. MaxWord /\ budget_cntdn[v] <= budget_cntdn[v]
    BY RtAssumption DEF TypeOK
<1>3. CASE Tick
    <2>1. Best \in Entries
        BY <1>3, BestIsAnEntry DEF Tick, Hangs
    <2>2. budget_cntdn' = [BudgetLeft EXCEPT ![Chosen] = Less(@)] /\ current' = Chosen
        BY <1>3 DEF Tick
    <2>3. CASE Chosen = v
        <3>1. current = v /\ BudgetLeft[v] > 0
            BY <2>1, <2>3 DEF Chosen, CurrentHasBudget
        <3>2. budget_cntdn'[v] = Less(BudgetLeft[v])
            BY <1>1, <2>2, <2>3
        <3>3. Less(BudgetLeft[v]) <= BudgetLeft[v]
            BY <1>1, <3>1, RtAssumption DEF Less
        <3> QED
            BY <1>1, <3>1, <3>2, <3>3
    <2>4. CASE Chosen # v
        <3>1. budget_cntdn'[v] = BudgetLeft[v]
            BY <1>1, <2>2, <2>4
        <3> QED
            BY <1>1, <1>2, <2>2, <2>4, <3>1
    <2> QED
        BY <2>3, <2>4
<1>4. CASE Hang
    BY <1>1, <1>2, <1>4 DEF Hang
<1>5. ASSUME NEW u \in Vcpus, Attach(u) PROVE budget_cntdn'[v] = budget_cntdn[v] /\ current' = current
    BY <1>5 DEF Attach, TypeOK
<1>6. ASSUME NEW u \in Vcpus, Detach(u) PROVE budget_cntdn'[v] = budget_cntdn[v] /\ current' = current
    BY <1>6 DEF Detach
<1> QED
    BY <1>2, <1>3, <1>4, <1>5, <1>6 DEF Next

\* An entry that is detached while it runs gets no more than what is left of
\* its budget, and nothing once another one has run, although sd->current goes
\* on pointing to it (core/sched/rt-rm.c, sched_rm_vcpu_detach).
THEOREM DetachedDoesNotReturn == Spec => DetachedRunsOut
<1>1. TypeOK /\ [Next]_vars =>
         [\A v \in Vcpus : state[v] # "detached" /\ v \notin Entries =>
             /\ budget_cntdn'[v] <= budget_cntdn[v]
             /\ current' = v => current = v]_vars
    BY OffTheList
<1> QED
    BY <1>1, TypeCorrect, PTL DEF Spec, DetachedRunsOut

----------------------------------------------------------------------------
(* Rate monotonic: the vCPU with the shortest period.                      *)

\* A vCPU whose budget fits in a period shorter than that of any other vCPU
\* that is to run at all.
Shortest(v) ==
    /\ Budget(v) <= Period(v) /\ Period(v) < MaxWord
    /\ \A u \in Vcpus \ {v} : Budget(u) > 0 => Period(v) < Period(u)

\* Nobody has more than a whole budget left, and what a vCPU of shortest
\* period has left fits in what is left of its period.
ShortestInv ==
    /\ \A u \in Vcpus : budget_cntdn[u] <= Budget(u)
    /\ policy = "rm" => \A v \in Vcpus : Shortest(v) =>
          /\ v \notin missed
          /\ v \in Entries => budget_cntdn[v] <= period_cntdn[v]

\* While it has budget left it is what the search finds, and what runs.
LEMMA ShortestRuns ==
    ASSUME TypeOK, ShortestInv, policy = "rm", NEW v \in Entries, Shortest(v),
           BudgetLeft[v] > 0
    PROVE  Chosen = v
<1>1. /\ \A u \in Vcpus : /\ BudgetLeft[u] \in 0 .. MaxWord /\ BudgetLeft[u] <= Budget(u)
                         /\ Budget(u) \in 0 .. MaxWord /\ Period(u) \in 0 .. MaxWord
      /\ Entries \subseteq Vcpus /\ v \in Vcpus
    BY LeftType DEF ShortestInv, BudgetLeft, Renewed, TypeOK
<1>2. \A u, left : Key(u, left) = Period(u)
    BY DEF Key, KeyRm
<1>3. v \in Eligible
    BY <1>2 DEF Eligible, Shortest
<1>4. \A u \in Vcpus : u # v /\ BudgetLeft[u] > 0 => Period(v) < Period(u)
    BY <1>1, RtAssumption DEF Shortest
<1>5. Best = v
    <2>1. Best \in Eligible /\ Period(Best) <= Period(v)
        BY <1>2, <1>3, BestIsFound
    <2>2. Best \in Vcpus /\ BudgetLeft[Best] > 0
        BY <1>1, <2>1 DEF Eligible
    <2> QED
        BY <1>1, <1>4, <2>1, <2>2
<1>6. ASSUME CurrentHasBudget, current # v PROVE Preempts(Best)
    <2>1. current \in Vcpus /\ BudgetLeft[current] > 0
        BY <1>6 DEF CurrentHasBudget, TypeOK
    <2>2. Period(v) < Period(current)
        BY <1>4, <1>6, <2>1
    <2> QED
        BY <1>1, <1>2, <1>5, <2>1, <2>2 DEF Preempts
<1> QED
    BY <1>5, <1>6 DEF Chosen

\* A call of do_schedule takes as much of its budget as of its period.
LEMMA ShortestTick ==
    ASSUME TypeOK, ShortestInv, Tick \/ Hang
    PROVE  ShortestInv'
<1>1. /\ BudgetLeft \in [Vcpus -> 0 .. MaxWord] /\ PeriodLeft \in [Vcpus -> 0 .. MaxWord]
      /\ \A u \in Vcpus : /\ BudgetLeft[u] <= Budget(u)
                         /\ Budget(u) \in 0 .. MaxWord /\ Period(u) \in 0 .. MaxWord
      /\ Entries \subseteq Vcpus
    BY LeftType DEF ShortestInv, BudgetLeft, Renewed, TypeOK
<1>2. /\ UNCHANGED <<policy, conf, runqueue>>
      /\ missed' = missed \cup {v \in Expired : budget_cntdn[v] # 0}
      /\ period_cntdn' = Counted
    BY DEF Tick, Hang, CountDown
<1>3. ASSUME Tick PROVE /\ Chosen \in Vcpus /\ BudgetLeft[Chosen] > 0
                        /\ budget_cntdn' = [BudgetLeft EXCEPT ![Chosen] = BudgetLeft[Chosen] - 1]
    <2>1. Best \in Vcpus /\ BudgetLeft[Best] > 0
        BY <1>1, <1>3, BestIsFound DEF Tick, Hangs, Eligible
    <2>2. Chosen \in Vcpus /\ BudgetLeft[Chosen] > 0
        BY <2>1 DEF Chosen, CurrentHasBudget, TypeOK
    <2>3. Less(BudgetLeft[Chosen]) = BudgetLeft[Chosen] - 1
        BY <1>1, <2>2 DEF Less
    <2> QED
        BY <1>3, <2>2, <2>3 DEF Tick
<1>4. ASSUME Hang PROVE budget_cntdn' = BudgetLeft
    BY <1>4 DEF Hang
<1>5. \A u \in Vcpus : Budget(u)' = Budget(u) /\ Period(u)' = Period(u)
    BY <1>2 DEF Budget, Period
<1>6. ASSUME NEW u \in Vcpus PROVE budget_cntdn'[u] <= Budget(u)
    <2>1. budget_cntdn'[u] \in {BudgetLeft[u], BudgetLeft[u] - 1}
        BY <1>1, <1>3, <1>4
    <2> QED
        BY <1>1, <2>1
<1>7. ASSUME policy = "rm", NEW v \in Vcpus, Shortest(v)
      PROVE  v \notin missed' /\ (v \in Entries => budget_cntdn'[v] <= period_cntdn'[v])
    <2>1. v \notin missed /\ (v \in Entries => budget_cntdn[v] <= period_cntdn[v])
        BY <1>7 DEF ShortestInv
    <2>2. v \notin missed'
        <3>1. v \in Expired => v \in Entries /\ period_cntdn[v] = 0 /\ budget_cntdn[v] \in 0 .. MaxWord
            BY DEF Expired, TypeOK
        <3>2. v \in Expired => budget_cntdn[v] = 0
            BY <2>1, <3>1, RtAssumption
        <3> QED
            BY <1>2, <2>1, <3>2
    <2>3. ASSUME v \in Entries PROVE budget_cntdn'[v] <= period_cntdn'[v]
        <3>1. BudgetLeft[v] <= PeriodLeft[v]
            BY <1>7, <2>1, <2>3 DEF BudgetLeft, PeriodLeft, Renewed, Shortest
        <3>2. period_cntdn'[v] = Less(PeriodLeft[v])
            BY <1>2, <2>3 DEF Counted
        <3>3. CASE BudgetLeft[v] > 0
            <4>1. Chosen = v
                BY <1>7, <2>3, <3>3, ShortestRuns
            <4>2. v \in Eligible
                BY <1>7, <2>3, <3>3 DEF Eligible, Key, KeyRm, Shortest
            <4>3. budget_cntdn'[v] = BudgetLeft[v] - 1
                BY <1>1, <1>3, <4>1, <4>2 DEF Hang, Hangs
            <4>4. period_cntdn'[v] = PeriodLeft[v] - 1
                BY <1>1, <3>1, <3>2, <3>3 DEF Less
            <4> QED
                BY <1>1, <3>1, <4>3, <4>4
        <3>4. CASE ~ (BudgetLeft[v] > 0)
            <4>1. BudgetLeft[v] = 0 /\ budget_cntdn'[v] = 0
                BY <1>1, <1>3, <1>4, <3>4
            <4>2. period_cntdn'[v] \in 0 .. MaxWord
                BY <1>1, <3>2, RtAssumption DEF Less
            <4> QED
                BY <4>1, <4>2
        <3> QED
            BY <3>3, <3>4
    <2> QED
        BY <2>2, <2>3
<1>8. \A v \in Vcpus : Shortest(v)' => Shortest(v)
    BY <1>5 DEF Shortest
<1> QED
    BY <1>2, <1>5, <1>6, <1>7, <1>8 DEF ShortestInv, Entries

\* Every step keeps the invariant.
LEMMA ShortestStep == TypeOK /\ ShortestInv /\ [Next]_vars => ShortestInv'
<1> SUFFICES ASSUME TypeOK, ShortestInv, [Next]_vars PROVE ShortestInv'
    OBVIOUS
<1>1. ASSUME NEW u \in Vcpus, Attach(u) PROVE ShortestInv'
    <2>1. /\ UNCHANGED <<policy, conf, missed>>
          /\ period_cntdn' = [period_cntdn EXCEPT ![u] = Period(u)]
          /\ budget_cntdn' = [budget_cntdn EXCEPT ![u] = Budget(u)]
          /\ runqueue' = Append(runqueue, u)
        BY <1>1 DEF Attach
    <2>2. \A v \in Entries' : v \in Entries \/ v = u
        BY <2>1 DEF Entries, TypeOK
    <2>3. \A v \in Vcpus : /\ Budget(v)' = Budget(v) /\ Period(v)' = Period(v)
                          /\ Budget(v) \in 0 .. MaxWord /\ (Shortest(v)' => Shortest(v))
        BY <2>1, LeftType DEF Budget, Period, Shortest
    <2>4. \A v \in Vcpus : /\ budget_cntdn'[v] = IF v = u THEN Budget(v) ELSE budget_cntdn[v]
                          /\ period_cntdn'[v] = IF v = u THEN Period(v) ELSE period_cntdn[v]
        BY <2>1 DEF TypeOK
    <2>5. \A v \in Vcpus : Shortest(v) => Budget(v) <= Period(v)
        BY DEF Shortest
    <2> QED
        BY <2>1, <2>2, <2>3, <2>4, <2>5, RtAssumption DEF ShortestInv
<1>2. ASSUME NEW u \in Vcpus, Detach(u) PROVE ShortestInv'
    <2>1. UNCHANGED <<policy, conf, period_cntdn, budget_cntdn, missed>> /\ Entries' \subseteq Entries
        BY <1>2, DetachLeaves DEF Detach
    <2> QED
        BY <2>1 DEF ShortestInv, Shortest, Budget, Period
<1>3. CASE UNCHANGED vars
    BY <1>3 DEF vars, ShortestInv, Shortest, Budget, Period, Entries
<1> QED
    BY <1>1, <1>2, <1>3, ShortestTick DEF Next

\* Under rate monotonic the vCPU with the shortest period gets its budget in
\* every period in which it is attached, whatever the others are, and whenever
\* they are attached and detached, even if one of them has the largest word for
\* its period, which the search never finds (core/sched/rt-rm.c, do_schedule).
THEOREM ShortestNeverMisses ==
    Spec => [](policy = "rm" => \A v \in missed : ~ Shortest(v))
<1>1. Init => ShortestInv
    <2> SUFFICES ASSUME Init PROVE ShortestInv
        OBVIOUS
    <2>1. TypeOK /\ Entries = {}
        <3>1. Len(runqueue) = 0
            BY DEF Init
        <3> QED
            BY <3>1, InitOK DEF Entries
    <2>2. \A u \in Vcpus : Budget(u) \in 0 .. MaxWord
        BY <2>1, LeftType
    <2> QED
        BY <2>1, <2>2 DEF Init, ShortestInv
<1>2. TypeOK /\ ShortestInv => (policy = "rm" => \A v \in missed : ~ Shortest(v))
    BY DEF ShortestInv, TypeOK
<1> QED
    BY <1>1, <1>2, ShortestStep, TypeCorrect, PTL DEF Spec

----------------------------------------------------------------------------
(* Both policies: what a call of do_schedule does to a vCPU with a budget. *)

\* Division by a period.
LEMMA Division ==
    ASSUME NEW m \in Nat, NEW p \in Nat \ {0}
    PROVE  /\ m \div p \in Nat /\ p * (m \div p) <= m
           /\ (m + p) \div p = (m \div p) + 1
           /\ m < p => m \div p = 0
           /\ \A n \in Nat : m <= n => m \div p <= n \div p
    OBVIOUS

\* Products.
LEMMA Products ==
    ASSUME NEW a \in Nat, NEW b \in Nat, NEW c \in Nat
    PROVE  /\ a * c \in Nat /\ (a + b) * c = a * c + b * c
           /\ a <= b => a * c <= b * c
    OBVIOUS

\* The budgets of u that n ticks of its period release.
Jobs(n, u) == (n \div Period(u)) * Budget(u)

\* One more with every whole period.
LEMMA JobsFacts ==
    ASSUME TypeOK, Configured, NEW u \in Demanding, NEW m \in Nat
    PROVE  /\ Jobs(m, u) \in Nat
           /\ Jobs(m + Period(u), u) = Jobs(m, u) + Budget(u)
           /\ m < Period(u) => Jobs(m, u) = 0
           /\ \A n \in Nat : m <= n => Jobs(m, u) <= Jobs(n, u)
<1> DEFINE p == Period(u)
           b == Budget(u)
<1>1. p \in Nat \ {0} /\ b \in Nat
    BY LeftType, RtAssumption DEF Configured, Demanding
<1>2. \A n \in Nat : Jobs(n, u) = (n \div p) * b
    BY DEF Jobs
<1> HIDE DEF p, b
<1>3. m \div p \in Nat /\ (m < p => m \div p = 0)
    BY <1>1, Division
<1>4. Jobs(m, u) \in Nat
    <2>1. (m \div p) * b \in Nat
        BY <1>1, <1>3, Products
    <2> QED
        BY <1>2, <2>1
<1>5. Jobs(m + p, u) = Jobs(m, u) + b
    <2>1. (m + p) \div p = (m \div p) + 1
        BY <1>1
    <2>3. m + p \in Nat
        BY <1>1
    <2>2. ((m \div p) + 1) * b = (m \div p) * b + b
        BY <1>1, <1>3
    <2> QED
        BY <1>2, <2>1, <2>2, <2>3
<1>6. m < p => Jobs(m, u) = 0
    <2>1. 0 * b = 0
        BY <1>1
    <2> QED
        BY <1>2, <1>3, <2>1
<1>7. ASSUME NEW n \in Nat, m <= n PROVE Jobs(m, u) <= Jobs(n, u)
    <2>1. n \div p \in Nat /\ m \div p <= n \div p
        BY <1>1, <1>7, Division
    <2>2. (m \div p) * b <= (n \div p) * b
        BY <1>1, <1>3, <2>1, Products
    <2> QED
        BY <1>2, <2>2
<1> QED
    BY <1>4, <1>5, <1>6, <1>7 DEF p, b

\* Nobody has more than a whole budget or a whole period left, who was never
\* attached is neither on the list nor current, and only who asks for the
\* processor can miss a deadline.
Bounded ==
    /\ \A u \in Vcpus : budget_cntdn[u] <= Budget(u)
    /\ Configured => \A u \in Entries \cap Demanding : period_cntdn[u] <= Period(u)
    /\ \A u \in Vcpus : state[u] = "detached" => u \notin Entries /\ u # current
    /\ missed \subseteq Demanding

\* The countdowns of a vCPU that asks for the processor, in the loop.
LEMMA LeftOf ==
    ASSUME TypeOK, Bounded, Configured, NEW u \in Demanding
    PROVE  /\ u \in Vcpus /\ Budget(u) \in 1 .. MaxWord /\ Period(u) \in 1 .. MaxWord - 1
           /\ BudgetLeft[u] \in 0 .. Budget(u)
           /\ u \in Entries => PeriodLeft[u] \in 1 .. Period(u) /\ Counted[u] = PeriodLeft[u] - 1
           /\ u \notin Entries => /\ BudgetLeft[u] = budget_cntdn[u]
                                  /\ PeriodLeft[u] = period_cntdn[u]
                                  /\ Counted[u] = period_cntdn[u]
<1>1. u \in Vcpus /\ Budget(u) \in 1 .. MaxWord /\ Period(u) \in 1 .. MaxWord - 1
    BY LeftType, RtAssumption DEF Demanding, Configured
<1>2. BudgetLeft[u] \in 0 .. Budget(u)
    BY <1>1, LeftType DEF Bounded, BudgetLeft, Renewed
<1>3. ASSUME u \in Entries
      PROVE  PeriodLeft[u] \in 1 .. Period(u) /\ Counted[u] = PeriodLeft[u] - 1
    <2>1. period_cntdn[u] \in 0 .. Period(u)
        BY <1>1, <1>3 DEF Bounded, TypeOK
    <2>2. PeriodLeft[u] \in 1 .. Period(u)
        BY <1>1, <1>3, <2>1 DEF PeriodLeft, Renewed, Expired
    <2>3. Counted[u] = PeriodLeft[u] - 1
        BY <1>1, <1>3, <2>2 DEF Counted, Less
    <2> QED
        BY <2>2, <2>3
<1>4. ASSUME u \notin Entries
      PROVE  BudgetLeft[u] = budget_cntdn[u] /\ PeriodLeft[u] = period_cntdn[u] /\ Counted[u] = period_cntdn[u]
    BY <1>1, <1>4 DEF BudgetLeft, PeriodLeft, Counted, Renewed, Expired
<1> QED
    BY <1>1, <1>2, <1>3, <1>4

\* The slice and the two stored countdowns of a vCPU that asks for the
\* processor are naturals, and its slice is not empty.
LEMMA StoredOf ==
    ASSUME TypeOK, Bounded, Configured, NEW u \in Demanding
    PROVE  /\ u \in Vcpus /\ Period(u) \in Nat \ {0} /\ Budget(u) \in Nat \ {0}
           /\ budget_cntdn[u] \in Nat /\ period_cntdn[u] \in Nat
<1>1. u \in Vcpus /\ Budget(u) \in 1 .. MaxWord /\ Period(u) \in 1 .. MaxWord - 1
    BY LeftOf
<1>2. budget_cntdn[u] \in 0 .. MaxWord /\ period_cntdn[u] \in 0 .. MaxWord
    BY <1>1 DEF TypeOK
<1>3. MaxWord \in Nat
    BY RtAssumption
<1>4. Period(u) \in Nat \ {0} /\ Budget(u) \in Nat \ {0}
    BY <1>1, <1>3
<1>5. budget_cntdn[u] \in Nat /\ period_cntdn[u] \in Nat
    BY <1>2, <1>3
<1> QED
    BY <1>1, <1>4, <1>5

\* What runs has budget left, and loses a tick of it.
LEMMA ChosenRuns ==
    ASSUME TypeOK, Bounded, Tick
    PROVE  /\ Chosen \in Demanding /\ BudgetLeft[Chosen] > 0
           /\ Chosen \in Entries \/ Chosen = current
           /\ Chosen = Best \/ (CurrentHasBudget /\ ~Preempts(Best) /\ Chosen = current)
           /\ Best \in Eligible
           /\ \A u \in Vcpus : budget_cntdn'[u] = IF u = Chosen THEN BudgetLeft[u] - 1
                                                               ELSE BudgetLeft[u]
<1>1. Best \in Eligible /\ Best \in Entries /\ Best \in Vcpus /\ BudgetLeft[Best] > 0
    BY BestIsFound, LeftType DEF Tick, Hangs, Eligible
<1>2. CurrentHasBudget => current \in Vcpus /\ BudgetLeft[current] > 0
    BY DEF CurrentHasBudget, TypeOK
<1>3. Chosen \in Vcpus /\ BudgetLeft[Chosen] > 0 /\ (Chosen \in Entries \/ Chosen = current)
    BY <1>1, <1>2 DEF Chosen
<1>4. \A u \in Vcpus : BudgetLeft[u] \in 0 .. MaxWord /\ BudgetLeft[u] <= Budget(u) /\ Budget(u) \in 0 .. MaxWord
    BY LeftType DEF Bounded, BudgetLeft, Renewed
<1>5. Chosen \in Demanding
    BY <1>3, <1>4, RtAssumption DEF Demanding
<1>6. Less(BudgetLeft[Chosen]) = BudgetLeft[Chosen] - 1
    BY <1>3, <1>4 DEF Less
<1>7. budget_cntdn' = [BudgetLeft EXCEPT ![Chosen] = BudgetLeft[Chosen] - 1]
    BY <1>6 DEF Tick
<1>8. BudgetLeft \in [Vcpus -> 0 .. MaxWord]
    BY LeftType
<1>9. \A u \in Vcpus : budget_cntdn'[u] = IF u = Chosen THEN BudgetLeft[u] - 1 ELSE BudgetLeft[u]
    BY <1>7, <1>8
<1> QED
    BY <1>1, <1>3, <1>5, <1>9 DEF Chosen

\* Under rate monotonic it has the shortest period of all that have budget
\* left, the current one included.
LEMMA ShortestPeriodRuns ==
    ASSUME TypeOK, Bounded, Configured, Tick, policy = "rm",
           NEW u \in Demanding, u \in Entries \/ u = current, BudgetLeft[u] > 0
    PROVE  Period(Chosen) <= Period(u)
<1>1. \A w, left : Key(w, left) = Period(w)
    BY DEF Key, KeyRm
<1>2. Chosen \in Demanding /\ u \in Vcpus /\ Best \in Vcpus /\ Best \in Eligible
    BY ChosenRuns, LeftType DEF Demanding, Eligible
<1>3. Period(Chosen) \in Nat /\ Period(u) \in Nat /\ Period(Best) \in Nat
    BY <1>2, LeftType, RtAssumption DEF Demanding
<1>4. u \in Entries => Period(Best) <= Period(u)
    <2>1. u \in Entries => u \in Eligible
        BY <1>1, LeftOf, RtAssumption DEF Eligible
    <2> QED
        BY <2>1, BestIsFound
<1>5. CurrentHasBudget /\ u = current /\ Chosen = Best => Best = u \/ Period(u) > Period(Best)
    BY <1>1 DEF Chosen, Preempts
<1>6. u \notin Entries => u = current /\ CurrentHasBudget
    BY RtAssumption DEF CurrentHasBudget, Demanding
<1>7. CASE Chosen = Best
    BY <1>3, <1>4, <1>5, <1>6, <1>7
<1>8. CASE CurrentHasBudget /\ ~Preempts(Best) /\ Chosen = current
    <2>1. ~(Period(Chosen) > Period(Best))
        BY <1>1, <1>8 DEF Preempts
    <2> QED
        BY <1>3, <1>4, <1>6, <1>8, <2>1
<1> QED
    BY <1>7, <1>8, ChosenRuns

\* Bounded holds initially, and every step keeps it.
LEMMA BoundedInit == Init => Bounded
<1> SUFFICES ASSUME Init PROVE Bounded
    OBVIOUS
<1>1. TypeOK /\ Entries = {}
    <2>1. Len(runqueue) = 0
        BY DEF Init
    <2> QED
        BY <2>1, InitOK DEF Entries
<1>2. \A u \in Vcpus : Budget(u) \in 0 .. MaxWord
    BY <1>1, LeftType
<1> QED
    BY <1>1, <1>2, RtAssumption DEF Init, Bounded

\* Attaching u adds it to the list with a whole period and a whole budget.
LEMMA AttachAdds ==
    ASSUME TypeOK, NEW u \in Vcpus, Attach(u)
    PROVE  /\ Entries' = Entries \cup {u} /\ UNCHANGED <<policy, conf, current, missed, stuck>>
           /\ state[u] = "detached" /\ state'[u] # "detached"
           /\ period_cntdn'[u] = Period(u) /\ budget_cntdn'[u] = Budget(u)
           /\ \A w \in Vcpus \ {u} : /\ state'[w] = state[w]
                                     /\ period_cntdn'[w] = period_cntdn[w]
                                     /\ budget_cntdn'[w] = budget_cntdn[w]
<1>1. runqueue \in Seq(Vcpus) /\ runqueue' = Append(runqueue, u)
    BY DEF Attach, TypeOK
<1>2. /\ Len(runqueue) \in Nat /\ Len(runqueue') = Len(runqueue) + 1
      /\ runqueue'[Len(runqueue) + 1] = u
      /\ \A i \in 1 .. Len(runqueue) : runqueue'[i] = runqueue[i]
    BY <1>1
<1>3. Entries' = Entries \cup {u}
    <2>1. \A i \in 1 .. Len(runqueue') : i \in 1 .. Len(runqueue) \/ i = Len(runqueue) + 1
        BY <1>2
    <2>2. Entries' \subseteq Entries \cup {u}
        BY <1>2, <2>1 DEF Entries
    <2>3. \A i \in 1 .. Len(runqueue) : i \in 1 .. Len(runqueue')
        BY <1>2
    <2>4. Entries \subseteq Entries'
        BY <1>2, <2>3 DEF Entries
    <2>5. Len(runqueue) + 1 \in 1 .. Len(runqueue')
        BY <1>2
    <2>6. u \in Entries'
        BY <1>2, <2>5 DEF Entries
    <2> QED
        BY <2>2, <2>4, <2>6
<1> QED
    BY <1>3 DEF Attach, TypeOK

\* A call of do_schedule moves nobody on or off the list, marks nobody as
\* never attached, and renames nothing.
LEMMA TickKeeps ==
    ASSUME TypeOK, Bounded, Tick \/ Hang
    PROVE  /\ Entries' = Entries /\ UNCHANGED <<policy, conf>> /\ ~stuck
           /\ period_cntdn' = Counted
           /\ missed' = missed \cup {v \in Expired : budget_cntdn[v] # 0}
           /\ \A u \in Vcpus : state'[u] = "detached" <=> state[u] = "detached"
<1>1. ASSUME Tick
      PROVE  \A u \in Vcpus : state'[u] = "detached" <=> state[u] = "detached"
    <2>1. Chosen \in Vcpus /\ (Chosen \in Entries \/ Chosen = current)
        BY <1>1, ChosenRuns DEF Demanding
    <2>2. state[Chosen] # "detached"
        BY <2>1 DEF Bounded
    <2>3. current # None => current \in Vcpus /\ state[current] # "detached"
        BY DEF Bounded, TypeOK
    <2>4. \A u \in Vcpus : Stopped[u] = "detached" <=> state[u] = "detached"
        BY <2>3 DEF Stopped, TypeOK
    <2>5. Stopped \in [Vcpus -> {"detached", "waiting", "running"}]
        BY DEF Stopped, TypeOK
    <2>6. state' = [Stopped EXCEPT ![Chosen] = "running"]
        BY <1>1 DEF Tick
    <2> QED
        BY <2>1, <2>2, <2>4, <2>5, <2>6
<1>2. ASSUME Hang
      PROVE  \A u \in Vcpus : state'[u] = "detached" <=> state[u] = "detached"
    <2>1. current # None => current \in Vcpus /\ state[current] # "detached"
        BY DEF Bounded, TypeOK
    <2>2. \A u \in Vcpus : Stopped[u] = "detached" <=> state[u] = "detached"
        BY <2>1 DEF Stopped, TypeOK
    <2> QED
        BY <1>2, <2>2 DEF Hang
<1> QED
    BY <1>1, <1>2 DEF Tick, Hang, CountDown, Entries

\* Bounded is inductive, given the types.
LEMMA BoundedStep == TypeOK /\ Bounded /\ [Next]_vars => Bounded'
<1> SUFFICES ASSUME TypeOK, Bounded, [Next]_vars PROVE Bounded'
    OBVIOUS
<1>0. /\ conf' = conf /\ Demanding' = Demanding /\ Configured' = Configured
      /\ \A u : Budget(u)' = Budget(u) /\ Period(u)' = Period(u)
    BY DEF Next, Tick, Hang, Attach, Detach, vars, Period, Budget, Demanding, Configured
<1>1. ASSUME Tick \/ Hang PROVE Bounded'
    <2>1. /\ Entries' = Entries /\ period_cntdn' = Counted
          /\ \A u \in Vcpus : state'[u] = "detached" <=> state[u] = "detached"
        BY <1>1, TickKeeps
    <2>2. ASSUME NEW u \in Vcpus PROVE budget_cntdn'[u] <= Budget(u)
        <3>1. BudgetLeft[u] \in 0 .. MaxWord /\ BudgetLeft[u] <= Budget(u) /\ Budget(u) \in 0 .. MaxWord
            BY LeftType DEF Bounded, BudgetLeft, Renewed
        <3>2. CASE Tick
            BY <3>1, <3>2, ChosenRuns, RtAssumption
        <3>3. CASE Hang
            BY <3>1, <3>3 DEF Hang
        <3> QED
            BY <1>1, <3>2, <3>3
    <2>3. ASSUME Configured, NEW u \in Entries \cap Demanding PROVE period_cntdn'[u] <= Period(u)
        <3>1. PeriodLeft[u] \in 1 .. Period(u) /\ Counted[u] = PeriodLeft[u] - 1 /\ Period(u) \in 1 .. MaxWord - 1
            BY <2>3, LeftOf
        <3> QED
            BY <2>1, <3>1, RtAssumption
    <2>4. ASSUME NEW u \in Vcpus, state'[u] = "detached" PROVE u \notin Entries' /\ u # current'
        <3>1. state[u] = "detached" /\ u \notin Entries /\ u # current
            BY <2>1, <2>4 DEF Bounded
        <3>2. CASE Tick
            <4>1. current' = Chosen /\ (Chosen \in Entries \/ Chosen = current)
                BY <3>2, ChosenRuns DEF Tick
            <4> QED
                BY <2>1, <3>1, <4>1
        <3>3. CASE Hang
            BY <2>1, <3>1, <3>3 DEF Hang
        <3> QED
            BY <1>1, <3>2, <3>3
    <2>5. missed' \subseteq Demanding
        <3>1. ASSUME NEW u \in Expired, budget_cntdn[u] # 0 PROVE u \in Demanding
            <4>1. u \in Vcpus /\ budget_cntdn[u] \in 0 .. MaxWord /\ Budget(u) \in 0 .. MaxWord
                BY LeftType DEF Expired, TypeOK
            <4>2. budget_cntdn[u] <= Budget(u)
                BY <4>1 DEF Bounded
            <4> QED
                BY <3>1, <4>1, <4>2, RtAssumption DEF Demanding
        <3>2. missed' = missed \cup {v \in Expired : budget_cntdn[v] # 0}
            BY <1>1, TickKeeps
        <3> QED
            BY <3>1, <3>2 DEF Bounded
    <2> QED
        BY <1>0, <2>1, <2>2, <2>3, <2>4, <2>5 DEF Bounded
<1>2. ASSUME NEW u \in Vcpus, Attach(u) PROVE Bounded'
    <2>1. \A w \in Vcpus : Budget(w) \in 0 .. MaxWord /\ Period(w) \in 0 .. MaxWord
        BY LeftType
    <2>2. \A w \in Vcpus : budget_cntdn'[w] <= Budget(w)
        BY <1>2, <2>1, AttachAdds, RtAssumption DEF Bounded
    <2>3. Configured => \A w \in Entries' \cap Demanding : period_cntdn'[w] <= Period(w)
        <3>1. ASSUME Configured, NEW w \in Entries' \cap Demanding PROVE period_cntdn'[w] <= Period(w)
            <4>1. w \in Vcpus /\ Period(w) \in 0 .. MaxWord
                BY <2>1 DEF Demanding
            <4>2. CASE w = u
                BY <1>2, <4>1, <4>2, AttachAdds, RtAssumption
            <4>3. CASE w # u
                BY <1>2, <3>1, <4>1, <4>3, AttachAdds DEF Bounded
            <4> QED
                BY <4>2, <4>3
        <3> QED
            BY <3>1
    <2>4. \A w \in Vcpus : state'[w] = "detached" => w \notin Entries' /\ w # current'
        BY <1>2, AttachAdds DEF Bounded
    <2>5. missed' \subseteq Demanding
        BY <1>2, AttachAdds DEF Bounded
    <2> QED
        BY <1>0, <2>2, <2>3, <2>4, <2>5 DEF Bounded
<1>3. ASSUME NEW u \in Vcpus, Detach(u) PROVE Bounded'
    <2>1. /\ UNCHANGED <<policy, conf, current, state, period_cntdn, budget_cntdn, missed>>
          /\ Entries' \subseteq Entries
        BY <1>3, DetachLeaves DEF Detach
    <2> QED
        BY <1>0, <2>1 DEF Bounded
<1>4. CASE UNCHANGED vars
    BY <1>0, <1>4 DEF vars, Bounded, Entries
<1> QED
    BY <1>1, <1>2, <1>3, <1>4 DEF Next

----------------------------------------------------------------------------
(* Both policies: response times.                                          *)

\* How long u may keep the processor from v until the end of a window of r
\* ticks of which s are left: what is left of its budget, and a budget for
\* every release to come; all of them if it has not been attached yet, and
\* none if it is off the list and not current either.
Work(u, s, r) ==
    IF u \in Entries
      THEN budget_cntdn[u] + Jobs(s + Period(u) - 1 - period_cntdn[u], u)
    ELSE IF state[u] = "detached" THEN Jobs(r + Period(u) - 1, u)
    ELSE IF u = current THEN budget_cntdn[u] ELSE 0

\* Response-time analysis finds that v ends within r ticks.
Fits(v, r) ==
    /\ Configured /\ v \in Demanding /\ r \in 1 .. Period(v)
    /\ Budget(v) + Interference(v, r) <= r

\* There is a window that v's next deadline does not cut short and that has
\* as many ticks left as v and its rivals can use.
Window(v, r) ==
    \E s \in 1 .. r :
        /\ Work(v, s, r) + SumFunction([u \in Rivals(v) |-> Work(u, s, r)]) <= s
        /\ v \in Entries /\ budget_cntdn[v] > 0 => s <= period_cntdn[v]

WindowInv ==
    \A v \in Demanding : \A r \in 1 .. Period(v) :
        Fits(v, r) => v \notin missed /\ (~stuck => Window(v, r))

\* Jobs, counted up to the end of a period.
LEMMA JobsRoundedUp ==
    ASSUME TypeOK, Configured, NEW u \in Demanding, NEW r \in Nat \ {0}
    PROVE  /\ r + Period(u) - 1 \in Nat /\ Jobs(r + Period(u) - 1, u) \in Nat
           /\ r <= Period(u) => Jobs(r + Period(u) - 1, u) = Budget(u)
           /\ Jobs(r + Period(u) - 1, u) = Jobs(r - 1, u) + Budget(u)
<1> DEFINE n == r - 1
<1>1. Period(u) \in Nat \ {0} /\ Budget(u) \in Nat /\ n \in Nat
    BY LeftType, RtAssumption DEF Configured, Demanding
<1>2. r + Period(u) - 1 = n + Period(u) /\ n + Period(u) \in Nat
    BY <1>1
<1>3. r <= Period(u) => n < Period(u)
    BY <1>1
<1> HIDE DEF n
<1>4. /\ Jobs(n + Period(u), u) = Jobs(n, u) + Budget(u) /\ Jobs(n, u) \in Nat
      /\ n < Period(u) => Jobs(n, u) = 0
    BY <1>1, JobsFacts
<1> QED
    BY <1>1, <1>2, <1>3, <1>4 DEF n

\* The two countdowns of an attached vCPU keep Work a natural.
LEMMA WorkNat ==
    ASSUME TypeOK, Bounded, Configured, NEW u \in Demanding,
           NEW r \in Nat \ {0}, NEW s \in 1 .. r
    PROVE  /\ Work(u, s, r) \in Nat
           /\ u \in Entries => s + Period(u) - 1 - period_cntdn[u] \in Nat
<1>1. u \in Vcpus /\ Period(u) \in Nat \ {0} /\ budget_cntdn[u] \in Nat /\ period_cntdn[u] \in Nat
    BY StoredOf
<1>2. u \in Entries => s + Period(u) - 1 - period_cntdn[u] \in Nat
    BY <1>1, RtAssumption DEF Bounded
<1>3. u \in Entries => Jobs(s + Period(u) - 1 - period_cntdn[u], u) \in Nat
    BY <1>2, JobsFacts
<1>4. Jobs(r + Period(u) - 1, u) \in Nat
    BY JobsRoundedUp
<1> QED
    BY <1>1, <1>2, <1>3, <1>4 DEF Work

\* A window in which nobody has more to do than response-time analysis
\* accounts for is long enough.
LEMMA WholeWindow ==
    ASSUME TypeOK, NEW v, NEW r, Fits(v, r),
           NEW n \in Nat, n <= Jobs(r + Period(v) - 1, v),
           NEW F \in [Rivals(v) -> Nat],
           \A u \in Rivals(v) : F[u] <= Jobs(r + Period(u) - 1, u)
    PROVE  n + SumFunction(F) <= r
<1> DEFINE G == [u \in Rivals(v) |-> ((r + Period(u) - 1) \div Period(u)) * Budget(u)]
<1>1. /\ Configured /\ v \in Demanding /\ r \in Nat \ {0} /\ r <= Period(v)
      /\ Budget(v) + Interference(v, r) <= r /\ Budget(v) \in Nat
    BY LeftType, RtAssumption DEF Fits, Configured, Demanding
<1>2. n <= Budget(v)
    BY <1>1, JobsRoundedUp
<1>3. IsFiniteSet(Rivals(v)) /\ Rivals(v) \subseteq Demanding
    <2>1. Rivals(v) \in SUBSET Vcpus
        BY DEF Rivals, Demanding
    <2> QED
        BY <2>1, FS_Subset, RtAssumption DEF Rivals
<1>4. \A u \in Rivals(v) : G[u] = Jobs(r + Period(u) - 1, u) /\ G[u] \in Nat
    <2>1. \A u \in Rivals(v) : G[u] = Jobs(r + Period(u) - 1, u)
        BY DEF Jobs
    <2>2. \A u \in Rivals(v) : Jobs(r + Period(u) - 1, u) \in Nat
        BY <1>1, <1>3, JobsRoundedUp
    <2> HIDE DEF G
    <2> QED
        BY <2>1, <2>2
<1>5. G \in [Rivals(v) -> Nat]
    BY <1>4
<1>6. Interference(v, r) = SumFunction(G)
    BY DEF Interference
<1> HIDE DEF G
<1>7. SumFunction(F) <= SumFunction(G)
    BY <1>3, <1>4, <1>5, SumMonotone
<1>8. SumFunction(F) \in Nat /\ SumFunction(G) \in Nat
    BY <1>3, <1>5, SumNat
<1> QED
    BY <1>1, <1>2, <1>6, <1>7, <1>8

\* One call of do_schedule: a tick of the window goes by, and a tick of the
\* work of what runs.  A release adds nothing that was not counted.
LEMMA WorkTick ==
    ASSUME TypeOK, Bounded, Configured, Tick, NEW u \in Demanding,
           NEW r \in Nat \ {0}, NEW s \in 1 .. r
    PROVE  /\ Work(u, s - 1, r)' \in Nat
           /\ Work(u, s - 1, r)' <= Work(u, s, r)
           /\ u = Chosen => Work(u, s - 1, r)' + 1 <= Work(u, s, r)
           /\ (u \in Entries \/ u = Chosen) => budget_cntdn'[u] <= Work(u, s - 1, r)'
<1> DEFINE P == Period(u)
           b == budget_cntdn[u]
           p == period_cntdn[u]
           lb == BudgetLeft[u]
           lp == PeriodLeft[u]
           nb == budget_cntdn'[u]
           n == s + P - 1 - lp
<1>1. /\ u \in Vcpus /\ Budget(u) \in Nat /\ P \in Nat \ {0} /\ lb \in Nat /\ b \in Nat
      /\ u \in Entries => lp \in 1 .. P /\ Counted[u] = lp - 1
      /\ u \notin Entries => lb = b
    <2>1. u \in Vcpus /\ Budget(u) \in Nat /\ P \in Nat \ {0} /\ b \in Nat
        BY StoredOf
    <2>2. /\ lb \in 0 .. Budget(u)
          /\ u \in Entries => lp \in 1 .. P /\ Counted[u] = lp - 1
          /\ u \notin Entries => lb = b
        BY LeftOf
    <2>3. lb \in Nat
        BY <2>1, <2>2
    <2> QED
        BY <2>1, <2>2, <2>3
<1>2. /\ Entries' = Entries /\ Period(u)' = P /\ Budget(u)' = Budget(u)
      /\ \A m : Jobs(m, u)' = Jobs(m, u)
      /\ period_cntdn' = Counted
      /\ state'[u] = "detached" <=> state[u] = "detached"
      /\ current' = Chosen
    BY <1>1, TickKeeps DEF Tick, Period, Budget, Jobs
<1>3. nb = (IF u = Chosen THEN lb - 1 ELSE lb) /\ (u = Chosen => lb > 0)
    BY <1>1, ChosenRuns
<1>4. nb \in Nat /\ (u = Chosen => nb + 1 = lb) /\ nb <= lb
    BY <1>1, <1>3
<1>5. CASE u \in Entries
    <2>1. s + P - 1 - p \in Nat /\ n \in Nat
        <3>1. s + P - 1 - p \in Nat
            BY <1>5, WorkNat
        <3>2. n \in Nat
            BY <1>1, <1>5
        <3> QED
            BY <3>1, <3>2
    <2>2. Work(u, s, r) = b + Jobs(s + P - 1 - p, u)
        BY <1>5 DEF Work
    <2>3. Work(u, s - 1, r)' = nb + Jobs((s - 1) + P - 1 - (lp - 1), u)
        BY <1>1, <1>2, <1>5 DEF Work
    <2>4. (s - 1) + P - 1 - (lp - 1) = n
        BY <1>1, <1>5
    <2>5. lb + Jobs(n, u) <= b + Jobs(s + P - 1 - p, u)
        <3>1. CASE u \in Expired
            <4>1. p = 0 /\ lb = Budget(u) /\ lp = P
                BY <1>1, <3>1 DEF Expired, BudgetLeft, PeriodLeft, Renewed
            <4>2. n = s - 1 /\ s + P - 1 - p = s + P - 1 /\ s \in Nat \ {0}
                BY <1>1, <4>1
            <4>3. Jobs(s + P - 1, u) = Jobs(s - 1, u) + Budget(u) /\ Jobs(s + P - 1, u) \in Nat
                BY <4>2, JobsRoundedUp
            <4>4. Jobs(n, u) \in Nat
                BY <2>1, JobsFacts
            <4> HIDE DEF n, lb, lp, b, p, P
            <4> QED
                BY <1>1, <4>1, <4>2, <4>3, <4>4
        <3>2. CASE u \notin Expired
            <4>1. lb = b /\ lp = p
                BY <1>1, <3>2 DEF BudgetLeft, PeriodLeft, Renewed
            <4>2. Jobs(n, u) \in Nat
                BY <2>1, JobsFacts
            <4> QED
                BY <1>1, <4>1, <4>2
        <3> QED
            BY <3>1, <3>2
    <2>6. Jobs(n, u) \in Nat /\ Jobs(s + P - 1 - p, u) \in Nat
        BY <2>1, JobsFacts
    <2>7. Work(u, s - 1, r)' = nb + Jobs(n, u)
        BY <2>3, <2>4
    <2> HIDE DEF n, lb, nb, b, p, P, lp
    <2>8. /\ Work(u, s - 1, r)' \in Nat /\ nb <= Work(u, s - 1, r)'
          /\ Work(u, s - 1, r)' <= Work(u, s, r)
          /\ u = Chosen => Work(u, s - 1, r)' + 1 <= Work(u, s, r)
        BY <1>1, <1>4, <2>2, <2>5, <2>6, <2>7
    <2> QED
        BY <2>8 DEF nb
<1>6. CASE u \notin Entries /\ state[u] = "detached"
    <2>1. Work(u, s, r) = Jobs(r + P - 1, u) /\ Work(u, s - 1, r)' = Jobs(r + P - 1, u)
        BY <1>2, <1>6 DEF Work
    <2>2. Jobs(r + P - 1, u) \in Nat
        BY JobsRoundedUp
    <2>3. u # Chosen
        BY <1>1, <1>6, ChosenRuns DEF Bounded
    <2> QED
        BY <1>6, <2>1, <2>2, <2>3
<1>7. CASE u \notin Entries /\ state[u] # "detached"
    <2>1. Work(u, s, r) = IF u = current THEN b ELSE 0
        BY <1>7 DEF Work
    <2>2. Work(u, s - 1, r)' = IF u = Chosen THEN nb ELSE 0
        BY <1>2, <1>7 DEF Work
    <2>3. u = Chosen => u = current
        BY <1>7, ChosenRuns
    <2> HIDE DEF lb, nb, b
    <2>4. /\ Work(u, s - 1, r)' \in Nat
          /\ Work(u, s - 1, r)' <= Work(u, s, r)
          /\ u = Chosen => Work(u, s - 1, r)' + 1 <= Work(u, s, r) /\ nb <= Work(u, s - 1, r)'
        BY <1>1, <1>4, <1>7, <2>1, <2>2, <2>3
    <2> QED
        BY <1>7, <2>4 DEF nb
<1> QED
    BY <1>5, <1>6, <1>7

\* Once it has nothing left of its budget, no more is to come in the next r
\* ticks than response-time analysis accounts for.
LEMMA WorkReset ==
    ASSUME TypeOK, Bounded, Configured, Tick, NEW u \in Demanding,
           NEW r \in Nat \ {0}, u \in Entries \/ u = Chosen => budget_cntdn'[u] = 0
    PROVE  /\ Work(u, r, r)' \in Nat
           /\ Work(u, r, r)' <= Jobs(r + Period(u) - 1, u)
<1> DEFINE P == Period(u)
           n == r + P - 1 - Counted[u]
<1>1. /\ u \in Vcpus /\ P \in Nat \ {0}
      /\ u \in Entries => Counted[u] \in 0 .. P - 1
    BY LeftOf, RtAssumption
<1>2. /\ Entries' = Entries /\ Period(u)' = P
      /\ \A m : Jobs(m, u)' = Jobs(m, u)
      /\ period_cntdn' = Counted
      /\ state'[u] = "detached" <=> state[u] = "detached"
      /\ current' = Chosen
    BY <1>1, TickKeeps DEF Tick, Period, Budget, Jobs
<1>3. r + P - 1 \in Nat /\ Jobs(r + P - 1, u) \in Nat
    BY JobsRoundedUp
<1>4. CASE u \in Entries
    <2>1. Work(u, r, r)' = 0 + Jobs(n, u)
        BY <1>2, <1>4 DEF Work
    <2>2. n \in Nat /\ n <= r + P - 1
        BY <1>1, <1>4
    <2>3. Jobs(n, u) \in Nat /\ Jobs(n, u) <= Jobs(r + P - 1, u)
        BY <1>3, <2>2, JobsFacts
    <2> QED
        BY <2>1, <2>3
<1>5. CASE u \notin Entries /\ state[u] = "detached"
    <2>1. Work(u, r, r)' = Jobs(r + P - 1, u)
        BY <1>2, <1>5 DEF Work
    <2> QED
        BY <1>3, <2>1
<1>6. CASE u \notin Entries /\ state[u] # "detached"
    <2>1. Work(u, r, r)' = 0
        BY <1>2, <1>6 DEF Work
    <2> QED
        BY <1>3, <2>1
<1> QED
    BY <1>4, <1>5, <1>6

\* While v or one of its rivals has budget left, one of them runs.
LEMMA RivalRuns ==
    ASSUME TypeOK, Bounded, Configured, Tick, NEW v \in Demanding,
           NEW u \in Rivals(v) \cup {v}, u \in Entries \/ u = Chosen,
           budget_cntdn'[u] # 0
    PROVE  Chosen \in Rivals(v) \cup {v}
<1>1. u \in Demanding /\ u \in Vcpus /\ Chosen \in Demanding
    BY ChosenRuns DEF Rivals, Demanding
<1>2. CASE u = Chosen
    BY <1>2
<1>3. CASE u # Chosen
    <2>1. BudgetLeft[u] > 0
        BY <1>1, <1>3, ChosenRuns, LeftOf
    <2>2. ASSUME policy = "rm" PROVE Period(Chosen) <= Period(v)
        <3>1. Period(Chosen) <= Period(u)
            BY <1>1, <1>3, <2>1, <2>2, ShortestPeriodRuns
        <3>2. Period(Chosen) \in Nat /\ Period(u) \in Nat /\ Period(v) \in Nat
            BY <1>1, LeftType, RtAssumption DEF Demanding
        <3>3. Period(u) <= Period(v)
            BY <2>2, <3>2 DEF Rivals
        <3> QED
            BY <3>1, <3>2, <3>3
    <2> QED
        BY <1>1, <2>2 DEF Rivals
<1> QED
    BY <1>2, <1>3

\* When none of them has, a new window begins.
LEMMA WindowOpens ==
    ASSUME TypeOK, Bounded, Tick, NEW v, NEW r, Fits(v, r),
           \A u \in Rivals(v) \cup {v} :
               u \in Entries \/ u = Chosen => budget_cntdn'[u] = 0
    PROVE  Window(v, r)'
<1>1. Configured /\ v \in Demanding /\ v \in Vcpus /\ r \in Nat \ {0} /\ Rivals(v) \subseteq Demanding
    BY LeftType, RtAssumption DEF Fits, Demanding, Rivals
<1> DEFINE F == [u \in Rivals(v) |-> Work(u, r, r)']
<1>2. \A u \in Rivals(v) \cup {v} :
         Work(u, r, r)' \in Nat /\ Work(u, r, r)' <= Jobs(r + Period(u) - 1, u)
    BY <1>1, WorkReset
<1>3. F \in [Rivals(v) -> Nat] /\ \A u \in Rivals(v) : F[u] <= Jobs(r + Period(u) - 1, u)
    BY <1>2
<1> HIDE DEF F
<1>4. Work(v, r, r)' + SumFunction(F) <= r
    BY <1>2, <1>3, WholeWindow
<1>5. Rivals(v)' = Rivals(v) /\ Entries' = Entries
    BY TickKeeps DEF Rivals, Demanding, Period, Budget
<1>6. F = [u \in Rivals(v) |-> Work(u, r, r)]'
    BY <1>5 DEF F
<1>7. v \in Entries => budget_cntdn'[v] = 0
    OBVIOUS
<1>8. r \in 1 .. r
    BY <1>1
<1> QED
    BY <1>4, <1>5, <1>6, <1>7, <1>8 DEF Window

\* Otherwise one of them runs, and the window goes on or, when that was its
\* last tick, another one begins.
LEMMA WindowTick ==
    ASSUME TypeOK, Bounded, Tick, NEW v, NEW r, Fits(v, r),
           Window(v, r)
    PROVE  Window(v, r)'
<1>1. /\ Configured /\ v \in Demanding /\ v \in Vcpus /\ r \in Nat \ {0} /\ r <= Period(v)
      /\ Rivals(v) \subseteq Demanding /\ v \notin Rivals(v) /\ IsFiniteSet(Rivals(v))
    <2>1. Rivals(v) \in SUBSET Vcpus
        BY DEF Rivals, Demanding
    <2>2. IsFiniteSet(Rivals(v))
        BY <2>1, FS_Subset, RtAssumption
    <2> QED
        BY <2>2, LeftType, RtAssumption DEF Fits, Demanding, Rivals
<1>2. CASE \A u \in Rivals(v) \cup {v} :
              u \in Entries \/ u = Chosen => budget_cntdn'[u] = 0
    BY <1>2, WindowOpens
<1>3. ASSUME NEW w \in Rivals(v) \cup {v}, w \in Entries \/ w = Chosen, budget_cntdn'[w] # 0
      PROVE  Window(v, r)'
    <2>1. PICK s \in 1 .. r :
             /\ Work(v, s, r) + SumFunction([u \in Rivals(v) |-> Work(u, s, r)]) <= s
             /\ v \in Entries /\ budget_cntdn[v] > 0 => s <= period_cntdn[v]
        BY DEF Window
    <2> DEFINE F == [u \in Rivals(v) |-> Work(u, s, r)]
               G == [u \in Rivals(v) |-> Work(u, s - 1, r)']
    <2>2. Chosen \in Rivals(v) \cup {v}
        BY <1>1, <1>3, RivalRuns
    <2>3. \A u \in Rivals(v) \cup {v} :
             /\ Work(u, s, r) \in Nat /\ Work(u, s - 1, r)' \in Nat
             /\ Work(u, s - 1, r)' <= Work(u, s, r)
             /\ u = Chosen => Work(u, s - 1, r)' + 1 <= Work(u, s, r)
             /\ (u \in Entries \/ u = Chosen) => budget_cntdn'[u] <= Work(u, s - 1, r)'
        BY <1>1, WorkNat, WorkTick
    <2>4. F \in [Rivals(v) -> Nat] /\ G \in [Rivals(v) -> Nat]
        BY <2>3
    <2>5. \A u \in Rivals(v) : G[u] <= F[u] /\ (u = Chosen => G[u] + 1 <= F[u])
        BY <2>3
    <2>6. Work(v, s, r) + SumFunction(F) <= s
        BY <2>1
    <2>7. \A u \in Rivals(v) : G[u] = Work(u, s - 1, r)'
        OBVIOUS
    <2> HIDE DEF F, G
    <2>8. SumFunction(F) \in Nat /\ SumFunction(G) \in Nat
        BY <1>1, <2>4, SumNat
    <2>9. Work(v, s - 1, r)' + SumFunction(G) + 1 <= s
        <3>1. CASE Chosen = v
            <4>1. SumFunction(G) <= SumFunction(F)
                BY <1>1, <2>4, <2>5, SumMonotone
            <4>2. /\ Work(v, s, r) \in Nat /\ Work(v, s - 1, r)' \in Nat
                  /\ Work(v, s - 1, r)' + 1 <= Work(v, s, r)
                BY <2>3, <3>1
            <4> QED
                BY <2>6, <2>8, <4>1, <4>2
        <3>2. CASE Chosen \in Rivals(v)
            <4>1. SumFunction(G) + 1 <= SumFunction(F)
                BY <1>1, <2>4, <2>5, <3>2, SumGrows
            <4>2. /\ Work(v, s, r) \in Nat /\ Work(v, s - 1, r)' \in Nat
                  /\ Work(v, s - 1, r)' <= Work(v, s, r)
                BY <2>3
            <4> QED
                BY <2>6, <2>8, <4>1, <4>2
        <3> QED
            BY <2>2, <3>1, <3>2
    <2>10. s # 1
        <3> SUFFICES ASSUME s = 1 PROVE FALSE
            OBVIOUS
        <3>1. Work(v, s - 1, r)' = 0 /\ SumFunction(G) = 0
            BY <2>3, <2>8, <2>9
        <3>2. \A u \in Rivals(v) : G[u] <= 0 /\ G[u] \in Nat
            <4>1. \A u \in Rivals(v) : G[u] <= SumFunction(G)
                BY <1>1, <2>4, SumCovers
            <4> QED
                BY <2>4, <3>1, <4>1
        <3>3. Work(w, s - 1, r)' = 0
            BY <2>7, <3>1, <3>2
        <3>4. budget_cntdn'[w] <= 0
            BY <1>3, <2>3, <3>3
        <3>5. budget_cntdn'[w] \in Nat
            <4>1. w \in Vcpus
                BY <1>1 DEF Demanding
            <4>2. BudgetLeft[w] \in Nat /\ (w = Chosen => BudgetLeft[w] > 0)
                BY <4>1, ChosenRuns, LeftType, RtAssumption
            <4> QED
                BY <4>1, <4>2, ChosenRuns
        <3> QED
            BY <1>3, <3>4, <3>5
    <2>11. s - 1 \in 1 .. r
        BY <1>1, <2>10
    <2>12. ASSUME v \in Entries, budget_cntdn'[v] > 0 PROVE s - 1 <= period_cntdn'[v]
        <3>1. /\ PeriodLeft[v] \in 1 .. Period(v) /\ period_cntdn'[v] = PeriodLeft[v] - 1
              /\ BudgetLeft[v] \in Nat
            BY <1>1, <2>12, LeftOf, TickKeeps
        <3>2. BudgetLeft[v] > 0
            BY <1>1, <2>12, <3>1, ChosenRuns
        <3>3. s <= PeriodLeft[v]
            <4>1. CASE v \in Expired
                <5>1. PeriodLeft[v] = Period(v) /\ Period(v) \in Nat
                    BY <1>1, <4>1, LeftType, RtAssumption DEF PeriodLeft, Renewed
                <5> QED
                    BY <1>1, <5>1
            <4>2. CASE v \notin Expired
                BY <1>1, <2>1, <2>12, <3>2, <4>2 DEF PeriodLeft, BudgetLeft, Renewed
            <4> QED
                BY <4>1, <4>2
        <3> QED
            BY <1>1, <3>1, <3>3
    <2>13. Rivals(v)' = Rivals(v) /\ Entries' = Entries
        BY TickKeeps DEF Rivals, Demanding, Period, Budget
    <2>14. G = [u \in Rivals(v) |-> Work(u, s - 1, r)]'
        BY <2>13 DEF G
    <2>15. Work(v, s - 1, r)' + SumFunction(G) <= s - 1
        BY <2>3, <2>8, <2>9
    <2> QED
        BY <2>11, <2>12, <2>13, <2>14, <2>15 DEF Window
<1> QED
    BY <1>2, <1>3

\* A vCPU whose window holds does not miss its deadline.
LEMMA WindowMeets ==
    ASSUME TypeOK, Bounded, Tick \/ Hang, NEW v, NEW r, Fits(v, r), Window(v, r),
           v \notin missed
    PROVE  v \notin missed'
<1>1. v \in Expired => v \in Entries /\ period_cntdn[v] = 0 /\ budget_cntdn[v] \in Nat
    BY LeftType, RtAssumption DEF Expired, TypeOK
<1>2. r \in Nat
    BY LeftType, RtAssumption DEF Fits, Configured, Demanding
<1>3. v \in Expired => budget_cntdn[v] = 0
    BY <1>1, <1>2 DEF Window
<1> QED
    BY <1>3, TickKeeps

\* Attaching a vCPU opens no more than was set aside for it, and detaching
\* one takes work away.
LEMMA WorkElsewhere ==
    ASSUME TypeOK, Bounded, Configured, NEW w \in Vcpus, Attach(w) \/ Detach(w),
           NEW u \in Demanding, NEW r \in Nat \ {0}, NEW s \in 1 .. r
    PROVE  Work(u, s, r)' \in Nat /\ Work(u, s, r)' <= Work(u, s, r)
<1> DEFINE P == Period(u)
           b == budget_cntdn[u]
           j == Jobs(s + P - 1 - period_cntdn[u], u)
<1>1. u \in Vcpus /\ P \in Nat \ {0} /\ Budget(u) \in Nat /\ b \in Nat
    BY StoredOf
<1>2. Period(u)' = P /\ Budget(u)' = Budget(u) /\ \A m : Jobs(m, u)' = Jobs(m, u)
    BY DEF Attach, Detach, Period, Budget, Jobs
<1>3. Work(u, s, r) \in Nat /\ (u \in Entries => j \in Nat)
    <2>1. Work(u, s, r) \in Nat /\ (u \in Entries => s + P - 1 - period_cntdn[u] \in Nat)
        BY WorkNat
    <2> QED
        BY <2>1, JobsFacts
<1>4. ASSUME Attach(w) PROVE Work(u, s, r)' \in Nat /\ Work(u, s, r)' <= Work(u, s, r)
    <2>1. CASE u = w
        <3>1. u \notin Entries /\ state[u] = "detached" /\ u \in Entries'
            BY <1>4, <2>1, AttachAdds DEF Bounded
        <3>2. Work(u, s, r) = Jobs(r + P - 1, u)
            BY <3>1 DEF Work
        <3>3. Work(u, s, r)' = Budget(u) + Jobs(s + P - 1 - P, u)
            BY <1>2, <1>4, <2>1, <3>1, AttachAdds DEF Work
        <3>4. s + P - 1 - P = s - 1 /\ s - 1 \in Nat /\ r - 1 \in Nat /\ s - 1 <= r - 1
            BY <1>1
        <3>5. Jobs(r + P - 1, u) = Jobs(r - 1, u) + Budget(u)
            BY JobsRoundedUp
        <3>6. Jobs(s - 1, u) \in Nat /\ Jobs(r - 1, u) \in Nat /\ Jobs(s - 1, u) <= Jobs(r - 1, u)
            BY <3>4, JobsFacts
        <3> HIDE DEF P
        <3> QED
            BY <1>1, <3>2, <3>3, <3>4, <3>5, <3>6
    <2>2. CASE u # w
        <3>1. /\ u \in Entries' <=> u \in Entries
              /\ state'[u] = state[u] /\ current' = current
              /\ period_cntdn'[u] = period_cntdn[u] /\ budget_cntdn'[u] = budget_cntdn[u]
            BY <1>1, <1>4, <2>2, AttachAdds
        <3>2. Work(u, s, r)' = Work(u, s, r)
            BY <1>2, <3>1 DEF Work
        <3> QED
            BY <1>3, <3>2
    <2> QED
        BY <2>1, <2>2
<1>5. ASSUME Detach(w) PROVE Work(u, s, r)' \in Nat /\ Work(u, s, r)' <= Work(u, s, r)
    <2>1. /\ UNCHANGED <<state, current, period_cntdn, budget_cntdn>>
          /\ u \in Entries' => u \in Entries
        BY <1>5, DetachLeaves DEF Detach
    <2>2. CASE u \in Entries' \/ u \notin Entries
        <3>1. u \in Entries' <=> u \in Entries
            BY <2>1, <2>2
        <3>2. Work(u, s, r)' = Work(u, s, r)
            BY <1>2, <2>1, <3>1 DEF Work
        <3> QED
            BY <1>3, <3>2
    <2>3. CASE u \notin Entries' /\ u \in Entries
        <3>1. state[u] # "detached"
            BY <1>1, <2>3 DEF Bounded
        <3>2. Work(u, s, r) = b + j
            BY <2>3 DEF Work
        <3>3. Work(u, s, r)' = IF u = current THEN b ELSE 0
            BY <2>1, <2>3, <3>1 DEF Work
        <3> HIDE DEF b, j
        <3> QED
            BY <1>1, <1>3, <2>3, <3>2, <3>3
    <2> QED
        BY <2>2, <2>3
<1> QED
    BY <1>4, <1>5

\* So the window stays open.
LEMMA WindowElsewhere ==
    ASSUME TypeOK, Bounded, NEW w \in Vcpus, Attach(w) \/ Detach(w),
           NEW v, NEW r, Fits(v, r), Window(v, r)
    PROVE  Window(v, r)'
<1>1. /\ Configured /\ v \in Demanding /\ v \in Vcpus /\ r \in Nat \ {0} /\ r <= Period(v)
      /\ Rivals(v) \subseteq Demanding /\ IsFiniteSet(Rivals(v)) /\ Period(v) \in Nat
    <2>1. Rivals(v) \in SUBSET Vcpus
        BY DEF Rivals, Demanding
    <2>2. IsFiniteSet(Rivals(v))
        BY <2>1, FS_Subset, RtAssumption
    <2> QED
        BY <2>2, LeftType, RtAssumption DEF Fits, Demanding, Rivals
<1>2. PICK s \in 1 .. r :
         /\ Work(v, s, r) + SumFunction([u \in Rivals(v) |-> Work(u, s, r)]) <= s
         /\ v \in Entries /\ budget_cntdn[v] > 0 => s <= period_cntdn[v]
    BY DEF Window
<1> DEFINE F == [u \in Rivals(v) |-> Work(u, s, r)]
           G == [u \in Rivals(v) |-> Work(u, s, r)']
<1>3. \A u \in Rivals(v) \cup {v} :
         Work(u, s, r) \in Nat /\ Work(u, s, r)' \in Nat /\ Work(u, s, r)' <= Work(u, s, r)
    BY <1>1, WorkNat, WorkElsewhere
<1>4. F \in [Rivals(v) -> Nat] /\ G \in [Rivals(v) -> Nat] /\ \A u \in Rivals(v) : G[u] <= F[u]
    BY <1>3
<1>5. Work(v, s, r) + SumFunction(F) <= s
    BY <1>2
<1>6. Rivals(v)' = Rivals(v)
    BY DEF Attach, Detach, Rivals, Demanding, Period, Budget
<1>7. G = [u \in Rivals(v) |-> Work(u, s, r)]'
    BY <1>6
<1> HIDE DEF F, G
<1>8. SumFunction(G) <= SumFunction(F) /\ SumFunction(G) \in Nat /\ SumFunction(F) \in Nat
    BY <1>1, <1>4, SumMonotone, SumNat
<1>9. Work(v, s, r)' + SumFunction(G) <= s
    BY <1>3, <1>5, <1>8
<1>10. ASSUME v \in Entries', budget_cntdn'[v] > 0 PROVE s <= period_cntdn'[v]
    <2>1. CASE Attach(w)
        <3>1. CASE v = w
            BY <1>1, <2>1, <3>1, AttachAdds
        <3>2. CASE v # w
            BY <1>1, <1>2, <1>10, <2>1, <3>2, AttachAdds
        <3> QED
            BY <3>1, <3>2
    <2>2. CASE Detach(w)
        BY <1>2, <1>10, <2>2, DetachLeaves DEF Detach
    <2> QED
        BY <2>1, <2>2
<1> QED
    BY <1>6, <1>7, <1>9, <1>10 DEF Window

\* At first nobody is attached, and the window is whole.
LEMMA WindowInit == Init => WindowInv
<1> SUFFICES ASSUME Init, NEW v \in Demanding, NEW r \in 1 .. Period(v), Fits(v, r)
             PROVE  v \notin missed /\ Window(v, r)
    BY DEF WindowInv
<1>1. TypeOK /\ Entries = {}
    <2>1. Len(runqueue) = 0
        BY DEF Init
    <2> QED
        BY <2>1, InitOK DEF Entries
<1>2. /\ Configured /\ v \in Demanding /\ r \in Nat \ {0} /\ r \in 1 .. r
      /\ Rivals(v) \subseteq Demanding /\ Demanding \subseteq Vcpus
    BY <1>1, LeftType, RtAssumption DEF Fits, Demanding, Rivals
<1> DEFINE F == [u \in Rivals(v) |-> Work(u, r, r)]
<1>3. \A u \in Demanding : Work(u, r, r) = Jobs(r + Period(u) - 1, u)
    BY <1>1, <1>2 DEF Work, Init
<1>4. \A u \in Demanding : Jobs(r + Period(u) - 1, u) \in Nat
    BY <1>1, <1>2, JobsRoundedUp
<1>5. \A n \in Nat : n <= n
    OBVIOUS
<1>6. F \in [Rivals(v) -> Nat] /\ \A u \in Rivals(v) : F[u] <= Jobs(r + Period(u) - 1, u)
    BY <1>2, <1>3, <1>4, <1>5
<1>7. Work(v, r, r) \in Nat /\ Work(v, r, r) <= Jobs(r + Period(v) - 1, v)
    BY <1>3, <1>4, <1>5
<1>8. Work(v, r, r) + SumFunction(F) <= r
    <2> HIDE DEF F
    <2> QED
        BY <1>1, <1>6, <1>7, WholeWindow
<1> QED
    BY <1>1, <1>2, <1>8 DEF Window, Init

\* WindowInv is inductive.
LEMMA WindowStep == TypeOK /\ Bounded /\ WindowInv /\ [Next]_vars => WindowInv'
<1> SUFFICES ASSUME TypeOK, Bounded, WindowInv, [Next]_vars,
                    NEW v \in Demanding', NEW r \in 1 .. Period(v)', Fits(v, r)'
             PROVE  v \notin missed' /\ (~stuck' => Window(v, r)')
    BY DEF WindowInv
<1>1. v \in Demanding /\ r \in 1 .. Period(v) /\ Fits(v, r)
    BY DEF Next, Tick, Hang, Attach, Detach, vars, Period, Budget, Demanding, Rivals,
           Configured, Interference, Fits
<1>2. v \notin missed /\ (~stuck => Window(v, r))
    BY <1>1 DEF WindowInv
<1>3. CASE Tick
    <2>1. Window(v, r)
        BY <1>2, <1>3 DEF Tick
    <2> QED
        BY <1>1, <1>2, <1>3, <2>1, WindowTick, WindowMeets
<1>4. CASE Hang
    <2>1. Window(v, r) /\ stuck'
        BY <1>2, <1>4 DEF Hang
    <2> QED
        BY <1>1, <1>2, <1>4, <2>1, WindowMeets
<1>5. ASSUME NEW w \in Vcpus, Attach(w) \/ Detach(w)
      PROVE  v \notin missed' /\ (~stuck' => Window(v, r)')
    <2>1. missed' = missed /\ stuck' = stuck
        BY <1>5 DEF Attach, Detach
    <2> QED
        BY <1>1, <1>2, <1>5, <2>1, WindowElsewhere
<1>6. CASE UNCHANGED vars
    <2>1. missed' = missed /\ stuck' = stuck
        BY <1>6 DEF vars
    <2>2. Window(v, r)' <=> Window(v, r)
        BY <1>6 DEF vars, Window, Work, Jobs, Rivals, Demanding, Entries, Period, Budget
    <2> QED
        BY <1>2, <2>1, <2>2
<1> QED
    BY <1>3, <1>4, <1>5, <1>6 DEF Next

----------------------------------------------------------------------------
(* The guarantee.                                                          *)

\* Under either policy a vCPU whose budget fits although its rivals run first
\* never misses a deadline, whatever the vCPUs, their slices, and the order of
\* attach and detach (the loop of do_schedule in core/sched/rt-rm.c and
\* core/sched/rt-edf.c).
THEOREM GuaranteeHolds == Spec => []GuaranteeKept
<1> DEFINE GuaranteeInv == TypeOK /\ Bounded /\ WindowInv
<1>1. Init => GuaranteeInv
    BY InitOK, BoundedInit, WindowInit
<1>2. GuaranteeInv /\ [Next]_vars => GuaranteeInv'
    BY TypeStep, BoundedStep, WindowStep
<1>3. GuaranteeInv => GuaranteeKept
    <2> SUFFICES ASSUME Bounded, WindowInv, NEW v \in missed, Guaranteed(v)
                 PROVE  FALSE
        BY DEF GuaranteeKept
    <2>1. v \in Demanding /\ Configured
        BY DEF Bounded, Guaranteed
    <2>2. PICK r \in 1 .. Period(v) : Budget(v) + Interference(v, r) <= r
        BY DEF Guaranteed
    <2>3. Fits(v, r)
        BY <2>1, <2>2 DEF Fits
    <2> QED
        BY <2>1, <2>3 DEF WindowInv
<1> QED
    BY <1>1, <1>2, <1>3, PTL DEF Spec
=============================================================================
