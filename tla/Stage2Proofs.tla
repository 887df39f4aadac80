----------------------------- MODULE Stage2Proofs -----------------------------
(***************************************************************************)
(* The stage 2 tables of any number of VMs, of any size, filled in any     *)
(* order, translate each page as the memory map of its VM says, and give   *)
(* no VM a page of another.                                                *)
(*                                                                         *)
(* The invariant is that the tables of a VM are linked as paging_create    *)
(* has linked them, wherever the walk can go, and that a valid last entry  *)
(* has valid entries above it.  Then the walk of a page ends at the entry  *)
(* that write_pgentry computes for it (WalkIs), and since these addresses  *)
(* differ for any two pages and any two VMs (Apart) a store to one of them *)
(* changes one translation.                                                *)
(***************************************************************************)
EXTENDS Stage2, TLAPS

----------------------------------------------------------------------------
(* Arithmetic.                                                             *)

\* Quotient and remainder, as the index macros take them (lpae.h:163).
LEMMA DivMod ==
    ASSUME NEW n \in Nat, NEW e \in Nat \ {0}
    PROVE  /\ n \div e \in Nat /\ n % e \in 0 .. e - 1
           /\ e * (n \div e) + (n % e) = n
  BY SMT

\* The quotient of an index below a product stays below the other factor.
LEMMA DivBound ==
    ASSUME NEW n \in Nat, NEW e \in Nat \ {0}, NEW m \in Nat, n < m * e
    PROVE  n \div e < m
<1>1. n \div e \in Nat /\ e * (n \div e) <= n
  BY DivMod
<1>2. CASE n \div e >= m
  <2>1. e * (n \div e) >= e * m
    BY <1>1, <1>2
  <2> QED BY <2>1, <1>1
<1> QED BY <1>1, <1>2

\* Slices of one size at multiples of it do not overlap (vmem.c:30).
LEMMA Slices ==
    ASSUME NEW s \in Nat, NEW v \in Nat, NEW w \in Nat, v # w,
           NEW x \in 0 .. s - 1, NEW y \in 0 .. s - 1
    PROVE  s * v + x # s * w + y
<1>1. CASE v < w
  <2>1. s * w >= s * (v + 1) BY <1>1
  <2>2. s * (v + 1) = s * v + s OBVIOUS
  <2> QED BY <2>1, <2>2
<1>2. CASE w < v
  <2>1. s * v >= s * (w + 1) BY <1>2
  <2>2. s * (w + 1) = s * w + s OBVIOUS
  <2> QED BY <2>1, <2>2
<1> QED BY <1>1, <1>2

----------------------------------------------------------------------------
(* Addresses.                                                              *)

\* The indices of a page are those of entries that the tables have, and an
\* index is the place of its table and the place within it (lpae.c:36).
LEMMA Indices ==
    ASSUME NEW p \in Pages
    PROVE  /\ L3Index(p) \in 0 .. L1Entry * Entry * Entry - 1
           /\ L2Index(p) \in 0 .. L1Entry * Entry - 1
           /\ L1Index(p) \in 0 .. L1Entry - 1
           /\ L1Index(p) * Entry + (L2Index(p) % Entry) = L2Index(p)
           /\ L2Index(p) * Entry + (L3Index(p) % Entry) = L3Index(p)
<1>1. L1Entry \in Nat /\ Entry \in Nat \ {0}
  BY Stage2Assumption
<1>2. L1Entry * Entry \in Nat /\ L1Entry * Entry * Entry \in Nat
  BY <1>1
<1>3. L3Index(p) \in Nat /\ L3Index(p) < (L1Entry * Entry) * Entry
  BY <1>2 DEF Pages, L3Index
<1>4. L2Index(p) \in Nat /\ L2Index(p) < L1Entry * Entry
  <2>1. L2Index(p) \in Nat
    BY <1>1, <1>3, DivMod DEF L2Index
  <2>2. L2Index(p) < L1Entry * Entry
    BY <1>1, <1>2, <1>3, DivBound DEF L2Index
  <2> QED BY <2>1, <2>2
<1>5. L1Index(p) \in Nat /\ L1Index(p) < L1Entry
  <2>1. L1Index(p) \in Nat
    BY <1>1, <1>4, DivMod DEF L1Index
  <2>2. L1Index(p) < L1Entry
    BY <1>1, <1>4, DivBound DEF L1Index
  <2> QED BY <2>1, <2>2
<1>6. Entry * L1Index(p) + (L2Index(p) % Entry) = L2Index(p)
  BY <1>1, <1>4, DivMod DEF L1Index
<1>7. Entry * L2Index(p) + (L3Index(p) % Entry) = L3Index(p)
  BY <1>1, <1>3, DivMod DEF L2Index
<1>8. L1Index(p) * Entry = Entry * L1Index(p) /\ L2Index(p) * Entry = Entry * L2Index(p)
  BY <1>1, <1>4, <1>5
<1>9. /\ L1Index(p) * Entry + (L2Index(p) % Entry) = L2Index(p)
      /\ L2Index(p) * Entry + (L3Index(p) % Entry) = L3Index(p)
  BY <1>6, <1>7, <1>8, Zenon
<1> DEFINE m == L1Entry * Entry
           n == m * Entry
<1>10. m \in Nat /\ n \in Nat /\ L3Index(p) < n /\ L2Index(p) < m
  BY <1>2, <1>3, <1>4
<1> HIDE DEF m, n
<1>11. L3Index(p) \in 0 .. n - 1 /\ L2Index(p) \in 0 .. m - 1
  BY <1>3, <1>4, <1>10
<1>12. L1Index(p) \in 0 .. L1Entry - 1
  BY <1>1, <1>5
<1> QED
  BY <1>9, <1>11, <1>12, Zenon DEF m, n

\* Where a page's entries are within the tables of its VM.
Offset1(p) == L1Index(p)
Offset2(p) == SecondBase + L2Index(p)
Offset3(p) == ThirdBase + L3Index(p)

LEMMA Offsets ==
    ASSUME NEW p \in Pages, NEW q \in Pages
    PROVE  /\ Offset1(p) \in 0 .. PgtableSize - 1
           /\ Offset2(p) \in 0 .. PgtableSize - 1
           /\ Offset3(p) \in 0 .. PgtableSize - 1
           /\ Offset1(p) < SecondBase /\ SecondBase <= Offset2(p)
           /\ Offset2(q) < Offset3(p) /\ Offset1(q) < Offset3(p) /\ Offset1(q) < Offset2(p)
           /\ Offset3(p) = Offset3(q) => p = q
<1>1. /\ L1Entry \in Nat /\ Entry \in Nat /\ SecondBase \in Nat /\ ThirdBase \in Nat
      /\ PgtableSize \in Nat
      /\ L1Entry <= SecondBase
      /\ SecondBase + L1Entry * Entry <= ThirdBase
      /\ ThirdBase + L1Entry * Entry * Entry <= PgtableSize
  BY Stage2Assumption
<1>2. L1Entry * Entry \in Nat /\ L1Entry * Entry * Entry \in Nat
  BY <1>1
<1>3. \A r \in {p, q} :
         /\ L3Index(r) \in Nat /\ L3Index(r) < L1Entry * Entry * Entry
         /\ L2Index(r) \in Nat /\ L2Index(r) < L1Entry * Entry
         /\ L1Index(r) \in Nat /\ L1Index(r) < L1Entry
  BY <1>2, <1>1, Indices
<1>4. L3Index(p) = p /\ L3Index(q) = q
  BY DEF L3Index
<1> DEFINE m == L1Entry * Entry
           n == L1Entry * Entry * Entry
<1>5. /\ m \in Nat /\ n \in Nat /\ SecondBase + m <= ThirdBase /\ ThirdBase + n <= PgtableSize
      /\ L2Index(p) < m /\ L2Index(q) < m /\ L3Index(p) < n /\ L3Index(q) < n
  BY <1>1, <1>2, <1>3
<1> HIDE DEF m, n
<1> QED
  BY <1>1, <1>3, <1>4, <1>5 DEF Offset1, Offset2, Offset3

\* The addresses write_pgentry stores to are words of the array, and no two
\* levels, pages or VMs share one of the last level.
LEMMA Apart ==
    ASSUME NEW v \in Vms, NEW w \in Vms, NEW p \in Pages, NEW q \in Pages
    PROVE  /\ L1Word(v, p) \in Words /\ L2Word(v, p) \in Words /\ L3Word(v, p) \in Words
           /\ L3Word(v, p) # L1Word(w, q) /\ L3Word(v, p) # L2Word(w, q)
           /\ L1Word(v, p) # L2Word(w, q)
           /\ L3Word(v, p) = L3Word(w, q) => v = w /\ p = q
           /\ v # w => L1Word(v, p) # L1Word(w, q) /\ L2Word(v, p) # L2Word(w, q)
<1>1. /\ NrVms \in Nat /\ PgtableSize \in Nat /\ SecondBase \in Nat /\ ThirdBase \in Nat
      /\ v \in Nat /\ w \in Nat /\ v < NrVms /\ v + 1 <= NrVms
  BY Stage2Assumption DEF Vms
<1>2. /\ PgtableSize * v \in Nat /\ PgtableSize * w \in Nat
      /\ L1Index(p) \in Nat /\ L2Index(p) \in Nat /\ L3Index(p) \in Nat
      /\ L1Index(q) \in Nat /\ L2Index(q) \in Nat /\ L3Index(q) \in Nat
  <2>1. PgtableSize * v \in Nat /\ PgtableSize * w \in Nat
    BY <1>1
  <2>2. \A r \in {p, q} : L1Index(r) \in Nat /\ L2Index(r) \in Nat /\ L3Index(r) \in Nat
    BY Indices
  <2> QED BY <2>1, <2>2
<1>3. \A u \in {v, w} : \A r \in {p, q} :
         /\ L1Word(u, r) = PgtableSize * u + Offset1(r)
         /\ L2Word(u, r) = PgtableSize * u + Offset2(r)
         /\ L3Word(u, r) = PgtableSize * u + Offset3(r)
  BY <1>1, <1>2 DEF L1Word, L2Word, L3Word, Base, Offset1, Offset2, Offset3
<1> DEFINE Places == 0 .. PgtableSize - 1
<1>4. \A r \in {p, q} : Offset1(r) \in Places /\ Offset2(r) \in Places /\ Offset3(r) \in Places
  BY Offsets
<1>5. /\ Offset3(p) # Offset1(q) /\ Offset3(p) # Offset2(q) /\ Offset1(p) # Offset2(q)
      /\ Offset3(p) = Offset3(q) => p = q
  <2>1. /\ Offset1(q) < Offset3(p) /\ Offset2(q) < Offset3(p) /\ Offset1(p) < Offset2(q)
        /\ Offset3(p) = Offset3(q) => p = q
    BY Offsets
  <2> QED BY <2>1, <1>4, <1>1
<1>6. \A x \in Places : PgtableSize * v + x \in Words
  <2>1. PgtableSize * NrVms >= PgtableSize * (v + 1)
    BY <1>1
  <2>2. PgtableSize * (v + 1) = PgtableSize * v + PgtableSize
    BY <1>1
  <2>3. NrVms * PgtableSize = PgtableSize * NrVms
    BY <1>1
  <2> DEFINE a == PgtableSize * v
             b == NrVms * PgtableSize
  <2>4. a \in Nat /\ b \in Nat /\ b >= a + PgtableSize
    BY <1>1, <1>2, <2>1, <2>2, <2>3
  <2>5. Words = 0 .. b - 1
    BY DEF Words
  <2> HIDE DEF a, b
  <2>6. \A x \in Places : a + x \in 0 .. b - 1
    BY <1>1, <2>4
  <2> QED BY <2>5, <2>6 DEF a
<1>7. ASSUME v # w
      PROVE  \A x, y \in Places : PgtableSize * v + x # PgtableSize * w + y
  BY <1>1, <1>7, Slices
<1>8. \A x, y \in Places : PgtableSize * v + x = PgtableSize * v + y => x = y
  <2> DEFINE a == PgtableSize * v
  <2>1. a \in Nat
    BY <1>2
  <2> HIDE DEF a
  <2>2. \A x, y \in Places : a + x = a + y => x = y
    BY <1>1, <2>1
  <2> QED BY <2>2 DEF a
<1> HIDE DEF Places
<1>9. L1Word(v, p) \in Words /\ L2Word(v, p) \in Words /\ L3Word(v, p) \in Words
  BY <1>3, <1>4, <1>6, ZenonT(20)
<1>10. CASE v = w
  BY <1>3, <1>4, <1>5, <1>8, <1>9, <1>10, ZenonT(30)
<1>11. CASE v # w
  BY <1>3, <1>4, <1>7, <1>9, <1>11, ZenonT(30)
<1> QED BY <1>10, <1>11

----------------------------------------------------------------------------
(* What the two steps store.                                               *)

Record == [valid : BOOLEAN, base : Nat, af : {0, 1}]

\* paging_create stores the links of VM v and nothing else (paging.c:5).
LEMMA CreateWords ==
    ASSUME NEW v \in Vms, NEW w \in Vms, NEW p \in Pages,
           mem \in [Words -> Record], Create(v)
    PROVE  /\ mem'[L3Word(w, p)] = mem[L3Word(w, p)]
           /\ w # v => /\ mem'[L1Word(w, p)] = mem[L1Word(w, p)]
                       /\ mem'[L2Word(w, p)] = mem[L2Word(w, p)]
           /\ mem'[L1Word(v, p)] = SetTable(Base(v) + SecondBase + L1Index(p) * Entry)
           /\ mem'[L2Word(v, p)] = SetTable(Base(v) + ThirdBase + L2Index(p) * Entry)
<1> DEFINE m == L1Entry * Entry
           At(a) == LET first  == a - Base(v)
                        second == first - SecondBase
                    IN  IF first \in 0 .. L1Entry - 1
                        THEN SetTable(Base(v) + SecondBase + first * Entry)
                        ELSE IF second \in 0 .. m - 1
                        THEN SetTable(Base(v) + ThirdBase + second * Entry)
                        ELSE mem[a]
<1>1. \A a \in Words : mem'[a] = At(a)
  BY DEF Create
<1>2. /\ L1Entry \in Nat /\ SecondBase \in Nat /\ ThirdBase \in Nat /\ PgtableSize \in Nat
      /\ m \in Nat /\ L1Entry <= SecondBase /\ SecondBase + m <= ThirdBase
      /\ ThirdBase <= PgtableSize
  <2>1. /\ L1Entry \in Nat /\ Entry \in Nat /\ SecondBase \in Nat /\ ThirdBase \in Nat
        /\ PgtableSize \in Nat /\ L1Entry <= SecondBase
        /\ SecondBase + L1Entry * Entry <= ThirdBase
        /\ ThirdBase + L1Entry * Entry * Entry <= PgtableSize
    BY Stage2Assumption
  <2>2. L1Entry * Entry \in Nat /\ L1Entry * Entry * Entry \in Nat
    BY <2>1
  <2> QED BY <2>1, <2>2
<1>3. Base(v) \in Nat /\ Base(w) \in Nat
  BY <1>2 DEF Base, Vms
<1>4. /\ L1Index(p) \in 0 .. L1Entry - 1 /\ L2Index(p) \in 0 .. m - 1 /\ L3Index(p) \in Nat
      /\ L1Index(p) \in Nat /\ L2Index(p) \in Nat
  BY <1>2, Indices
<1>5. L1Word(w, p) \in Words /\ L2Word(w, p) \in Words /\ L3Word(w, p) \in Words
  BY Apart
<1>6. L1Word(v, p) \in Words /\ L2Word(v, p) \in Words /\ L3Word(v, p) \in Words
  BY Apart
<1>7. ASSUME w # v, NEW o \in 0 .. PgtableSize - 1, NEW a \in Words, a = Base(w) + o
      PROVE  mem'[a] = mem[a]
  <2>1. \A x \in 0 .. PgtableSize - 1 : a # Base(v) + x
    BY <1>2, <1>7, Slices DEF Base, Vms
  <2>2. a \in Int
    BY <1>2, <1>3, <1>7
  <2> HIDE DEF m, At
  <2>3. a - Base(v) \notin 0 .. PgtableSize - 1
    BY <1>2, <1>3, <2>1, <2>2
  <2>4. a - Base(v) \notin 0 .. L1Entry - 1 /\ a - Base(v) - SecondBase \notin 0 .. m - 1
    BY <1>2, <1>3, <2>2, <2>3
  <2>5. At(a) = mem[a]
    BY <2>4, Zenon DEF At
  <2> QED BY <1>1, <1>7, <2>5, Zenon
<1>8. /\ L1Word(w, p) = Base(w) + Offset1(p) /\ L2Word(w, p) = Base(w) + Offset2(p)
      /\ L3Word(w, p) = Base(w) + Offset3(p)
  BY <1>2, <1>3, <1>4 DEF L1Word, L2Word, L3Word, Offset1, Offset2, Offset3
<1>9. ASSUME w # v
      PROVE  /\ mem'[L1Word(w, p)] = mem[L1Word(w, p)]
             /\ mem'[L2Word(w, p)] = mem[L2Word(w, p)]
             /\ mem'[L3Word(w, p)] = mem[L3Word(w, p)]
  BY <1>5, <1>7, <1>8, <1>9, Offsets, Zenon
<1>10. mem'[L1Word(v, p)] = SetTable(Base(v) + SecondBase + L1Index(p) * Entry)
  <2>1. L1Word(v, p) - Base(v) = L1Index(p)
    BY <1>3, <1>4 DEF L1Word
  <2>2. At(L1Word(v, p)) = SetTable(Base(v) + SecondBase + L1Index(p) * Entry)
    BY <1>4, <2>1, Zenon
  <2> QED BY <1>1, <1>6, <2>2, Zenon
<1>11. mem'[L2Word(v, p)] = SetTable(Base(v) + ThirdBase + L2Index(p) * Entry)
  <2>1. /\ L2Word(v, p) - Base(v) \notin 0 .. L1Entry - 1
        /\ L2Word(v, p) - Base(v) - SecondBase = L2Index(p)
    BY <1>2, <1>3, <1>4 DEF L2Word
  <2>2. At(L2Word(v, p)) = SetTable(Base(v) + ThirdBase + L2Index(p) * Entry)
    BY <1>4, <2>1, Zenon
  <2> QED BY <1>1, <1>6, <2>2, Zenon
<1>12. mem'[L3Word(v, p)] = mem[L3Word(v, p)]
  <2>1. /\ L3Word(v, p) - Base(v) \notin 0 .. L1Entry - 1
        /\ L3Word(v, p) - Base(v) - SecondBase \notin 0 .. m - 1
    BY <1>2, <1>3, <1>4 DEF L3Word
  <2>2. At(L3Word(v, p)) = mem[L3Word(v, p)]
    BY <2>1, Zenon
  <2> QED BY <1>1, <1>6, <2>2, Zenon
<1> QED
  BY <1>9, <1>10, <1>11, <1>12, Zenon

\* write_pgentry makes the three entries of its page valid and changes the
\* link of none (lpae.c:36).
LEMMA MapWords ==
    ASSUME NEW v \in Vms, NEW p \in Pages, NEW pa \in Nat, NEW af \in {0, 1},
           mem \in [Words -> Record], WritePgentry(v, p, pa, af),
           NEW w \in Vms, NEW q \in Pages
    PROVE  /\ mem'[L3Word(w, q)] =
                  IF w = v /\ q = p THEN SetEntry(pa, af) ELSE mem[L3Word(w, q)]
           /\ mem'[L1Word(w, q)].base = mem[L1Word(w, q)].base
           /\ mem'[L2Word(w, q)].base = mem[L2Word(w, q)].base
           /\ mem[L1Word(w, q)].valid => mem'[L1Word(w, q)].valid
           /\ mem[L2Word(w, q)].valid => mem'[L2Word(w, q)].valid
           /\ mem'[L1Word(v, p)].valid /\ mem'[L2Word(v, p)].valid
           /\ w # v => mem'[L1Word(w, q)] = mem[L1Word(w, q)]
<1> DEFINE a == L1Word(v, p)
           b == L2Word(v, p)
           c == L3Word(v, p)
<1>1. a \in Words /\ b \in Words /\ c \in Words /\ a # b /\ a # c /\ b # c
  BY Apart
<1>2. mem' = [mem EXCEPT ![a].valid = TRUE, ![b].valid = TRUE, ![c] = SetEntry(pa, af)]
  BY DEF WritePgentry
<1> HIDE DEF a, b, c
<1>3. /\ mem'[c] = SetEntry(pa, af)
      /\ mem'[a] = [mem[a] EXCEPT !.valid = TRUE]
      /\ mem'[b] = [mem[b] EXCEPT !.valid = TRUE]
      /\ \A x \in Words : x \notin {a, b, c} => mem'[x] = mem[x]
  BY <1>1, <1>2
<1>4. /\ mem'[a].valid /\ mem'[b].valid
      /\ mem'[a].base = mem[a].base /\ mem'[b].base = mem[b].base
  BY <1>1, <1>3 DEF Record
<1>5. \A x \in Words : x # c =>
         mem'[x].base = mem[x].base /\ (mem[x].valid => mem'[x].valid)
  BY <1>3, <1>4
<1>6. /\ L1Word(w, q) \in Words /\ L2Word(w, q) \in Words /\ L3Word(w, q) \in Words
      /\ L1Word(w, q) # c /\ L2Word(w, q) # c
      /\ L3Word(w, q) # a /\ L3Word(w, q) # b
      /\ L3Word(w, q) = c => w = v /\ q = p
  BY Apart DEF a, b, c
<1>7. w # v => L1Word(w, q) \notin {a, b, c}
  BY Apart DEF a, b, c
<1>8. mem'[L3Word(w, q)] = IF w = v /\ q = p THEN SetEntry(pa, af) ELSE mem[L3Word(w, q)]
  <2>1. CASE w = v /\ q = p
    BY <1>3, <2>1 DEF c
  <2>2. CASE ~ (w = v /\ q = p)
    BY <1>3, <1>6, <2>2
  <2> QED BY <2>1, <2>2
<1> QED
  BY <1>3, <1>4, <1>5, <1>6, <1>7, <1>8, Zenon DEF a, b

----------------------------------------------------------------------------
(* The invariant.                                                          *)

TypeOK ==
    /\ mem \in [Words -> Record]
    /\ created \subseteq Vms
    /\ mapped \in [Vms -> Nat]

\* The first two levels of VM v point to the tables of its own next level.
Linked ==
    \A v \in created, p \in Pages :
        /\ mem[L1Word(v, p)].base = Base(v) + SecondBase + L1Index(p) * Entry
        /\ mem[L2Word(v, p)].base = Base(v) + ThirdBase + L2Index(p) * Entry

Upwards ==
    \A v \in Vms, p \in Pages :
        mem[L3Word(v, p)].valid =>
            v \in created /\ mem[L1Word(v, p)].valid /\ mem[L2Word(v, p)].valid

Fresh == \A v \in Vms \ created, p \in Pages : ~ mem[L1Word(v, p)].valid

IInv == TypeOK /\ Linked /\ Upwards /\ Fresh

\* What the last entry of a page stands for.
Translation(v, p) ==
    LET e == mem[L3Word(v, p)]
    IN  IF e.valid THEN [pa |-> e.base, af |-> e.af] ELSE Unmapped

\* The walk of the MMU ends where write_pgentry stores.
LEMMA WalkIs == IInv => \A v \in Vms, p \in Pages : Walk(v, p) = Translation(v, p)
<1> SUFFICES ASSUME IInv, NEW v \in Vms, NEW p \in Pages
             PROVE  Walk(v, p) = Translation(v, p)
  OBVIOUS
<1>1. CASE v \notin created
  <2>1. ~ mem[L1Word(v, p)].valid /\ ~ mem[L3Word(v, p)].valid
    BY <1>1 DEF IInv, Fresh, Upwards
  <2>2. Walk(v, p) = Unmapped
    BY <2>1, Zenon DEF Walk, L1Word
  <2> QED BY <2>1, <2>2 DEF Translation
<1>2. CASE v \in created
  <2> DEFINE one   == mem[L1Word(v, p)]
             two   == mem[L2Word(v, p)]
             three == mem[L3Word(v, p)]
  <2>1. /\ L1Entry \in Nat /\ Entry \in Nat \ {0} /\ SecondBase \in Nat /\ ThirdBase \in Nat
        /\ Base(v) \in Nat
    BY Stage2Assumption DEF Base, Vms
  <2>2. /\ L1Index(p) \in Nat /\ L2Index(p) \in Nat /\ L3Index(p) \in Nat
        /\ L1Index(p) * Entry + (L2Index(p) % Entry) = L2Index(p)
        /\ L2Index(p) * Entry + (L3Index(p) % Entry) = L3Index(p)
    <3>1. L1Entry * Entry \in Nat /\ L1Entry * Entry * Entry \in Nat
      BY <2>1
    <3> QED BY <3>1, Indices
  <2>3. /\ L1Index(p) * Entry \in Nat /\ L2Index(p) * Entry \in Nat
        /\ L2Index(p) % Entry \in Nat /\ L3Index(p) % Entry \in Nat
    <3>1. L1Index(p) * Entry \in Nat /\ L2Index(p) * Entry \in Nat
      BY <2>1, <2>2
    <3>2. L2Index(p) % Entry \in 0 .. Entry - 1 /\ L3Index(p) % Entry \in 0 .. Entry - 1
      BY <2>1, <2>2, DivMod, Zenon
    <3> QED BY <2>1, <3>1, <3>2
  <2>4. one.base + (L2Index(p) % Entry) = L2Word(v, p)
    <3>1. one.base = Base(v) + SecondBase + L1Index(p) * Entry
      BY <1>2 DEF IInv, Linked
    <3> HIDE DEF one
    <3> QED BY <2>1, <2>2, <2>3, <3>1 DEF L2Word
  <2>5. two.base + (L3Index(p) % Entry) = L3Word(v, p)
    <3>1. two.base = Base(v) + ThirdBase + L2Index(p) * Entry
      BY <1>2 DEF IInv, Linked
    <3> HIDE DEF two
    <3> QED BY <2>1, <2>2, <2>3, <3>1 DEF L3Word
  <2>6. Walk(v, p) = IF one.valid
                     THEN IF two.valid
                          THEN IF three.valid THEN [pa |-> three.base, af |-> three.af] ELSE Unmapped
                          ELSE Unmapped
                     ELSE Unmapped
    BY <2>4, <2>5, Zenon DEF Walk, L1Word
  <2>7. three.valid => one.valid /\ two.valid
    BY DEF IInv, Upwards
  <2> QED BY <2>6, <2>7 DEF Translation
<1> QED BY <1>1, <1>2

----------------------------------------------------------------------------
(* The steps.                                                              *)

\* The invariant holds of the tables as the loader leaves them (lpae.c:4).
LEMMA InitInv == S2Init => IInv
<1> SUFFICES ASSUME S2Init PROVE IInv
  OBVIOUS
<1>1. \A w \in Words : mem[w] = Zero
  BY DEF S2Init
<1>2. TypeOK
  BY DEF S2Init, TypeOK, Record, Zero, PgEntry
<1>3. \A v \in Vms, p \in Pages : ~ mem[L1Word(v, p)].valid /\ ~ mem[L3Word(v, p)].valid
  <2> SUFFICES ASSUME NEW v \in Vms, NEW p \in Pages
               PROVE  ~ mem[L1Word(v, p)].valid /\ ~ mem[L3Word(v, p)].valid
    OBVIOUS
  <2>1. L1Word(v, p) \in Words /\ L3Word(v, p) \in Words
    BY Apart
  <2> QED BY <1>1, <2>1 DEF Zero, PgEntry
<1> QED
  BY <1>2, <1>3 DEF IInv, Linked, Upwards, Fresh, S2Init

LEMMA CreateInv == IInv /\ (\E v \in Vms : Create(v)) => IInv'
<1> SUFFICES ASSUME IInv, NEW v \in Vms, Create(v) PROVE IInv'
  OBVIOUS
<1>1. mem \in [Words -> Record] /\ created' = created \cup {v} /\ v \notin created
  BY DEF IInv, TypeOK, Create
<1>2. ASSUME NEW w \in Vms, NEW p \in Pages
      PROVE  /\ mem'[L3Word(w, p)] = mem[L3Word(w, p)]
             /\ w # v => /\ mem'[L1Word(w, p)] = mem[L1Word(w, p)]
                         /\ mem'[L2Word(w, p)] = mem[L2Word(w, p)]
             /\ mem'[L1Word(v, p)] = SetTable(Base(v) + SecondBase + L1Index(p) * Entry)
             /\ mem'[L2Word(v, p)] = SetTable(Base(v) + ThirdBase + L2Index(p) * Entry)
  BY <1>1, <1>2, CreateWords, Zenon
<1>3. TypeOK'
  <2>1. mem' \in [Words -> Record]
    <3>1. \A base \in Nat : SetTable(base) \in Record
      BY DEF SetTable, PgEntry, Record
    <3>2. /\ Entry \in Nat /\ SecondBase \in Nat /\ ThirdBase \in Nat /\ Base(v) \in Nat
      BY Stage2Assumption DEF Base, Vms
    <3> DEFINE first(w) == w - Base(v)
               second(w) == first(w) - SecondBase
    <3>3. \A w \in Words :
             /\ first(w) \in 0 .. L1Entry - 1 => Base(v) + SecondBase + first(w) * Entry \in Nat
             /\ second(w) \in 0 .. L1Entry * Entry - 1 =>
                   Base(v) + ThirdBase + second(w) * Entry \in Nat
      <4>1. \A n \in Nat : n * Entry \in Nat
        BY <3>2
      <4>2. \A n \in Nat : Base(v) + SecondBase + n * Entry \in Nat
                         /\ Base(v) + ThirdBase + n * Entry \in Nat
        BY <3>2, <4>1
      <4>3. \A n, m : n \in 0 .. m - 1 => n \in Nat
        OBVIOUS
      <4> QED BY <4>2, <4>3, Zenon
    <3> QED BY <1>1, <3>1, <3>3, Zenon DEF Create
  <2> QED BY <2>1, <1>1 DEF IInv, TypeOK, Create
<1>4. Linked'
  <2> SUFFICES ASSUME NEW w \in created', NEW p \in Pages
               PROVE  /\ mem'[L1Word(w, p)].base = Base(w) + SecondBase + L1Index(p) * Entry
                      /\ mem'[L2Word(w, p)].base = Base(w) + ThirdBase + L2Index(p) * Entry
    BY DEF Linked, L1Word, L2Word, Base, L1Index, L2Index, L3Index
  <2>1. w \in Vms
    BY <1>1 DEF IInv, TypeOK
  <2>2. CASE w = v
    <3>1. /\ mem'[L1Word(v, p)] = SetTable(Base(v) + SecondBase + L1Index(p) * Entry)
          /\ mem'[L2Word(v, p)] = SetTable(Base(v) + ThirdBase + L2Index(p) * Entry)
      BY <1>2
    <3>2. \A base : SetTable(base).base = base
      BY DEF SetTable, PgEntry
    <3> QED BY <2>2, <3>1, <3>2, Zenon
  <2>3. CASE w # v
    <3>1. w \in created
      BY <1>1, <2>3
    <3> QED BY <1>2, <2>1, <2>3, <3>1 DEF IInv, Linked
  <2> QED BY <2>2, <2>3
<1>5. Upwards'
  <2> SUFFICES ASSUME NEW w \in Vms, NEW p \in Pages, mem'[L3Word(w, p)].valid
               PROVE  /\ w \in created' /\ mem'[L1Word(w, p)].valid
                      /\ mem'[L2Word(w, p)].valid
    BY DEF Upwards, L1Word, L2Word, L3Word, Base, L1Index, L2Index, L3Index
  <2>1. mem[L3Word(w, p)].valid
    BY <1>2
  <2>2. w \in created /\ mem[L1Word(w, p)].valid /\ mem[L2Word(w, p)].valid
    BY <2>1 DEF IInv, Upwards
  <2>3. w # v
    BY <1>1, <2>2
  <2> QED BY <1>1, <1>2, <2>2, <2>3
<1>6. Fresh'
  <2> SUFFICES ASSUME NEW w \in Vms \ created', NEW p \in Pages
               PROVE  ~ mem'[L1Word(w, p)].valid
    BY DEF Fresh, L1Word, Base, L1Index, L2Index, L3Index
  <2>1. w # v /\ w \in Vms \ created
    BY <1>1
  <2> QED BY <1>2, <2>1 DEF IInv, Fresh
<1> QED
  BY <1>3, <1>4, <1>5, <1>6 DEF IInv

\* What is stored for a VM: its memory map, and then the shared pages.
LEMMA EntriesAre ==
    ASSUME NEW v \in Vms
    PROVE  /\ Entries[v] \in Seq([ipa : Pages, pa : Nat, af : {0, 1}])
           /\ Len(Entries[v]) = Len(Mmap[v]) + Len(Shm)
           /\ \A i \in 1 .. Len(Mmap[v]) : Entries[v][i] = Mmap[v][i]
           /\ \A i \in Len(Mmap[v]) + 1 .. Len(Entries[v]) :
                 /\ i - Len(Mmap[v]) \in 1 .. Len(Shm)
                 /\ Entries[v][i] = SharedPage(Shm[i - Len(Mmap[v])])
<1> DEFINE Memdesc == [ipa : Pages, pa : Nat, af : {0, 1}]
           rest == [i \in 1 .. Len(Shm) |-> SharedPage(Shm[i])]
<1>1. Mmap[v] \in Seq(Memdesc) /\ Shm \in Seq(Pages)
  BY Stage2Assumption
<1>2. Len(Shm) \in Nat /\ \A i \in 1 .. Len(Shm) : Shm[i] \in Pages
  BY <1>1
<1>3. Pages \subseteq Nat
  BY DEF Pages
<1>4. \A p \in Pages : SharedPage(p) \in Memdesc
  BY <1>3 DEF SharedPage
<1> HIDE DEF Memdesc
<1>5. rest \in Seq(Memdesc) /\ Len(rest) = Len(Shm)
  BY <1>2, <1>4
<1>6. Entries[v] = Mmap[v] \o rest
  BY DEF Entries
<1>7. \A i \in 1 .. Len(Shm) : rest[i] = SharedPage(Shm[i])
  BY <1>2
<1> HIDE DEF rest
<1>8. Entries[v] \in Seq(Memdesc) /\ Len(Entries[v]) = Len(Mmap[v]) + Len(Shm)
  <2>1. \A s, t \in Seq(Memdesc) :
           s \o t \in Seq(Memdesc) /\ Len(s \o t) = Len(s) + Len(t)
    OBVIOUS
  <2> QED BY <1>1, <1>5, <1>6, <2>1, Zenon
<1>9. \A i \in 1 .. Len(Mmap[v]) : Entries[v][i] = Mmap[v][i]
  BY <1>1, <1>5, <1>6
<1>10. ASSUME NEW i \in Len(Mmap[v]) + 1 .. Len(Entries[v])
       PROVE  /\ i - Len(Mmap[v]) \in 1 .. Len(Shm)
              /\ Entries[v][i] = SharedPage(Shm[i - Len(Mmap[v])])
  <2>1. Len(Mmap[v]) \in Nat
    BY <1>1
  <2>2. i - Len(Mmap[v]) \in 1 .. Len(Shm)
    BY <1>2, <1>8, <2>1
  <2>3. Entries[v][i] = rest[i - Len(Mmap[v])]
    BY <1>1, <1>5, <1>6, <1>8, <2>1
  <2> QED BY <1>7, <2>2, <2>3
<1> QED BY <1>8, <1>9, <1>10 DEF Memdesc

\* The entry that MapEntry enters is one of a page.
LEMMA EntryType ==
    ASSUME NEW v \in Vms, mapped \in [Vms -> Nat], mapped[v] < Len(Entries[v])
    PROVE  Entries[v][mapped[v] + 1] \in [ipa : Pages, pa : Nat, af : {0, 1}]
<1> DEFINE Memdesc == [ipa : Pages, pa : Nat, af : {0, 1}]
<1>1. Entries[v] \in Seq(Memdesc) /\ mapped[v] \in Nat
  BY EntriesAre
<1> HIDE DEF Memdesc
<1>2. \A s \in Seq(Memdesc) : \A i \in Nat : i < Len(s) => s[i + 1] \in Memdesc
  OBVIOUS
<1>3. Entries[v][mapped[v] + 1] \in Memdesc
  BY <1>1, <1>2
<1> QED BY <1>3 DEF Memdesc

LEMMA MapInv == IInv /\ (\E v \in Vms : MapEntry(v)) => IInv'
<1> SUFFICES ASSUME IInv, NEW v \in Vms, MapEntry(v) PROVE IInv'
  OBVIOUS
<1> DEFINE e == Entries[v][mapped[v] + 1]
<1>1. /\ mem \in [Words -> Record] /\ mapped \in [Vms -> Nat]
      /\ created' = created /\ v \in created
      /\ mapped' = [mapped EXCEPT ![v] = @ + 1] /\ mapped[v] < Len(Entries[v])
      /\ WritePgentry(v, e.ipa, e.pa, e.af)
  BY DEF IInv, TypeOK, MapEntry
<1>2. e.ipa \in Pages /\ e.pa \in Nat /\ e.af \in {0, 1}
  <2>1. e \in [ipa : Pages, pa : Nat, af : {0, 1}]
    BY <1>1, EntryType
  <2> HIDE DEF e
  <2> QED BY <2>1
<1> HIDE DEF e
<1>3. ASSUME NEW w \in Vms, NEW q \in Pages
      PROVE  /\ mem'[L3Word(w, q)] =
                    IF w = v /\ q = e.ipa THEN SetEntry(e.pa, e.af) ELSE mem[L3Word(w, q)]
             /\ mem'[L1Word(w, q)].base = mem[L1Word(w, q)].base
             /\ mem'[L2Word(w, q)].base = mem[L2Word(w, q)].base
             /\ mem[L1Word(w, q)].valid => mem'[L1Word(w, q)].valid
             /\ mem[L2Word(w, q)].valid => mem'[L2Word(w, q)].valid
             /\ mem'[L1Word(v, e.ipa)].valid /\ mem'[L2Word(v, e.ipa)].valid
             /\ w # v => mem'[L1Word(w, q)] = mem[L1Word(w, q)]
  BY <1>1, <1>2, <1>3, MapWords
<1>4. TypeOK'
  <2>1. SetEntry(e.pa, e.af) \in Record
    BY <1>2 DEF SetEntry, PgEntry, Record
  <2>2. \A m \in [Words -> Record], a \in Words : [m EXCEPT ![a].valid = TRUE] \in [Words -> Record]
    BY DEF Record
  <2>3. \A m \in [Words -> Record], a \in Words :
           [m EXCEPT ![a] = SetEntry(e.pa, e.af)] \in [Words -> Record]
    BY <2>1
  <2> DEFINE one == [mem EXCEPT ![L1Word(v, e.ipa)].valid = TRUE]
             two == [one EXCEPT ![L2Word(v, e.ipa)].valid = TRUE]
  <2>4. /\ L1Word(v, e.ipa) \in Words /\ L2Word(v, e.ipa) \in Words
        /\ L3Word(v, e.ipa) \in Words
    BY <1>2, Apart
  <2>5. mem' = [two EXCEPT ![L3Word(v, e.ipa)] = SetEntry(e.pa, e.af)]
    BY <1>1 DEF WritePgentry
  <2>6. one \in [Words -> Record]
    BY <1>1, <2>2, <2>4
  <2> HIDE DEF one
  <2>7. two \in [Words -> Record]
    BY <2>2, <2>4, <2>6
  <2> HIDE DEF two
  <2>8. mem' \in [Words -> Record]
    BY <2>3, <2>4, <2>5, <2>7
  <2> QED BY <1>1, <2>8 DEF IInv, TypeOK
<1>5. Linked'
  <2> SUFFICES ASSUME NEW w \in created, NEW q \in Pages
               PROVE  /\ mem'[L1Word(w, q)].base = Base(w) + SecondBase + L1Index(q) * Entry
                      /\ mem'[L2Word(w, q)].base = Base(w) + ThirdBase + L2Index(q) * Entry
    BY <1>1 DEF Linked, L1Word, L2Word, Base, L1Index, L2Index, L3Index
  <2>1. w \in Vms
    BY DEF IInv, TypeOK
  <2> QED BY <1>3, <2>1 DEF IInv, Linked
<1>6. Upwards'
  <2> SUFFICES ASSUME NEW w \in Vms, NEW q \in Pages, mem'[L3Word(w, q)].valid
               PROVE  /\ w \in created /\ mem'[L1Word(w, q)].valid
                      /\ mem'[L2Word(w, q)].valid
    BY <1>1 DEF Upwards, L1Word, L2Word, L3Word, Base, L1Index, L2Index, L3Index
  <2>1. CASE w = v /\ q = e.ipa
    BY <1>1, <1>3, <2>1, Zenon
  <2>2. CASE ~ (w = v /\ q = e.ipa)
    <3>1. mem[L3Word(w, q)].valid
      BY <1>3, <2>2
    <3>2. w \in created /\ mem[L1Word(w, q)].valid /\ mem[L2Word(w, q)].valid
      BY <3>1 DEF IInv, Upwards
    <3> QED BY <1>3, <3>2
  <2> QED BY <2>1, <2>2
<1>7. Fresh'
  <2> SUFFICES ASSUME NEW w \in Vms \ created, NEW q \in Pages
               PROVE  ~ mem'[L1Word(w, q)].valid
    BY <1>1 DEF Fresh, L1Word, Base, L1Index, L2Index, L3Index
  <2>1. w # v
    BY <1>1
  <2> QED BY <1>3, <2>1 DEF IInv, Fresh
<1> QED
  BY <1>4, <1>5, <1>6, <1>7 DEF IInv

\* The invariant holds in every state of every set-up of the tables.
THEOREM Stage2Invariant == S2Spec => []IInv
<1>1. IInv /\ [S2Next]_s2Vars => IInv'
  <2> SUFFICES ASSUME IInv, [S2Next]_s2Vars PROVE IInv'
    OBVIOUS
  <2>1. CASE \E v \in Vms : Create(v)
    BY <2>1, CreateInv
  <2>2. CASE \E v \in Vms : MapEntry(v)
    BY <2>2, MapInv
  <2>3. CASE UNCHANGED s2Vars
    BY <2>3 DEF s2Vars, IInv, TypeOK, Linked, Upwards, Fresh, L1Word, L2Word, L3Word, Base,
                L1Index, L2Index, L3Index
  <2> QED BY <2>1, <2>2, <2>3 DEF S2Next, MapPage, MapShm
<1> QED
  BY InitInv, <1>1, PTL DEF S2Spec

----------------------------------------------------------------------------
(* The tables implement the map.                                           *)

Map == [v \in Vms |-> [p \in Pages |-> Walk(v, p)]]
MapIs == \A v \in Vms, p \in Pages : Walk(v, p) = Translation(v, p)

LEMMA CreateKeeps ==
    IInv /\ (\E v \in Vms : Create(v)) =>
        \A w \in Vms, q \in Pages : Translation(w, q)' = Translation(w, q)
<1> SUFFICES ASSUME IInv, NEW v \in Vms, Create(v), NEW w \in Vms, NEW q \in Pages
             PROVE  Translation(w, q)' = Translation(w, q)
  OBVIOUS
<1>1. mem \in [Words -> Record]
  BY DEF IInv, TypeOK
<1>2. mem'[L3Word(w, q)] = mem[L3Word(w, q)]
  BY <1>1, CreateWords
<1> QED
  BY <1>2 DEF Translation, L3Word, Base, L3Index

LEMMA EntryEnters ==
    ASSUME IInv, NEW v \in Vms, MapEntry(v), NEW w \in Vms, NEW q \in Pages
    PROVE  LET e == Entries[v][mapped[v] + 1]
           IN  Translation(w, q)' = IF w = v /\ q = e.ipa THEN [pa |-> e.pa, af |-> e.af]
                                    ELSE Translation(w, q)
<1> DEFINE e == Entries[v][mapped[v] + 1]
<1>1. /\ mem \in [Words -> Record] /\ mapped \in [Vms -> Nat]
      /\ mapped[v] < Len(Entries[v]) /\ WritePgentry(v, e.ipa, e.pa, e.af)
  BY DEF IInv, TypeOK, MapEntry
<1>2. e.ipa \in Pages /\ e.pa \in Nat /\ e.af \in {0, 1}
  <2>1. e \in [ipa : Pages, pa : Nat, af : {0, 1}]
    BY <1>1, EntryType
  <2> HIDE DEF e
  <2> QED BY <2>1
<1> HIDE DEF e
<1>3. mem'[L3Word(w, q)] =
         IF w = v /\ q = e.ipa THEN SetEntry(e.pa, e.af) ELSE mem[L3Word(w, q)]
  BY <1>1, <1>2, MapWords
<1>4. Translation(w, q)' = IF w = v /\ q = e.ipa THEN [pa |-> e.pa, af |-> e.af]
                           ELSE Translation(w, q)
  BY <1>3 DEF Translation, SetEntry, PgEntry, L3Word, Base, L3Index
<1> QED BY <1>4 DEF e

LEMMA StepMap == IInv /\ MapIs /\ MapIs' /\ [S2Next]_s2Vars => [Abstract!Next]_<<Map, mapped>>
<1> SUFFICES ASSUME IInv, MapIs, MapIs', [S2Next]_s2Vars
             PROVE  Abstract!Next \/ (Map' = Map /\ mapped' = mapped)
  OBVIOUS
<1>1. Map = [v \in Vms |-> [p \in Pages |-> Translation(v, p)]]
  BY DEF Map, MapIs
<1>2. Map' = [v \in Vms |-> [p \in Pages |-> Translation(v, p)']]
  BY DEF Map, MapIs
<1>3. CASE \E v \in Vms : Create(v)
  <2>1. \A w \in Vms, q \in Pages : Translation(w, q)' = Translation(w, q)
    BY <1>3, CreateKeeps
  <2>2. Map' = Map
    BY <1>1, <1>2, <2>1, Zenon
  <2>3. mapped' = mapped
    BY <1>3 DEF Create
  <2> QED BY <2>2, <2>3
<1>4. ASSUME NEW v \in Vms, MapEntry(v)
      PROVE  Abstract!Next
  <2> DEFINE e == Entries[v][mapped[v] + 1]
  <2>1. mapped[v] < Len(Entries[v]) /\ mapped' = [mapped EXCEPT ![v] = @ + 1]
    BY <1>4 DEF MapEntry
  <2>2. \A w \in Vms, q \in Pages :
           Translation(w, q)' = IF w = v /\ q = e.ipa THEN [pa |-> e.pa, af |-> e.af]
                                ELSE Translation(w, q)
    BY <1>4, EntryEnters
  <2> HIDE DEF e
  <2>3. Map' = [Map EXCEPT ![v][e.ipa] = [pa |-> e.pa, af |-> e.af]]
    <3> DEFINE t == [pa |-> e.pa, af |-> e.af]
               new == [Map EXCEPT ![v] = [Map[v] EXCEPT ![e.ipa] = t]]
    <3>1. [Map EXCEPT ![v][e.ipa] = t] = new
      BY <1>1
    <3>2. \A w \in Vms : Map[w] = [p \in Pages |-> Translation(w, p)]
      BY <1>1
    <3> HIDE DEF t
    <3>3. \A w \in Vms : new[w] = [q \in Pages |-> IF w = v /\ q = e.ipa THEN t
                                                  ELSE Translation(w, q)]
      <4> SUFFICES ASSUME NEW w \in Vms
                   PROVE  new[w] = [q \in Pages |-> IF w = v /\ q = e.ipa THEN t
                                                   ELSE Translation(w, q)]
        OBVIOUS
      <4>1. CASE w = v
        BY <1>1, <3>2, <4>1
      <4>2. CASE w # v
        BY <1>1, <3>2, <4>2
      <4> QED BY <4>1, <4>2
    <3>4. new = [w \in Vms |-> new[w]]
      BY <1>1
    <3> HIDE DEF new
    <3>5. \A w \in Vms : [q \in Pages |-> Translation(w, q)'] = new[w]
      BY <2>2, <3>3 DEF t
    <3>6. Map' = new
      BY <1>2, <3>4, <3>5, Zenon
    <3> QED BY <3>1, <3>6 DEF t
  <2>4. Abstract!Enter(v)
    BY <2>1, <2>3 DEF Abstract!Enter, Map, e
  <2> QED BY <2>4 DEF Abstract!Next, Abstract!Vms, Vms
<1>5. CASE UNCHANGED s2Vars
  <2>1. mem' = mem /\ mapped' = mapped
    BY <1>5 DEF s2Vars
  <2>2. \A w \in Vms, q \in Pages : Translation(w, q)' = Translation(w, q)
    BY <2>1 DEF Translation, L3Word, Base, L3Index
  <2> QED BY <1>1, <1>2, <2>1, <2>2, Zenon
<1> QED BY <1>3, <1>4, <1>5 DEF S2Next, MapPage, MapShm

LEMMA InitMap == S2Init /\ IInv => Abstract!Init
<1> SUFFICES ASSUME S2Init, IInv PROVE Abstract!Init
  OBVIOUS
<1>1. \A v \in Vms, p \in Pages : Walk(v, p) = Unmapped
  <2> SUFFICES ASSUME NEW v \in Vms, NEW p \in Pages PROVE Walk(v, p) = Unmapped
    OBVIOUS
  <2>1. L1Word(v, p) \in Words
    BY Apart
  <2>2. ~ mem[L1Word(v, p)].valid
    BY <2>1 DEF S2Init, Zero, PgEntry
  <2> QED BY <2>2, Zenon DEF Walk, L1Word
<1> QED
  BY <1>1 DEF Abstract!Init, Abstract!Vms, Vms, S2Init

\* The translation of each page is that of its last entry in the memory map
\* of its VM, for every size of the tables and every memory map: the entries
\* that paging_add_ipa_mapping has stored are what the MMU finds, and those
\* of another page or VM never are (paging.c:31, lpae.c:36).
THEOREM TablesImplementMap == S2Spec => ImplementsIpaMap
<1>1. IInv => MapIs
  BY WalkIs DEF MapIs
<1>2. S2Init => Abstract!Init
  BY InitInv, InitMap
<1> QED
  BY <1>1, <1>2, StepMap, Stage2Invariant, PTL
  DEF S2Spec, ImplementsIpaMap, Abstract!Spec, Map

\* A VM has the translations that its own memory map gives it and those of
\* the memory shared with OP-TEE, and no other.
Given(v, p, t) ==
    \E i \in 1 .. mapped[v] : Entries[v][i].ipa = p /\ t = [pa |-> Entries[v][i].pa, af |-> Entries[v][i].af]
Isolated ==
    \A v \in Vms, p \in Pages : Walk(v, p) = Unmapped \/ Given(v, p, Walk(v, p))

LEMMA IsolatedStep == IInv /\ MapIs /\ MapIs' /\ Isolated /\ [S2Next]_s2Vars => Isolated'
<1> SUFFICES ASSUME IInv, MapIs, MapIs', Isolated, [S2Next]_s2Vars,
                    NEW w \in Vms, NEW q \in Pages
             PROVE  \/ Translation(w, q)' = Unmapped
                    \/ \E i \in 1 .. mapped'[w] :
                          /\ Entries[w][i].ipa = q
                          /\ Translation(w, q)' = [pa |-> Entries[w][i].pa, af |-> Entries[w][i].af]
  BY DEF Isolated, Given, MapIs
<1>1. mapped \in [Vms -> Nat]
  BY DEF IInv, TypeOK
<1>2. \/ Translation(w, q) = Unmapped
      \/ \E i \in 1 .. mapped[w] :
            /\ Entries[w][i].ipa = q
            /\ Translation(w, q) = [pa |-> Entries[w][i].pa, af |-> Entries[w][i].af]
  BY DEF Isolated, Given, MapIs
<1>3. CASE \E v \in Vms : Create(v)
  <2>1. Translation(w, q)' = Translation(w, q)
    BY <1>3, CreateKeeps
  <2>2. mapped' = mapped
    BY <1>3 DEF Create
  <2> QED BY <1>2, <2>1, <2>2, Zenon
<1>4. ASSUME NEW v \in Vms, MapEntry(v)
      PROVE  \/ Translation(w, q)' = Unmapped
             \/ \E i \in 1 .. mapped'[w] :
                   /\ Entries[w][i].ipa = q
                   /\ Translation(w, q)' = [pa |-> Entries[w][i].pa, af |-> Entries[w][i].af]
  <2> DEFINE n == mapped[v] + 1
             e == Entries[v][n]
  <2>1. mapped' = [mapped EXCEPT ![v] = @ + 1]
    BY <1>4 DEF MapEntry
  <2>2. Translation(w, q)' = IF w = v /\ q = e.ipa THEN [pa |-> e.pa, af |-> e.af]
                             ELSE Translation(w, q)
    BY <1>4, EntryEnters
  <2> HIDE DEF e
  <2>3. CASE w = v /\ q = e.ipa
    <3>1. n \in 1 .. mapped'[w]
      BY <1>1, <2>1, <2>3
    <3> HIDE DEF n
    <3> QED BY <2>2, <2>3, <3>1, Zenon DEF e
  <2>4. CASE ~ (w = v /\ q = e.ipa)
    <3>1. \A i \in 1 .. mapped[w] : i \in 1 .. mapped'[w]
      BY <1>1, <2>1
    <3>2. Translation(w, q)' = Translation(w, q)
      BY <2>2, <2>4, Zenon
    <3> QED BY <1>2, <3>1, <3>2, Zenon
  <2> QED BY <2>3, <2>4
<1>5. CASE UNCHANGED s2Vars
  <2>1. mapped' = mapped /\ Translation(w, q)' = Translation(w, q)
    BY <1>5 DEF s2Vars, Translation, L3Word, Base, L3Index
  <2> QED BY <1>2, <2>1, Zenon
<1> QED BY <1>3, <1>4, <1>5 DEF S2Next, MapPage, MapShm

\* No word of the array is reached from two VMs, so that a guest gets at the
\* physical pages of its own memory map, once it has asked for them at those
\* of the memory shared with OP-TEE (optee.c:62), and at no others (vmem.c:30).
THEOREM VmsAreIsolated == S2Spec => []Isolated
<1>1. IInv => MapIs
  BY WalkIs DEF MapIs
<1>2. S2Init => Isolated
  <2> SUFFICES ASSUME S2Init, NEW v \in Vms, NEW p \in Pages PROVE Walk(v, p) = Unmapped
    BY DEF Isolated
  <2>1. L1Word(v, p) \in Words
    BY Apart
  <2>2. ~ mem[L1Word(v, p)].valid
    BY <2>1 DEF S2Init, Zero, PgEntry
  <2> QED BY <2>2, Zenon DEF Walk, L1Word
<1> QED
  BY <1>1, <1>2, IsolatedStep, Stage2Invariant, PTL DEF S2Spec

\* What has been mapped so far is reached by the walk.
Entered ==
    \A v \in Vms :
        /\ mapped[v] <= Len(Entries[v])
        /\ \A i \in 1 .. mapped[v] : Walk(v, Entries[v][i].ipa) # Unmapped

LEMMA EnteredStep == IInv /\ MapIs /\ MapIs' /\ Entered /\ [S2Next]_s2Vars => Entered'
<1> SUFFICES ASSUME IInv, MapIs, MapIs', Entered, [S2Next]_s2Vars, NEW w \in Vms
             PROVE  /\ mapped'[w] <= Len(Entries[w])
                    /\ \A i \in 1 .. mapped'[w] : Walk(w, Entries[w][i].ipa)' # Unmapped
  BY DEF Entered
<1>1. /\ mapped \in [Vms -> Nat] /\ mapped[w] <= Len(Entries[w])
      /\ Entries[w] \in Seq([ipa : Pages, pa : Nat, af : {0, 1}])
  BY EntriesAre DEF IInv, TypeOK, Entered
<1>2. ASSUME NEW i \in 1 .. Len(Entries[w]) PROVE Entries[w][i].ipa \in Pages
  <2> DEFINE Memdesc == [ipa : Pages, pa : Nat, af : {0, 1}]
  <2>1. Entries[w] \in Seq(Memdesc)
    BY <1>1
  <2> HIDE DEF Memdesc
  <2>2. \A s \in Seq(Memdesc) : \A j \in 1 .. Len(s) : s[j] \in Memdesc
    OBVIOUS
  <2>3. Entries[w][i] \in Memdesc
    BY <2>1, <2>2
  <2> QED BY <2>3 DEF Memdesc
<1>3. ASSUME NEW i \in 1 .. mapped[w]
      PROVE  /\ Entries[w][i].ipa \in Pages
             /\ Translation(w, Entries[w][i].ipa) # Unmapped
  <2>1. i \in 1 .. Len(Entries[w])
    BY <1>1
  <2>2. Entries[w][i].ipa \in Pages
    BY <1>2, <2>1
  <2> QED BY <2>2 DEF Entered, MapIs
<1>4. ASSUME mapped' = mapped,
             \A q \in Pages : Translation(w, q)' = Translation(w, q)
      PROVE  /\ mapped'[w] <= Len(Entries[w])
             /\ \A i \in 1 .. mapped'[w] : Walk(w, Entries[w][i].ipa)' # Unmapped
  BY <1>1, <1>3, <1>4 DEF MapIs
<1>5. CASE \E v \in Vms : Create(v)
  <2>1. \A q \in Pages : Translation(w, q)' = Translation(w, q)
    BY <1>5, CreateKeeps
  <2>2. mapped' = mapped
    BY <1>5 DEF Create
  <2> QED BY <1>4, <2>1, <2>2
<1>6. ASSUME NEW v \in Vms, MapEntry(v)
      PROVE  /\ mapped'[w] <= Len(Entries[w])
             /\ \A i \in 1 .. mapped'[w] : Walk(w, Entries[w][i].ipa)' # Unmapped
  <2> DEFINE n == mapped[v] + 1
             e == Entries[v][n]
  <2>1. mapped' = [mapped EXCEPT ![v] = @ + 1] /\ mapped[v] < Len(Entries[v])
    BY <1>6 DEF MapEntry
  <2>2. \A q \in Pages :
           Translation(w, q)' = IF w = v /\ q = e.ipa THEN [pa |-> e.pa, af |-> e.af]
                                ELSE Translation(w, q)
    BY <1>6, EntryEnters
  <2>3. [pa |-> e.pa, af |-> e.af] # Unmapped
    <3>1. e \in [ipa : Pages, pa : Nat, af : {0, 1}]
      BY <1>1, <2>1, EntryType
    <3> HIDE DEF e
    <3>2. [pa |-> e.pa, af |-> e.af] \in [pa : Nat, af : {0, 1}]
      BY <3>1
    <3> QED BY <3>2, Stage2Assumption
  <2>4. \A i \in 1 .. mapped'[w] : i \in 1 .. mapped[w] \/ (w = v /\ i = n)
    BY <1>1, <2>1
  <2>5. mapped'[w] <= Len(Entries[w])
    BY <1>1, <2>1
  <2>6. w = v => e.ipa = Entries[w][n].ipa
    OBVIOUS
  <2> HIDE DEF e, n
  <2>7. ASSUME NEW i \in 1 .. mapped'[w] PROVE Walk(w, Entries[w][i].ipa)' # Unmapped
    <3>1. i \in 1 .. Len(Entries[w])
      BY <1>1, <2>1, <2>5
    <3>2. Entries[w][i].ipa \in Pages
      BY <1>2, <3>1
    <3>3. Translation(w, Entries[w][i].ipa)' # Unmapped
      <4>1. CASE i \in 1 .. mapped[w]
        BY <1>3, <2>2, <2>3, <4>1
      <4>2. CASE w = v /\ i = n
        BY <2>2, <2>3, <2>6, <3>2, <4>2
      <4> QED BY <2>4, <4>1, <4>2
    <3> QED BY <3>2, <3>3 DEF MapIs
  <2> QED BY <2>5, <2>7
<1>7. CASE UNCHANGED s2Vars
  <2>1. mapped' = mapped /\ \A q \in Pages : Translation(w, q)' = Translation(w, q)
    BY <1>7 DEF s2Vars, Translation, L3Word, Base, L3Index
  <2> QED BY <1>4, <2>1
<1> QED BY <1>5, <1>6, <1>7 DEF S2Next, MapPage, MapShm

\* A page, once paging_add_ipa_mapping has stored its entry, is reached for
\* good: no later store, for this VM or another, at boot or when the memory
\* shared with OP-TEE is mapped (optee.c:62), unmaps it.
THEOREM MappedIsReached == S2Spec => []Entered
<1>1. IInv => MapIs
  BY WalkIs DEF MapIs
<1>2. S2Init => Entered
  <2> SUFFICES ASSUME S2Init, NEW v \in Vms PROVE mapped[v] = 0 /\ 0 <= Len(Entries[v])
    BY DEF Entered
  <2>1. Entries[v] \in Seq([ipa : Pages, pa : Nat, af : {0, 1}])
    BY EntriesAre
  <2> QED BY <2>1 DEF S2Init
<1> QED
  BY <1>1, <1>2, EnteredStep, Stage2Invariant, PTL DEF S2Spec

=============================================================================
