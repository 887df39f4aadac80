---------------------------- MODULE TimerProofs ----------------------------
(***************************************************************************)
(* Proofs about the software timers of one pCPU: no armed timer is slept   *)
(* through, every slice is whole, and a guest's timer interrupt is never   *)
(* early.                                                                  *)
(***************************************************************************)
EXTENDS TimerManager, WellFoundedInduction, TLAPS

\* A set of expirations has a smallest one, so the search of
\* timer_maintenance is defined.  (Nat is well founded; the expirations
\* start at -1.)
LEMMA Earliest ==
    ASSUME NEW S, S \subseteq {i \in Int : i >= -1}, S # {}
    PROVE  \E m \in S : \A n \in S : m <= n
<1> DEFINE T == {i + 1 : i \in S}
<1>1. T \subseteq Nat /\ T # {}
    <2>1. \A i \in S : i + 1 \in Nat
        BY SMT
    <2> QED
        BY <2>1
<1> HIDE DEF T
<1>2. PICK m \in T : \A n \in T : ~(<<n, m>> \in OpToRel(<, Nat))
    BY <1>1, NatLessThanWellFounded, WFMin, Zenon
<1>3. ASSUME NEW n \in T PROVE m <= n
    <2>1. m \in Nat /\ n \in Nat
        BY <1>1
    <2>2. n < m => <<n, m>> \in OpToRel(<, Nat)
        BY <2>1, Zenon DEF OpToRel
    <2>3. ~(n < m)
        BY <1>2, <2>2, Zenon
    <2> QED
        BY <2>1, <2>3
<1>4. PICK i \in S : m = i + 1
    BY DEF T
<1>5. ASSUME NEW j \in S PROVE i <= j
    <2>1. j + 1 \in T
        BY DEF T
    <2> QED
        BY <1>3, <1>4, <2>1
<1> QED
    BY <1>5

\* Min, where the CHOOSE is defined.
LEMMA MinIsLeast ==
    ASSUME NEW S, S \subseteq {i \in Int : i >= -1}, S # {}
    PROVE  Min(S) \in S /\ \A n \in S : Min(S) <= n
<1>1. PICK m \in S : \A n \in S : m <= n
    BY Earliest
<1> QED
    BY <1>1 DEF Min

\* Max of an expiration and 0, as timer_maintenance clips the past.
LEMMA MaxWithZero ==
    ASSUME NEW i \in Int
    PROVE  Max({i, 0}) = IF i >= 0 THEN i ELSE 0
<1>1. PICK x \in {i, 0} : \A y \in {i, 0} : x >= y
    OBVIOUS
<1>2. Max({i, 0}) \in {i, 0} /\ \A y \in {i, 0} : Max({i, 0}) >= y
    BY <1>1 DEF Max
<1> QED
    BY <1>2

\* What timer_maintenance writes to the comparator: a time in range that is
\* not beyond any timer of the list, unless it is reached already.
LEMMA NearestIsNear ==
    ASSUME NEW on \in SUBSET Timers, NEW lf \in [Timers -> -1 .. Never - 1]
    PROVE  /\ NearestOf(on, lf) \in 0 .. Never
           /\ \A t \in on : NearestOf(on, lf) <= lf[t] \/ NearestOf(on, lf) = 0
<1> DEFINE S == {lf[t] : t \in on}
<1>0. Never \in Nat
    BY TimerManagerAssumption DEF Never
<1>1. CASE on = {}
    BY <1>0, <1>1 DEF NearestOf
<1>2. CASE on # {}
    <2>1. S \subseteq -1 .. Never - 1 /\ S # {}
        BY <1>2
    <2>2. NearestOf(on, lf) = Max({Min(S), 0})
        BY <1>2 DEF NearestOf
    <2>3. \A t \in on : lf[t] \in S
        OBVIOUS
    <2> HIDE DEF S
    <2>4. S \subseteq {i \in Int : i >= -1}
        BY <1>0, <2>1
    <2> DEFINE m == Min(S)
    <2>5. m \in S /\ \A n \in S : m <= n
        BY <2>1, <2>4, MinIsLeast
    <2> HIDE DEF m
    <2>6. m \in -1 .. Never - 1 /\ m \in Int /\ \A n \in S : m <= n
        BY <1>0, <2>1, <2>5
    <2>7. NearestOf(on, lf) = IF m >= 0 THEN m ELSE 0
        BY <2>2, <2>6, MaxWithZero DEF m
    <2>8. NearestOf(on, lf) \in 0 .. Never
        BY <1>0, <2>6, <2>7
    <2>9. ASSUME NEW t \in on
          PROVE  NearestOf(on, lf) <= lf[t] \/ NearestOf(on, lf) = 0
        <3>1. m <= lf[t] /\ lf[t] \in Int
            BY <1>0, <2>1, <2>3, <2>6
        <3> QED
            BY <2>6, <2>7, <3>1
    <2> QED
        BY <2>8, <2>9
<1> QED
    BY <1>1, <1>2

----------------------------------------------------------------------------
(* The inductive invariant.                                                *)

\* What is programmed lies before Never, so that the comparator of a pCPU
\* with an armed timer always moves.
BeforeNever == \A t \in Timers : left[t] < Never

\* What has passed of the slice and what is left of it make up the slice:
\* only do_schedule sets that timer again.
SliceIsKept == Sched \in active => state[Sched] /\ ran + left[Sched] = Slice

\* The software timer of a vCPU runs to the time the guest programmed.
VtimerFollowsCval == \A v \in Vtimers : left[v] = cval[v]

Inv ==
    /\ TypeOK
    /\ BeforeNever
    /\ NeverSleptThrough
    /\ SliceIsKept
    /\ VtimerFollowsCval

\* One timer's expiration in a well-typed state.
LEMMA LeftRange ==
    ASSUME Inv
    PROVE  /\ Never \in Nat /\ Never = Slice + MaxDelay + 1
           /\ Slice \in Nat \ {0} /\ MaxDelay \in Nat
           /\ left \in [Timers -> -1 .. Never - 1]
           /\ cval \in [Vtimers -> -1 .. MaxDelay]
           /\ -1 .. MaxDelay \subseteq -1 .. Never - 1
           /\ Slice \in -1 .. Never - 1
<1>1. Never \in Nat /\ Never = Slice + MaxDelay + 1
    BY TimerManagerAssumption DEF Never
<1>2. ASSUME NEW t \in Timers PROVE left[t] \in -1 .. Never - 1
    BY <1>1 DEF Inv, TypeOK, BeforeNever
<1>3. left \in [Timers -> -1 .. Never - 1]
    BY <1>2 DEF Inv, TypeOK
<1> QED
    BY <1>1, <1>3, TimerManagerAssumption DEF Inv, TypeOK

\* tm_set_timer on any timer, with any delay that lies before Never.
LEMMA SetTimerKeeps ==
    ASSUME Inv, NEW t \in Timers, NEW delay \in -1 .. Never - 1,
           SetTimer(t, delay)
    PROVE  /\ active' \subseteq Timers /\ active \subseteq active' /\ t \in active'
           /\ state' \in [Timers -> BOOLEAN] /\ state'[t]
           /\ left' \in [Timers -> -1 .. Never - 1]
           /\ left'[t] = delay
           /\ \A u \in Timers : u # t => left'[u] = left[u] /\ state'[u] = state[u]
           /\ cmp' \in 0 .. Never /\ enabled' = TRUE
           /\ NeverSleptThrough'
<1> USE LeftRange
<1>1. active' \subseteq Timers /\ active \subseteq active' /\ t \in active'
    BY DEF SetTimer, Inv, TypeOK
<1>2. state' \in [Timers -> BOOLEAN] /\ state'[t]
    BY DEF SetTimer, Inv, TypeOK
<1>3. left' \in [Timers -> -1 .. Never - 1] /\ left'[t] = delay
    BY DEF SetTimer
<1>4. \A u \in Timers : u # t => left'[u] = left[u] /\ state'[u] = state[u]
    BY DEF SetTimer, Inv, TypeOK
<1>5. cmp' = NearestOf(active', left') /\ enabled' = TRUE
    BY DEF SetTimer
<1>6. /\ cmp' \in 0 .. Never
      /\ \A u \in active' : cmp' <= left'[u] \/ cmp' = 0
    BY <1>1, <1>3, <1>5, NearestIsNear
<1>7. \A u \in Timers : state'[u] => u \in active'
    BY <1>1, <1>4 DEF Inv, NeverSleptThrough
<1>8. NeverSleptThrough'
    BY <1>5, <1>6, <1>7 DEF NeverSleptThrough
<1> QED
    BY <1>1, <1>2, <1>3, <1>4, <1>5, <1>6, <1>8

\* A guest programs its virtual timer, or reads it, which arms the swtimer
\* just the same: the slice of the pCPU is not touched.
LEMMA GuestArms ==
    ASSUME Inv, NEW v \in Vtimers, NEW delay \in -1 .. MaxDelay,
           SetTimer(v, delay), cval' \in [Vtimers -> -1 .. MaxDelay],
           cval'[v] = delay, \A u \in Vtimers : u # v => cval'[u] = cval[u],
           Sched \in active, fired' = {},
           UNCHANGED <<ctl, virq, runnable, ran>>
    PROVE  Inv'
<1>1. v \in Timers /\ delay \in -1 .. Never - 1 /\ v # Sched
    BY LeftRange, TimerManagerAssumption DEF Timers
<1>2. /\ active' \subseteq Timers /\ active \subseteq active' /\ v \in active'
      /\ state' \in [Timers -> BOOLEAN] /\ state'[v]
      /\ left' \in [Timers -> -1 .. Never - 1]
      /\ left'[v] = delay
      /\ \A u \in Timers : u # v => left'[u] = left[u] /\ state'[u] = state[u]
      /\ cmp' \in 0 .. Never /\ enabled' = TRUE
      /\ NeverSleptThrough'
    BY <1>1, SetTimerKeeps
<1>3. left' \in [Timers -> -1 .. Never]
    BY <1>2, LeftRange
<1>4. TypeOK'
    BY <1>2, <1>3 DEF Inv, TypeOK
<1>5. BeforeNever'
    BY <1>2, LeftRange DEF BeforeNever
<1>6. Sched \in Timers
    BY DEF Timers
<1>7. SliceIsKept'
    BY <1>1, <1>2, <1>6 DEF Inv, SliceIsKept
<1>8. Vtimers \subseteq Timers
    BY DEF Timers
<1>9. VtimerFollowsCval'
    BY <1>2, <1>8 DEF Inv, VtimerFollowsCval
<1> QED
    BY <1>2, <1>4, <1>5, <1>7, <1>9 DEF Inv

\* The handler of the Hyp timer: every due timer is called, the comparator
\* is computed again from what the callbacks left behind.
LEMMA IrqStep == Inv /\ TimerIrq => Inv'
<1> SUFFICES ASSUME Inv, TimerIrq PROVE Inv'
    OBVIOUS
<1> USE LeftRange
<1>0. /\ Sched \in Timers /\ Vtimers \subseteq Timers /\ Sched \notin Vtimers
      /\ Due \subseteq active /\ active \subseteq Timers /\ active' = active
    BY TimerManagerAssumption DEF Timers, Due, Inv, TypeOK, TimerIrq
<1>1. NextSlice \in -1 .. Never - 1
    BY <1>0 DEF NextSlice
<1>2. left' \in [Timers -> -1 .. Never - 1]
    <2>1. ASSUME NEW t \in Timers
          PROVE  (IF t \notin Due THEN left[t]
                  ELSE IF t = Sched THEN NextSlice ELSE -1) \in -1 .. Never - 1
        BY <1>1
    <2> QED
        BY <2>1 DEF TimerIrq
<1>3. cmp' = NearestOf(active', left')
    BY <1>0 DEF TimerIrq
<1>4. /\ cmp' \in 0 .. Never
      /\ \A t \in active' : cmp' <= left'[t] \/ cmp' = 0
    BY <1>0, <1>2, <1>3, NearestIsNear
<1>5. /\ state' \in [Timers -> BOOLEAN]
      /\ \A t \in Timers : state'[t] => t \in active'
    BY <1>0 DEF TimerIrq, Inv, TypeOK, NeverSleptThrough
<1>6. ctl' \in [Vtimers -> [enable : BOOLEAN, imask : BOOLEAN, istatus : BOOLEAN]]
    BY DEF TimerIrq, Inv, TypeOK
<1>7. TypeOK'
    <2>1. left' \in [Timers -> -1 .. Never]
        BY <1>2
    <2>2. fired' \subseteq active' /\ virq' \subseteq Vtimers
        BY <1>0 DEF TimerIrq, Inv, TypeOK
    <2>3. ran' \in 0 .. Slice + 1
        BY DEF TimerIrq, Inv, TypeOK
    <2> QED
        BY <1>4, <1>5, <1>6, <2>1, <2>2, <2>3 DEF TimerIrq, Inv, TypeOK
<1>8. BeforeNever'
    BY <1>2 DEF BeforeNever
<1>9. NeverSleptThrough'
    BY <1>4, <1>5 DEF NeverSleptThrough, TimerIrq
<1>10. SliceIsKept'
    <2> SUFFICES ASSUME Sched \in active
                 PROVE  state'[Sched] /\ ran' + left'[Sched] = Slice
        BY <1>0 DEF SliceIsKept
    <2>1. state[Sched] /\ ran + left[Sched] = Slice
        BY DEF Inv, SliceIsKept
    <2>2. state'[Sched]
        BY <1>0, <2>1 DEF TimerIrq
    <2>3. CASE Sched \in Due /\ runnable
        <3>1. left'[Sched] = Slice
            BY <1>0, <2>3 DEF TimerIrq, NextSlice
        <3>2. ran' = 0
            BY <2>3 DEF TimerIrq
        <3> QED
            BY <2>2, <3>1, <3>2
    <2>4. CASE ~ (Sched \in Due /\ runnable)
        BY <1>0, <2>1, <2>4 DEF TimerIrq, NextSlice
    <2> QED
        BY <2>2, <2>3, <2>4
<1>11. VtimerFollowsCval'
    <2> SUFFICES ASSUME NEW v \in Vtimers PROVE left'[v] = cval'[v]
        BY DEF VtimerFollowsCval
    <2>1. left[v] = cval[v] /\ cval'[v] = cval[v] /\ v # Sched /\ v \in Timers
        BY <1>0 DEF Inv, VtimerFollowsCval, TimerIrq
    <2>2. CASE v \notin Due
        BY <2>1, <2>2 DEF TimerIrq
    <2>3. CASE v \in Due
        <3>1. left'[v] = -1
            BY <2>1, <2>3 DEF TimerIrq
        <3>2. left[v] = -1
            BY <2>1, <2>3 DEF Due
        <3> QED
            BY <2>1, <3>1, <3>2
    <2> QED
        BY <2>2, <2>3
<1> QED
    BY <1>7, <1>8, <1>9, <1>10, <1>11 DEF Inv

\* One count of the system counter: what is left shrinks together.
LEMMA CountStep == Inv /\ Count => Inv'
<1> SUFFICES ASSUME Inv, Count PROVE Inv'
    OBVIOUS
<1> USE LeftRange
<1>1. ASSUME NEW t \in Timers
      PROVE  /\ left'[t] = IF left[t] < 0 THEN left[t] ELSE left[t] - 1
             /\ left'[t] \in -1 .. Never - 1
    BY DEF Count
<1>2. cval' \in [Vtimers -> -1 .. MaxDelay]
    <2>1. ASSUME NEW v \in Vtimers
          PROVE  (IF cval[v] < 0 THEN cval[v] ELSE cval[v] - 1) \in -1 .. MaxDelay
        OBVIOUS
    <2> QED
        BY <2>1 DEF Count
<1>3. left' \in [Timers -> -1 .. Never]
    <2>1. left' = [t \in Timers |-> left'[t]]
        BY DEF Count
    <2>2. \A t \in Timers : left'[t] \in -1 .. Never
        BY <1>1
    <2> QED
        BY <2>1, <2>2
<1>4. cmp \in 0 .. Never /\ cmp' \in 0 .. Never /\ ran' \in 0 .. Slice + 1
    BY DEF Count, Inv, TypeOK
<1>5. TypeOK'
    BY <1>2, <1>3, <1>4 DEF Count, Inv, TypeOK
<1>6. BeforeNever'
    BY <1>1 DEF BeforeNever
<1>7. NeverSleptThrough'
    <2> SUFFICES ASSUME NEW t \in Timers, state[t]
                 PROVE  /\ t \in active /\ enabled
                        /\ cmp' <= left'[t] \/ cmp' = 0
        BY DEF NeverSleptThrough, Count
    <2>1. t \in active /\ enabled /\ (cmp <= left[t] \/ cmp = 0)
        BY DEF Inv, NeverSleptThrough
    <2>2. cmp' = IF cmp \in {0, Never} THEN cmp ELSE cmp - 1
        BY DEF Count
    <2>3. left[t] \in -1 .. Never - 1
        OBVIOUS
    <2> QED
        BY <1>1, <1>4, <2>1, <2>2, <2>3
<1>8. SliceIsKept'
    <2> SUFFICES ASSUME Sched \in active
                 PROVE  state[Sched] /\ ran' + left'[Sched] = Slice
        BY DEF SliceIsKept, Count
    <2>1. state[Sched] /\ ran + left[Sched] = Slice
        BY DEF Inv, SliceIsKept
    <2>2. Sched \in Timers /\ ran \in 0 .. Slice + 1
        BY DEF Timers, Inv, TypeOK
    <2>3. ran' = IF ran > Slice THEN ran ELSE ran + 1
        BY DEF Count
    <2>4. left[Sched] \in -1 .. Never - 1
        BY <2>2
    <2> QED
        BY <1>1, <2>1, <2>2, <2>3, <2>4
<1>9. VtimerFollowsCval'
    <2> SUFFICES ASSUME NEW v \in Vtimers PROVE left'[v] = cval'[v]
        BY DEF VtimerFollowsCval
    <2>1. v \in Timers /\ left[v] = cval[v]
        BY DEF Timers, Inv, VtimerFollowsCval
    <2>2. cval'[v] = IF cval[v] < 0 THEN cval[v] ELSE cval[v] - 1
        BY DEF Count
    <2> QED
        BY <1>1, <2>1, <2>2
<1> QED
    BY <1>5, <1>6, <1>7, <1>8, <1>9 DEF Inv

\* sched_start programs the first slice.
LEMMA StartStep == Inv /\ SchedStart => Inv'
<1> SUFFICES ASSUME Inv, SchedStart PROVE Inv'
    OBVIOUS
<1> USE LeftRange
<1>1. Sched \in Timers /\ Vtimers \subseteq Timers /\ Sched \notin Vtimers
    BY TimerManagerAssumption DEF Timers
<1>2. SetTimer(Sched, Slice)
    BY DEF SchedStart
<1>3. /\ active' \subseteq Timers /\ active \subseteq active' /\ Sched \in active'
      /\ state' \in [Timers -> BOOLEAN] /\ state'[Sched]
      /\ left' \in [Timers -> -1 .. Never - 1]
      /\ left'[Sched] = Slice
      /\ \A u \in Timers : u # Sched => left'[u] = left[u] /\ state'[u] = state[u]
      /\ cmp' \in 0 .. Never /\ enabled' = TRUE
      /\ NeverSleptThrough'
    BY <1>1, <1>2, SetTimerKeeps
<1>4. left' \in [Timers -> -1 .. Never]
    BY <1>3
<1>5. TypeOK'
    BY <1>3, <1>4 DEF SchedStart, guestVars, Inv, TypeOK
<1>6. BeforeNever'
    BY <1>3 DEF BeforeNever
<1>7. SliceIsKept'
    BY <1>3 DEF SliceIsKept, SchedStart
<1>8. VtimerFollowsCval'
    BY <1>1, <1>3 DEF VtimerFollowsCval, SchedStart, guestVars, Inv
<1> QED
    BY <1>3, <1>5, <1>6, <1>7, <1>8 DEF Inv

\* The register writes that do not touch the timers.
LEMMA QuietStep ==
    ASSUME Inv,
           UNCHANGED <<active, state, left, cmp, enabled, cval, fired, ran>>,
           runnable' \in BOOLEAN, virq' \subseteq Vtimers,
           ctl' \in [Vtimers -> [enable : BOOLEAN, imask : BOOLEAN, istatus : BOOLEAN]]
    PROVE  Inv'
<1>1. TypeOK'
    BY DEF Inv, TypeOK
<1>2. BeforeNever' /\ NeverSleptThrough'
    BY DEF Inv, BeforeNever, NeverSleptThrough
<1>3. SliceIsKept' /\ VtimerFollowsCval'
    BY DEF Inv, SliceIsKept, VtimerFollowsCval
<1> QED
    BY <1>1, <1>2, <1>3 DEF Inv

\* Inv is inductive.
LEMMA Inductive == Inv /\ [Next]_vars => Inv'
<1> SUFFICES ASSUME Inv, [Next]_vars PROVE Inv'
    OBVIOUS
<1> USE LeftRange
<1>1. CASE TimerIrq
    BY <1>1, IrqStep
<1>2. CASE SchedStart
    BY <1>2, StartStep
<1>3. CASE ChangeRunnable
    BY <1>3, QuietStep DEF ChangeRunnable, guestVars, Inv, TypeOK
<1>4. CASE Count
    BY <1>4, CountStep
<1>5. ASSUME NEW v \in Vtimers, GuestGetCval(v) PROVE Inv'
    <2>1. cval' = cval /\ ctl' = ctl /\ virq' = virq
        BY <1>5 DEF GuestGetCval, guestVars
    <2>2. cval[v] \in -1 .. MaxDelay
        OBVIOUS
    <2> QED
        BY <1>5, <2>1, <2>2, GuestArms DEF GuestGetCval
<1>6. ASSUME NEW v \in Vtimers, NEW d \in -1 .. MaxDelay, GuestSetCval(v, d)
      PROVE  Inv'
    <2>1. /\ cval' \in [Vtimers -> -1 .. MaxDelay]
          /\ cval'[v] = d
          /\ \A u \in Vtimers : u # v => cval'[u] = cval[u]
        BY <1>6 DEF GuestSetCval
    <2> QED
        BY <1>6, <2>1, GuestArms DEF GuestSetCval
<1>7. ASSUME NEW v \in Vtimers, GuestTakes(v) PROVE Inv'
    BY <1>7, QuietStep DEF GuestTakes, Inv, TypeOK
<1>8. ASSUME NEW v \in Vtimers, NEW e \in BOOLEAN, NEW m \in BOOLEAN,
             GuestSetCtl(v, e, m)
      PROVE  Inv'
    <2>1. ctl \in [Vtimers -> [enable : BOOLEAN, imask : BOOLEAN, istatus : BOOLEAN]]
        BY DEF Inv, TypeOK
    <2>2. ctl' = [ctl EXCEPT ![v].enable = e, ![v].imask = m]
        BY <1>8 DEF GuestSetCtl
    <2>3. ctl' \in [Vtimers -> [enable : BOOLEAN, imask : BOOLEAN, istatus : BOOLEAN]]
        BY <2>1, <2>2
    <2> QED
        BY <1>8, <2>3, QuietStep DEF GuestSetCtl, Inv, TypeOK
<1>9. CASE UNCHANGED vars
    <2>1. /\ UNCHANGED <<active, state, left, cmp, enabled, cval, fired, ran>>
          /\ UNCHANGED <<ctl, virq, runnable>>
        BY <1>9 DEF vars, guestVars
    <2> QED
        BY <2>1, QuietStep DEF Inv, TypeOK
<1> QED
    BY <1>1, <1>2, <1>3, <1>4, <1>5, <1>6, <1>7, <1>8, <1>9 DEF Next, Arms

\* Init establishes Inv.
LEMMA InitInv == Init => Inv
<1> SUFFICES ASSUME Init PROVE Inv
    OBVIOUS
<1>1. Never \in Nat /\ Slice \in Nat /\ MaxDelay \in Nat
    BY TimerManagerAssumption DEF Never
<1>2. TypeOK
    <2>1. /\ [t \in Timers |-> -1] \in [Timers -> -1 .. Never]
          /\ [v \in Vtimers |-> -1] \in [Vtimers -> -1 .. MaxDelay]
          /\ 0 \in 0 .. Never /\ 0 \in 0 .. Slice + 1
        BY <1>1
    <2>2. [v \in Vtimers |-> [enable |-> FALSE, imask |-> TRUE, istatus |-> FALSE]]
             \in [Vtimers -> [enable : BOOLEAN, imask : BOOLEAN, istatus : BOOLEAN]]
        OBVIOUS
    <2>3. [t \in Timers |-> FALSE] \in [Timers -> BOOLEAN]
        OBVIOUS
    <2> QED
        BY <2>1, <2>2, <2>3, Zenon DEF Init, TypeOK
<1>3. BeforeNever /\ NeverSleptThrough /\ SliceIsKept
    BY <1>1 DEF Init, BeforeNever, NeverSleptThrough, SliceIsKept
<1>4. VtimerFollowsCval
    BY DEF Init, VtimerFollowsCval, Timers
<1> QED
    BY <1>2, <1>3, <1>4 DEF Inv

\* Inv holds in every reachable state.
LEMMA Invariant == Spec => []Inv
<1>1. Spec => Init /\ [][Next]_vars
    BY PTL DEF Spec
<1> QED
    BY <1>1, InitInv, Inductive, PTL

----------------------------------------------------------------------------
(* The theorems.                                                           *)

\* The timers, the comparator and the registers of the guests stay in
\* range, and only a timer of the active list is ever called
\* (timer_irq_handler).
THEOREM TimersTyped == Spec => []TypeOK
<1>1. Inv => TypeOK
    BY DEF Inv
<1> QED
    BY <1>1, Invariant, PTL

\* No armed timer is slept through: whatever tm_set_timer and
\* timer_irq_handler did, timer_maintenance left the comparator at or before
\* the expiration of every armed timer, with the hardware timer on.
THEOREM NoTimerLost == Spec => []NeverSleptThrough
<1>1. Inv => NeverSleptThrough
    BY DEF Inv
<1> QED
    BY <1>1, Invariant, PTL

\* do_schedule is not called before the slice it set has passed, however
\* many guests arm their timers on this pCPU in between.
THEOREM SliceIsWhole == Spec => WholeSlice
<1>1. Inv /\ [Next]_vars => [TimerIrq /\ Sched \in fired' => ran > Slice]_vars
    <2> SUFFICES ASSUME Inv, TimerIrq, Sched \in fired' PROVE ran > Slice
        OBVIOUS
    <2>1. Sched \in active /\ left[Sched] < 0
        BY DEF TimerIrq, Due
    <2>2. ran + left[Sched] = Slice
        BY <2>1 DEF Inv, SliceIsKept
    <2>3. left[Sched] \in Int /\ ran \in Int /\ Slice \in Int
        BY LeftRange DEF Inv, TypeOK, Timers
    <2> QED
        BY <2>1, <2>2, <2>3
<1>2. Spec => [][Next]_vars
    BY PTL DEF Spec
<1> QED
    BY <1>1, <1>2, Invariant, PTL DEF WholeSlice

\* A vCPU is interrupted by its timer only when the time it programmed last
\* has passed, for a timer that it enabled and did not mask: the swtimer of
\* vdev_timer.c, armed by writes and reads alike, is never early.
NoEarlyInterrupt ==
    [][\A v \in virq' \ virq :
          cval[v] < 0 /\ ctl[v].enable /\ ~ ctl[v].imask]_vars

\* The virtual timer keeps to the comparator its guest programmed.
THEOREM TimerIsNotEarly == Spec => NoEarlyInterrupt
<1>1. ASSUME Inv, [Next]_vars
      PROVE  [\A v \in virq' \ virq :
                 cval[v] < 0 /\ ctl[v].enable /\ ~ ctl[v].imask]_vars
    <2> SUFFICES ASSUME NEW v \in virq' \ virq
                 PROVE  cval[v] < 0 /\ ctl[v].enable /\ ~ ctl[v].imask
        OBVIOUS
    <2>1. TimerIrq
        BY <1>1 DEF Next, Arms, SchedStart, ChangeRunnable, Count, GuestGetCval,
                    GuestSetCval, GuestTakes, GuestSetCtl, guestVars, vars
    <2>2. v \in Vtimers /\ left[v] < 0 /\ Injects(v)
        BY <2>1 DEF TimerIrq, Due
    <2>3. left[v] = cval[v]
        BY <1>1, <2>2 DEF Inv, VtimerFollowsCval
    <2> QED
        BY <2>2, <2>3 DEF Injects
<1>2. Spec => [][Next]_vars
    BY PTL DEF Spec
<1> QED
    BY <1>1, <1>2, Invariant, PTL DEF NoEarlyInterrupt
=============================================================================
