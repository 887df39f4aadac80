----------------------------- MODULE RtPolicies -----------------------------
(***************************************************************************)
(* The two real-time policies, rate monotonic (core/sched/rt-rm.c) and     *)
(* earliest deadline first (core/sched/rt-edf.c), on one pCPU.  The files  *)
(* differ only in the key they compare, so one model covers both.  The     *)
(* search of the second compares what is left of a period with the whole   *)
(* period of the entry it found last, and is modelled as it is written.    *)
(*                                                                         *)
(* Every period_cntdn and budget_cntdn counts calls of do_schedule, made   *)
(* by the scheduling timer at a fixed interval; the clock is not modelled. *)
(***************************************************************************)
EXTENDS Integers, Sequences, FiniteSets, Functions

CONSTANTS
    Vcpus,      \* the vCPUs registered on the pCPU
    Slices,     \* the [period, budget] pairs the configuration may hold
    MaxWord,    \* 0xFFFFFFFF, the largest uint32_t
    None        \* NULL

ASSUME RtAssumption ==
    /\ MaxWord \in Nat
    /\ Slices \subseteq [period : 0 .. MaxWord, budget : 0 .. MaxWord]
    /\ IsFiniteSet(Vcpus) /\ None \notin Vcpus

VARIABLES
    policy,         \* s->policy: "rm" or "edf"
    conf,           \* ed->period and ed->budget, in ticks
    runqueue,       \* sd->runqueue: every attached entry, in list order
    current,        \* sd->current
    state,          \* entry->state
    period_cntdn,   \* ed->period_cntdn
    budget_cntdn,   \* ed->budget_cntdn
    missed,         \* the vCPUs "Deadline miss on vCPU" was printed for
    stuck           \* in one of the while (1), or NULL was dereferenced

vars == <<policy, conf, runqueue, current, state, period_cntdn, budget_cntdn,
          missed, stuck>>

Entries == {runqueue[i] : i \in 1 .. Len(runqueue)}
Period(v) == conf[v].period
Budget(v) == conf[v].budget

\* uint32_t arithmetic: zero minus one wraps.  Faulty variant: it does not.
LessUnbounded(n) == n - 1
Less(n) == IF n = 0 THEN MaxWord ELSE n - 1

Init ==
    /\ policy \in {"rm", "edf"}
    /\ conf \in [Vcpus -> Slices]
    /\ runqueue = <<>>
    /\ current = None
    /\ state = [v \in Vcpus |-> "detached"]
    /\ period_cntdn = [v \in Vcpus |-> 0]
    /\ budget_cntdn = [v \in Vcpus |-> 0]
    /\ missed = {}
    /\ stuck = FALSE

\* sched_vcpu_attach with sched_rm_vcpu_attach: a whole period lies ahead.
Attach(v) ==
    /\ state[v] = "detached"
    /\ state' = [state EXCEPT ![v] = "waiting"]
    /\ period_cntdn' = [period_cntdn EXCEPT ![v] = Period(v)]
    /\ budget_cntdn' = [budget_cntdn EXCEPT ![v] = Budget(v)]
    /\ runqueue' = Append(runqueue, v)
    /\ UNCHANGED <<policy, conf, current, missed, stuck>>

\* sched_vcpu_detach with sched_rm_vcpu_detach, which unlinks the entry:
\* sd->current may go on pointing to it, and its state is left as it is.
Detach(v) ==
    /\ \E i \in 1 .. Len(runqueue) :
          /\ runqueue[i] = v
          /\ runqueue' = SubSeq(runqueue, 1, i - 1)
                         \o SubSeq(runqueue, i + 1, Len(runqueue))
    /\ UNCHANGED <<policy, conf, current, state, period_cntdn, budget_cntdn,
                   missed, stuck>>

----------------------------------------------------------------------------
(* do_schedule.                                                            *)

\* The entries whose period ends with this call.
Expired == {v \in Entries : period_cntdn[v] = 0}

\* Faulty variant of Renewed: only if the budget has been used up.
RenewedIfSpent(left, whole) ==
    [v \in Vcpus |-> IF v \in Expired /\ budget_cntdn[v] = 0
                     THEN whole[v] ELSE left[v]]
\* A countdown once the expired entries have been given a new period.
Renewed(left, whole) ==
    [v \in Vcpus |-> IF v \in Expired THEN whole[v] ELSE left[v]]

PeriodLeft == Renewed(period_cntdn, [v \in Vcpus |-> Period(v)])
BudgetLeft == Renewed(budget_cntdn, [v \in Vcpus |-> Budget(v)])
Counted == [v \in Vcpus |-> IF v \in Entries THEN Less(PeriodLeft[v])
                                             ELSE PeriodLeft[v]]

\* What the policies compare: the period, or how much of it is left.
KeyRm(v, left)  == Period(v)
KeyEdf(v, left) == left[v]
Key(v, left) == IF policy = "rm" THEN KeyRm(v, left) ELSE KeyEdf(v, left)

\* min_period starts at the largest word, which is then never less.
Eligible ==
    {v \in Entries : BudgetLeft[v] > 0 /\ Key(v, PeriodLeft) < MaxWord}

\* min_period once the entry at place i has been found last.
MinPeriod(i) == IF i = 0 THEN MaxWord ELSE Period(runqueue[i])

\* The search takes the entry at place i although it found that at j before.
\* Both policies store the whole period but only rate monotonic compares it.
Takes(i, j) ==
    /\ BudgetLeft[runqueue[i]] > 0
    /\ MinPeriod(j) > Key(runqueue[i], PeriodLeft)

\* The place found last after the first n entries, or zero.
Found[n \in 0 .. Len(runqueue)] ==
    IF n = 0 THEN 0
    ELSE IF Takes(n, Found[n - 1]) THEN n ELSE Found[n - 1]
Best == runqueue[Found[Len(runqueue)]]

\* By the time of this test the loop has counted the periods down.
Preempts(next) == Key(current, Counted) > Key(next, Counted)

\* Faulty variant: the budget is not looked at.
CurrentExists == current # None
CurrentHasBudget == current # None /\ BudgetLeft[current] > 0

\* Faulty variant: a current entry with budget left always goes on.
ChosenNonPreemptive == IF CurrentHasBudget THEN current ELSE Best
Chosen == IF CurrentHasBudget /\ ~Preempts(Best) THEN current ELSE Best

\* An empty list, or no next entry (dereferenced while the current one, just
\* detached, has budget left; "Idle guest is needed!" otherwise).
Hangs == Eligible = {}

\* The loop over the list, which changes nothing when the list is empty.
CountDown ==
    /\ missed' = missed \cup {v \in Expired : budget_cntdn[v] # 0}
    /\ period_cntdn' = Counted

\* Out of budget: waiting.  A preempted entry stays "running".
Stopped == IF current # None /\ ~CurrentHasBudget
           THEN [state EXCEPT ![current] = "waiting"] ELSE state

Tick ==
    /\ ~stuck
    /\ ~Hangs
    /\ CountDown
    /\ budget_cntdn' = [BudgetLeft EXCEPT ![Chosen] = Less(@)]
    /\ state'   = [Stopped EXCEPT ![Chosen] = "running"]
    /\ current' = Chosen
    /\ UNCHANGED <<policy, conf, runqueue, stuck>>

Hang ==
    /\ ~stuck
    /\ Hangs
    /\ CountDown
    /\ budget_cntdn' = BudgetLeft
    /\ state' = IF Entries = {} THEN state ELSE Stopped
    /\ stuck' = TRUE
    /\ UNCHANGED <<policy, conf, runqueue, current>>

Next == Tick \/ Hang \/ \E v \in Vcpus : Attach(v) \/ Detach(v)

Spec == Init /\ [][Next]_vars
----------------------------------------------------------------------------
(* Correctness.                                                            *)

\* Every variable keeps its type, the countdowns within a word.
TypeOK ==
    /\ policy \in {"rm", "edf"}
    /\ conf \in [Vcpus -> Slices]
    /\ runqueue \in Seq(Vcpus)
    /\ current \in Vcpus \cup {None}
    /\ state \in [Vcpus -> {"detached", "waiting", "running"}]
    /\ period_cntdn \in [Vcpus -> 0 .. MaxWord]
    /\ budget_cntdn \in [Vcpus -> 0 .. MaxWord]
    /\ missed \subseteq Vcpus
    /\ stuck \in BOOLEAN

\* The vCPUs that ask for the processor at all.
Demanding == {v \in Vcpus : Budget(v) > 0}

\* A countdown that starts at zero wraps before it ends a period, and a key
\* of the largest word is never found by the search.
Configured == \A v \in Demanding : Period(v) \in 1 .. MaxWord - 1

\* Who may run before v: under rate monotonic the vCPUs with a period as
\* short as its own, under the other policy, whose search does not find the
\* earliest deadline, all of them.
Rivals(v) ==
    {u \in Demanding \ {v} : policy = "rm" => Period(u) <= Period(v)}

\* Response-time analysis: v ends its budget within r ticks of its release
\* although all its rivals run first.
Interference(v, r) ==
    SumFunction([u \in Rivals(v) |->
                    ((r + Period(u) - 1) \div Period(u)) * Budget(u)])
Guaranteed(v) ==
    Configured /\ \E r \in 1 .. Period(v) : Budget(v) + Interference(v, r) <= r

\* A vCPU whose budget fits although its rivals run first gets all of it in
\* every period, whenever it and the others are attached and detached
\* (do_schedule reloads, searches and counts down in one loop and compares
\* the current entry afterwards, with other values).
GuaranteeKept == \A v \in missed : ~Guaranteed(v)

\* A vCPU whose budget is its whole period, an idle guest.
Idle(v) == Budget(v) = Period(v) /\ Period(v) \notin {0, MaxWord}

\* The budget of an attached idle guest lasts until its period ends.
IdleInv ==
    \A v \in Entries : Idle(v) =>
        /\ period_cntdn[v] <= Period(v)
        /\ period_cntdn[v] <= budget_cntdn[v]

\* "We use idle guest" (core/sched/rt-rm.c:194): with one attached the
\* policy always finds a vCPU to run, whatever the others are.
IdleSuffices ==
    [][stuck' /\ ~stuck => \A v \in Entries : ~Idle(v)]_vars

\* Detaching the entry that runs does not stop it (sd->current stays), but
\* it runs for no more than what is left of its budget and, once another one
\* has run, not at all.
DetachedRunsOut ==
    [][\A v \in Vcpus : state[v] # "detached" /\ v \notin Entries =>
          /\ budget_cntdn'[v] <= budget_cntdn[v]
          /\ current' = v => current = v]_vars

\* "find the entry with budget left and shortest period left"
\* (core/sched/rt-edf.c:155): what the search of that policy is meant to find.
ShortestLeftFound ==
    [][policy = "edf" /\ Tick => \A v \in Entries :
          BudgetLeft[v] > 0 => PeriodLeft[Best] <= PeriodLeft[v]]_vars
=============================================================================
