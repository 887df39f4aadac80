---------------------------- MODULE TimerManager ----------------------------
(***************************************************************************)
(* The software timers of one pCPU (core/timer.c) on the Hyp physical      *)
(* timer (drivers/generic_timer.c), with the two users the code has: the   *)
(* scheduling timer, whose callback is do_schedule, and one vtimer per     *)
(* vCPU homed on the pCPU (drivers/vdev/vdev_timer.c).                     *)
(*                                                                         *)
(* Times are kept as what is left of them: expiration - now, comparator -  *)
(* now.  Once past they stay past, so -1 stands for every expiration the   *)
(* test "expiration < now" accepts, the 0 that a one-shot callback stores  *)
(* included, and 0 for every comparator that has been reached.  Time has   *)
(* no bound.  The unit is one count of the system counter.                 *)
(***************************************************************************)
EXTENDS Integers, FiniteSetsExt

CONSTANTS
    Sched,      \* the timer of struct scheduler
    Vtimers,    \* the swtimer of each vCPU's vdev_timer
    Slice,      \* the round-robin slice in counts
    MaxDelay    \* the longest delay a guest programs

ASSUME TimerManagerAssumption ==
    /\ Sched \notin Vtimers
    /\ Slice \in Nat \ {0}
    /\ MaxDelay \in Nat

VARIABLES
    active,     \* active_timers[pcpu]
    state,      \* t->state: TRUE for 1
    left,       \* t->expiration - now, -1 once past
    cmp,        \* CNTHP_CVAL - now, 0 once reached
    enabled,    \* CNTHP_CTL: enabled and not masked
    cval,       \* v->p_cval (as a time on the pCPU) - now, -1 once past
    ctl,        \* v->p_ctl: [enable, imask, istatus]
    virq,       \* the vCPUs that vIRQ 30 was injected to and that have not taken it
    runnable,   \* the scheduler has a vCPU to switch to
    fired,      \* the timers whose callback the last interrupt called
    ran         \* counts since do_schedule last set the slice, at most Slice + 1

guestVars == <<cval, ctl, virq>>
vars == <<active, state, left, cmp, enabled, guestVars, runnable, fired, ran>>

Timers == {Sched} \cup Vtimers
Never  == Slice + MaxDelay + 1      \* ~0: later than anything programmed

Init ==
    /\ active  = {}
    /\ state   = [t \in Timers |-> FALSE]
    /\ left    = [t \in Timers |-> -1]
    /\ cmp     = 0
    /\ enabled = FALSE
    /\ cval    = [v \in Vtimers |-> -1]
    /\ ctl     = [v \in Vtimers |-> [enable |-> FALSE, imask |-> TRUE, istatus |-> FALSE]]
    /\ virq    = {}
    /\ runnable = FALSE
    /\ fired   = {}
    /\ ran     = 0

----------------------------------------------------------------------------
(* core/timer.c                                                            *)

\* timer_maintenance: the comparator gets the smallest expiration on the
\* active list.  Faulty variant: the largest.
FurthestOf(on, lf) == IF on = {} THEN Never ELSE Max({lf[t] : t \in on} \cup {0})
NearestOf(on, lf)  == IF on = {} THEN Never ELSE Max({Min({lf[t] : t \in on}), 0})

\* tm_set_timer between timer_stop and timer_start.  Faulty variant: the
\* comparator is not set again.
SetTimerOnly(t, delay) ==
    /\ active' = active \cup {t}
    /\ state'  = [state EXCEPT ![t] = TRUE]
    /\ left'   = [left EXCEPT ![t] = delay]
    /\ enabled' = TRUE
    /\ cmp' = cmp

SetTimer(t, delay) ==
    /\ active' = active \cup {t}
    /\ state'  = [state EXCEPT ![t] = TRUE]
    /\ left'   = [left EXCEPT ![t] = delay]
    /\ enabled' = TRUE
    /\ cmp' = NearestOf(active', left')

\* The timers whose callback timer_irq_handler calls.  Faulty variants: the
\* expiration is not compared; the last timer of the list is missed.
DueAny == {t \in active : state[t]}
DueNoGuest == {t \in active \cap {Sched} : state[t] /\ left[t] < 0}
Due == {t \in active : state[t] /\ left[t] < 0}

\* vdev_timer_handler: one-shot (CONFIG_VTIMER_PERIODIC is not set), so the
\* expiration becomes 0; the guest's register and its interrupt follow.
\* Faulty variant: IMASK is taken for its opposite.
InjectsIfMasked(v) == ctl[v].enable /\ ctl[v].imask
Injects(v) == ctl[v].enable /\ ~ ctl[v].imask

\* do_schedule sets the end of the next slice when it switches and leaves the
\* expiration alone when there is nothing to run.
NextSlice == IF runnable THEN Slice ELSE left[Sched]

TimerIrq ==
    /\ enabled
    /\ cmp <= 0
    /\ fired' = Due
    /\ left'  = [t \in Timers |-> IF t \notin Due THEN left[t]
                                  ELSE IF t = Sched THEN NextSlice ELSE -1]
    /\ state' = [t \in Timers |-> IF t \in Due THEN t = Sched ELSE state[t]]
    /\ ctl'   = [v \in Vtimers |-> IF v \in Due /\ ctl[v].enable
                                   THEN [ctl[v] EXCEPT !.istatus = TRUE] ELSE ctl[v]]
    /\ virq'  = virq \cup {v \in Vtimers \cap Due : Injects(v)}
    /\ ran'   = IF Sched \in Due /\ runnable THEN 0 ELSE ran
    /\ cmp'   = NearestOf(active, left')
    /\ UNCHANGED <<active, enabled, cval, runnable>>

----------------------------------------------------------------------------
(* Who calls it, and time.                                                 *)

\* sched_start, once the runqueue holds a vCPU.
SchedStart ==
    /\ Sched \notin active
    /\ runnable
    /\ SetTimer(Sched, Slice)
    /\ fired' = {}
    /\ ran'   = 0
    /\ UNCHANGED <<guestVars, runnable>>

\* A guest writes CNTP_TVAL or CNTP_CVAL.  A value in the past is possible.
GuestSetCval(v, delay) ==
    /\ Sched \in active
    /\ cval' = [cval EXCEPT ![v] = delay]
    /\ SetTimer(v, delay)
    /\ fired' = {}
    /\ UNCHANGED <<ctl, virq, runnable, ran>>

\* A guest reads CNTP_CVAL: vdev_timer_access64 arms the swtimer all the same.
GuestGetCval(v) ==
    /\ Sched \in active
    /\ SetTimer(v, cval[v])
    /\ fired' = {}
    /\ UNCHANGED <<guestVars, runnable, ran>>

\* A guest writes CNTP_CTL: the register takes the value, ISTATUS included
\* (guests write back what they read, so that it does not change).
GuestSetCtl(v, enable, imask) ==
    /\ Sched \in active
    /\ ctl' = [ctl EXCEPT ![v].enable = enable, ![v].imask = imask]
    /\ UNCHANGED <<active, state, left, cmp, enabled, cval, virq, runnable, fired, ran>>

\* The guest takes vIRQ 30.
GuestTakes(v) ==
    /\ v \in virq
    /\ virq' = virq \ {v}
    /\ UNCHANGED <<active, state, left, cmp, enabled, cval, ctl, runnable, fired, ran>>

\* A vCPU is attached, or the last one detached.
ChangeRunnable ==
    /\ runnable' = ~ runnable
    /\ UNCHANGED <<active, state, left, cmp, enabled, guestVars, fired, ran>>

Count ==
    /\ left' = [t \in Timers |-> IF left[t] < 0 THEN left[t] ELSE left[t] - 1]
    /\ cval' = [v \in Vtimers |-> IF cval[v] < 0 THEN cval[v] ELSE cval[v] - 1]
    /\ cmp'  = IF cmp \in {0, Never} THEN cmp ELSE cmp - 1
    /\ ran'  = IF ran > Slice THEN ran ELSE ran + 1
    /\ UNCHANGED <<active, state, enabled, ctl, virq, runnable, fired>>

Arms(v) == GuestGetCval(v) \/ \E d \in -1 .. MaxDelay : GuestSetCval(v, d)

Next ==
    \/ TimerIrq \/ SchedStart \/ ChangeRunnable \/ Count
    \/ \E v \in Vtimers :
          \/ Arms(v) \/ GuestTakes(v)
          \/ \E e, m \in BOOLEAN : GuestSetCtl(v, e, m)

\* Time passes, and a pending interrupt is taken: it is level sensitive and
\* masked only while a handler runs.
Spec == Init /\ [][Next]_vars /\ WF_vars(Count) /\ WF_vars(TimerIrq)

----------------------------------------------------------------------------
(* Correctness.                                                            *)

\* The comparator and the timers stay in range, only active timers are armed.
TypeOK ==
    /\ active \subseteq Timers
    /\ state \in [Timers -> BOOLEAN]
    /\ left \in [Timers -> -1 .. Never] /\ cmp \in 0 .. Never
    /\ enabled \in BOOLEAN /\ runnable \in BOOLEAN
    /\ cval \in [Vtimers -> -1 .. MaxDelay]
    /\ ctl \in [Vtimers -> [enable : BOOLEAN, imask : BOOLEAN, istatus : BOOLEAN]]
    /\ virq \subseteq Vtimers /\ fired \subseteq active
    /\ ran \in 0 .. Slice + 1

\* No armed timer is ever slept through: it is on the list that maintenance
\* scans, the hardware timer is on, and the comparator is not beyond it,
\* whatever was re-armed, expired or set since.
NeverSleptThrough ==
    \A t \in Timers : state[t] =>
        /\ t \in active /\ enabled
        /\ cmp <= left[t] \/ cmp = 0

\* A vCPU gets its whole slice: do_schedule is not called again before the
\* slice it last set has passed, however often the vtimers of the guests on
\* this pCPU interrupt in between.
WholeSlice == [][TimerIrq /\ Sched \in fired' => ran > Slice]_vars

\* The scheduling timer goes on for ever once started.
SchedulingGoesOn == state[Sched] ~> (Sched \in fired)

\* An armed vtimer fires, unless its guest keeps re-arming it, and the guest
\* gets vIRQ 30 if it wants it then.
VtimerFires ==
    \A v \in Vtimers :
        \/ []<><<Arms(v)>>_vars
        \/ state[v] ~> (v \in fired /\ (ctl[v].enable /\ ~ ctl[v].imask => v \in virq))

\* "then find nearest expiration time" (core/timer.c:258), of the timers that
\* are active: the comparator is reached when one of them is due.
ComparatorIsNearest ==
    enabled /\ cmp = 0 => \E t \in active : state[t] /\ left[t] <= 0
=============================================================================
