-------------------------------- MODULE VTimer --------------------------------
(***************************************************************************)
(* The time that a guest reads and sets (drivers/vdev/vdev_timer.c), with  *)
(* the offset between its counter and that of the machine.  TimerManager   *)
(* has what happens to the software timer that is armed here.              *)
(*                                                                         *)
(* The counter and CNTP_CVAL have 64 bits and do not wrap in the life of   *)
(* the machine; CNTP_TVAL has the low word of their difference.  Times are *)
(* counts: the conversion to ns is left out.  Periodic mode is not         *)
(* configured (CONFIG_VTIMER_PERIODIC).                                    *)
(***************************************************************************)
EXTENDS Integers

CONSTANTS
    Long,      \* 2^64
    Word,      \* 2^32
    MaxCount   \* bound: the counter stops

ASSUME VTimerAssumption ==
    /\ Long \in Nat \ {0} /\ Word \in Nat \ {0} /\ Long % Word = 0
    /\ MaxCount \in Nat /\ MaxCount + Word <= Long

VARIABLES
    syscounter,  \* timer_get_syscounter()
    ctOffset,    \* p_ct_offset: the counter at init_vdev_timer
    cval,        \* p_cval
    expiration,  \* swtimer.expiration, 0 when it has expired
    read,        \* what the guest has read from CNTP_TVAL since it wrote, and when
    due          \* history: when the guest last asked for its interrupt by TVAL

timerVars == <<syscounter, ctOffset, cval, expiration, read, due>>

Never == -1

TimerInit ==
    /\ syscounter \in 0 .. MaxCount /\ ctOffset = syscounter
    /\ cval = 0 /\ expiration = 0 /\ due = Never
    /\ read = [tval |-> 0, at |-> Never]

\* The time of the guest by which CNTP_TVAL and CNTP_CVAL go; CNTPCT reads as
\* the counter plus the offset.
Count == (syscounter - ctOffset) % Long

\* vdev_timer_set_swtimer, for a new CVAL.  Faulty variant: the guest's time.
ArmGuestTime(c) == expiration' = c
Arm(c) == expiration' = (c + ctOffset) % Long

\* CNTP_TVAL.  A guest asks for times less than half a word ahead.
WriteTval(t) ==
    /\ cval' = (Count + t) % Long
    /\ Arm(cval')
    /\ due' = syscounter + t
    /\ read' = [read EXCEPT !.at = Never]
    /\ UNCHANGED <<syscounter, ctOffset>>

ReadTval ==
    /\ read' = [tval |-> (cval - Count) % Word, at |-> syscounter]
    /\ UNCHANGED <<syscounter, ctOffset, cval, expiration, due>>

\* CNTP_CVAL: reading it arms the timer too.
WriteCval(c) ==
    /\ cval' = c /\ Arm(c)
    /\ due' = Never
    /\ read' = [read EXCEPT !.at = Never]
    /\ UNCHANGED <<syscounter, ctOffset>>

ReadCval ==
    /\ Arm(cval)
    /\ UNCHANGED <<syscounter, ctOffset, cval, read, due>>

\* vdev_timer_handler, called by the timer manager, as soon as it is time.
Expire ==
    /\ expiration # 0 /\ expiration <= syscounter
    /\ expiration' = 0
    /\ UNCHANGED <<syscounter, ctOffset, cval, read, due>>

Tick ==
    /\ syscounter < MaxCount
    /\ ~ (expiration # 0 /\ expiration <= syscounter)
    /\ syscounter' = syscounter + 1
    /\ UNCHANGED <<ctOffset, cval, expiration, read, due>>

TimerNext ==
    \/ \E t \in 0 .. Word \div 2 - 1 : WriteTval(t)
    \/ \E c \in 0 .. MaxCount : WriteCval(c)
    \/ ReadTval \/ ReadCval \/ Expire \/ Tick

----------------------------------------------------------------------------
(* Correctness.                                                            *)

\* The interrupt that a guest asks for by TVAL comes exactly when it is due,
\* whatever offset its counter has and however often it looks at its timer
\* registers before; and TVAL counts down to it (vdev_timer.c:53, :85, :88).
TvalDeadline ==
    due # Never =>
        /\ expiration \in {0, due}
        /\ syscounter < due => expiration = due
        /\ read.at # Never => read.tval = (due - read.at) % Word
=============================================================================
