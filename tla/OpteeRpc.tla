------------------------------- MODULE OpteeRpc -------------------------------
(***************************************************************************)
(* The OP-TEE mediator (arch/arm/optee.c).  A guest thread enters the      *)
(* secure world by SMC; the secure world comes back with a result or with  *)
(* an RPC, which the guest serves before it returns from it by another     *)
(* SMC.  The hypervisor answers one kind of RPC itself: a secure thread    *)
(* that waits for a secure mutex is put to sleep by answering its guest    *)
(* thread with a DUMMY RPC, again and again, until another thread's RPC    *)
(* wakes it.                                                               *)
(*                                                                         *)
(* A pCPU executes one handler at a time, the SMC it makes included.  The  *)
(* secure world is external: one mutex with its wait queue.                *)
(***************************************************************************)
EXTENDS Naturals, FiniteSets

CONSTANTS
    Threads,   \* the secure threads, each with the guest thread that drives it
    VmOf,      \* the VM of that guest thread
    NrClients, \* CONFIG_NR_VMS; vmids are 0 .. NrClients - 1
    NumPcpus,
    ShmSize,   \* the size of the memory shared with the secure world
    None

ASSUME OpteeAssumption ==
    /\ None \notin Threads /\ NumPcpus \in Nat \ {0} /\ NrClients \in Nat \ {0}
    /\ VmOf \in [Threads -> 0 .. NrClients - 1] /\ ShmSize \in Nat

VARIABLES
    at,        \* where the call of each thread is, see Places
    rpc,       \* threads[].rpc
    asleep,    \* threads[].is_sleep
    msg,       \* threads[].msg # NULL
    result,    \* what the secure world has put into the registers and the message
    shm,       \* the static shm: {} before it is known, then its units
    share,     \* the units GET_SHM_CONFIG has given to each VM
    \* The secure world.
    sec,       \* what each thread does there
    holder,    \* of the mutex
    waiters,   \* in its wait queue, not yet woken
    woken,     \* taken off the queue by a waker, not yet back
    overtaken  \* history: woken before the hypervisor had put it to sleep

medVars == <<rpc, asleep, msg>>
shmVars == <<shm, share>>
secVars == <<sec, holder, waiters, woken>>
opteeVars == <<at, medVars, result, shmVars, secVars, overtaken>>

\* No call; in the secure world, inside arm_smccc_smc; back in the handler;
\* in the guest, that serves an RPC.
Places == {"out", "secure", "back", "guest"}

\* The results of an SMC.  "cmd" stands for the RPC commands that only the
\* guest looks at; the WAIT_QUEUE command is "sleep" or "wake" with a thread.
Result(kind, t) == [kind |-> kind, thread |-> t]
Kinds == {"ok", "alloc", "free", "cmd", "sleep", "wake"}

OpteeInit ==
    /\ at = [t \in Threads |-> "out"]
    /\ rpc = [t \in Threads |-> "none"] /\ asleep = [t \in Threads |-> FALSE]
    /\ msg = [t \in Threads |-> FALSE]
    /\ result = [t \in Threads |-> Result("ok", None)]
    /\ shm = {} /\ share = [v \in 0 .. NrClients - 1 |-> {}]
    /\ sec = [t \in Threads |-> "idle"] /\ holder = None
    /\ waiters = {} /\ woken = {} /\ overtaken = {}

\* A handler can start if a pCPU is not inside one.
PcpuFree == Cardinality({t \in Threads : at[t] \in {"secure", "back"}}) < NumPcpus

----------------------------------------------------------------------------
(* The mediator.                                                           *)

\* handle_optee_smc with a new call: nothing but the SMC.
CallWithArg(t) ==
    /\ at[t] = "out" /\ PcpuFree
    /\ at' = [at EXCEPT ![t] = "secure"]
    /\ sec' = [sec EXCEPT ![t] = "start"]
    /\ UNCHANGED <<medVars, result, shmVars, holder, waiters, woken, overtaken>>

\* handle_optee_return_from_rpc: whether the thread has a message buffer
\* afterwards.  Faulty variant: the case of ALLOC falls through to FREE.
MsgFallsThrough(t) == msg[t] /\ rpc[t] \notin {"alloc", "free"}
MsgAfter(t) == rpc[t] = "alloc" \/ (msg[t] /\ rpc[t] # "free")

\* A sleeper is not let through: gpr[0] says DUMMY once more, and the guest
\* waits busily.  Faulty variant: RPC DUMMY is returned from like any other.
LetThrough(t) == TRUE
MayReturn(t) == ~ (rpc[t] = "dummy" /\ asleep[t])

\* handle_optee_smc with RETURN_FROM_RPC; the SMC follows.
ReturnFromRpc(t) ==
    /\ at[t] = "guest" /\ PcpuFree
    /\ MayReturn(t)
    /\ msg' = [msg EXCEPT ![t] = MsgAfter(t)]
    /\ rpc' = [rpc EXCEPT ![t] = "none"]
    /\ at' = [at EXCEPT ![t] = "secure"]
    /\ UNCHANGED <<asleep, result, shmVars, secVars, overtaken>>

\* What handle_optee_rpc does to is_sleep for the result r of thread t.
\* Faulty variant: the waker clears its own flag.
SleepersOwn(t, r) ==
    CASE r.kind = "sleep" -> [asleep EXCEPT ![t] = TRUE]
      [] r.kind = "wake"  -> [asleep EXCEPT ![t] = FALSE]
      [] OTHER -> asleep
Sleepers(t, r) ==
    CASE r.kind = "sleep" -> [asleep EXCEPT ![t] = TRUE]
      [] r.kind = "wake"  -> [asleep EXCEPT ![r.thread] = FALSE]
      [] OTHER -> asleep

\* handle_optee_smc after the SMC.
AfterSmc(t) ==
    /\ at[t] = "back"
    /\ LET r == result[t]
       IN  /\ at' = [at EXCEPT ![t] = IF r.kind = "ok" THEN "out" ELSE "guest"]
           /\ rpc' = [rpc EXCEPT ![t] = CASE r.kind = "ok" -> @
                                          [] r.kind = "sleep" -> "dummy"
                                          [] r.kind = "wake" -> "cmd"
                                          [] OTHER -> r.kind]
           /\ asleep' = Sleepers(t, r)
           /\ overtaken' =
                 IF r.kind = "wake" /\ ~ asleep[r.thread] THEN overtaken \cup {r.thread}
                 ELSE overtaken
    /\ UNCHANGED <<msg, result, shmVars, secVars>>

\* handle_optee_get_shm_config: the first call asks the secure world and maps
\* the memory for the hypervisor, every call gives the VM its slice and maps
\* the whole of it for the VM (MapShm of Stage2).
GetShmConfig(v) ==
    /\ share[v] = {}
    /\ shm' = 0 .. ShmSize - 1
    /\ LET size == ShmSize \div NrClients
       IN  share' = [share EXCEPT ![v] = size * v .. size * (v + 1) - 1]
    /\ UNCHANGED <<at, medVars, result, secVars, overtaken>>

----------------------------------------------------------------------------
(* The secure world (external).                                            *)

Leave(t, kind, other) ==
    /\ at' = [at EXCEPT ![t] = "back"]
    /\ result' = [result EXCEPT ![t] = Result(kind, other)]
    /\ UNCHANGED <<medVars, shmVars, overtaken>>
Now(t, s) == sec' = [sec EXCEPT ![t] = s]

\* It asks for a message buffer first.
SecStart(t) ==
    /\ sec[t] = "start"
    /\ Now(t, "lock") /\ Leave(t, "alloc", None)
    /\ UNCHANGED <<holder, waiters, woken>>

\* It takes the mutex, or queues and asks to be put to sleep.
SecLock(t) ==
    /\ sec[t] = "lock"
    /\ \/ /\ holder = None
          /\ holder' = t /\ Now(t, "work")
          /\ UNCHANGED <<at, medVars, result, shmVars, waiters, woken, overtaken>>
       \/ /\ holder # None
          /\ waiters' = waiters \cup {t} /\ Now(t, "wait")
          /\ Leave(t, "sleep", None)
          /\ UNCHANGED <<holder, woken>>

\* Back from the sleep it tries again if it was woken, else sleeps again.
SecWait(t) ==
    /\ sec[t] = "wait"
    /\ \/ /\ t \in woken
          /\ woken' = woken \ {t} /\ Now(t, "lock")
          /\ UNCHANGED <<at, medVars, result, shmVars, holder, waiters, overtaken>>
       \/ /\ t \notin woken
          /\ Leave(t, "sleep", None)
          /\ UNCHANGED <<sec, holder, waiters, woken>>

\* With the mutex, some other RPC.
SecWork(t) ==
    /\ sec[t] = "work"
    /\ Now(t, "unlock") /\ Leave(t, "cmd", None)
    /\ UNCHANGED <<holder, waiters, woken>>

SecUnlock(t) ==
    /\ sec[t] = "unlock"
    /\ holder' = None /\ Now(t, "end")
    /\ \/ /\ waiters = {}
          /\ UNCHANGED <<at, medVars, result, shmVars, waiters, woken, overtaken>>
       \/ \E w \in waiters :
             /\ waiters' = waiters \ {w} /\ woken' = woken \cup {w}
             /\ Leave(t, "wake", w)

SecEnd(t) ==
    /\ \/ sec[t] = "end" /\ Now(t, "freed") /\ Leave(t, "free", None)
       \/ sec[t] = "freed" /\ Now(t, "idle") /\ Leave(t, "ok", None)
    /\ UNCHANGED <<holder, waiters, woken>>

Secure(t) ==
    /\ at[t] = "secure"
    /\ SecStart(t) \/ SecLock(t) \/ SecWait(t) \/ SecWork(t) \/ SecUnlock(t) \/ SecEnd(t)

OpteeNext ==
    \/ \E t \in Threads : CallWithArg(t) \/ ReturnFromRpc(t) \/ Secure(t) \/ AfterSmc(t)
    \/ \E v \in 0 .. NrClients - 1 : GetShmConfig(v)

\* The guest thread goes on with an RPC it has been given, which for a sleeper
\* means that it polls; it is scheduled again and again, but a pCPU may be
\* inside another handler meanwhile.  Handlers and the secure world go on.
OpteeFairness ==
    \A t \in Threads :
        SF_opteeVars(ReturnFromRpc(t)) /\ WF_opteeVars(Secure(t)) /\ WF_opteeVars(AfterSmc(t))

OpteeSpec == OpteeInit /\ [][OpteeNext]_opteeVars /\ OpteeFairness

----------------------------------------------------------------------------
(* Correctness.                                                            *)

\* The handler looks into the message of a thread only while there is one:
\* when it handles a command and when it lets a sleeper return (optee.c:83, 98).
MsgIsThere ==
    \A t \in Threads :
        \/ at[t] = "back" /\ result[t].kind \in {"cmd", "sleep", "wake"}
        \/ at[t] = "guest" /\ rpc[t] = "dummy"
        => msg[t]

\* A secure thread that waits for the mutex does not return from its sleep
\* before the holder has woken it, whoever drives the two threads: the flag
\* follows the wait queue of the secure world (optee.c:77).
NoEarlyReturn ==
    [][\A t \in Threads :
          ReturnFromRpc(t) /\ rpc[t] = "dummy" => t \in woken]_opteeVars

\* A thread that is woken does return - unless its waker's RPC was handled,
\* on another pCPU, before its own: then the sleep overwrites the wake, and
\* the guest polls for ever.
WokenReturns ==
    \A t \in Threads : t \in woken ~> (t \notin woken \/ t \in overtaken)
=============================================================================
