------------------------------ MODULE GuestProofs ------------------------------
(***************************************************************************)
(* What a guest can rely on whatever the others do to the hypervisor: its  *)
(* calls to the secure world return in order, its interrupts reach it, its *)
(* timer keeps to its deadline, it reads what it wrote.  For any number of *)
(* VMs, vCPUs, devices and secure threads, any memory map and any presets  *)
(* that the assumptions allow.                                             *)
(***************************************************************************)
EXTENDS GuestAccess, Stage2Proofs

----------------------------------------------------------------------------
(* The OP-TEE mediator finds a message where it looks for one, and lets no *)
(* sleeper return before it is woken.  The second needs to know what       *)
(* becomes of a wake on its way: a waker in its handler names a thread     *)
(* that has been woken, has not returned, and cannot return meanwhile, so  *)
(* that the flag which the handler clears is not that of a later sleep     *)
(* (WakeOnItsWay).                                                         *)

OpteeType ==
    /\ at \in [Threads -> Places]
    /\ rpc \in [Threads -> Kinds \cup {"none", "dummy"}]
    /\ asleep \in [Threads -> BOOLEAN] /\ msg \in [Threads -> BOOLEAN]
    /\ result \in [Threads -> [kind : Kinds, thread : Threads \cup {None}]]
    /\ sec \in [Threads -> {"idle", "start", "lock", "wait", "work", "unlock", "end", "freed"}]
    /\ waiters \subseteq Threads /\ woken \subseteq Threads

\* Which call a thread is in, by what it does in the secure world, what came
\* back from there, and whether it has a message.
InCall(t) ==
    \/ at[t] = "out" /\ sec[t] = "idle"
    \/ at[t] = "secure" /\ sec[t] \in {"start", "freed"}
    \/ at[t] = "secure" /\ sec[t] \in {"lock", "wait", "work", "unlock", "end"} /\ msg[t]
    \/ at[t] = "back" /\
          \/ sec[t] = "lock" /\ result[t].kind = "alloc"
          \/ sec[t] = "wait" /\ result[t].kind = "sleep" /\ msg[t]
          \/ sec[t] = "unlock" /\ result[t].kind = "cmd" /\ msg[t]
          \/ sec[t] = "end" /\ result[t].kind = "wake" /\ msg[t]
          \/ sec[t] = "freed" /\ result[t].kind = "free"
          \/ sec[t] = "idle" /\ result[t].kind = "ok"
    \/ at[t] = "guest" /\
          \/ sec[t] = "lock" /\ rpc[t] = "alloc"
          \/ sec[t] = "wait" /\ rpc[t] = "dummy" /\ msg[t]
          \/ sec[t] \in {"unlock", "end"} /\ rpc[t] = "cmd" /\ msg[t]
          \/ sec[t] = "freed" /\ rpc[t] = "free"

\* A thread that waits is in the queue of the mutex or taken off it, and while
\* it is in the queue it is, or will be, asleep.
Waits(t) ==
    /\ t \in waiters \cup woken <=> sec[t] = "wait"
    /\ ~ (t \in waiters /\ t \in woken)
    /\ t \in waiters => at[t] # "secure" /\ (at[t] = "guest" => asleep[t])

Waking(u, t) == at[u] = "back" /\ result[u].kind = "wake" /\ result[u].thread = t

WakeOnItsWay ==
    \A u, t \in Threads : Waking(u, t) =>
        /\ t \in woken /\ at[t] # "secure"
        /\ at[t] = "guest" => asleep[t]
        /\ \A w \in Threads : Waking(w, t) => w = u

OpteeInv ==
    /\ OpteeType
    /\ \A t \in Threads : InCall(t) /\ Waits(t)
    /\ WakeOnItsWay
    /\ \A u \in Threads : at[u] = "back" /\ result[u].kind = "wake" => result[u].thread \in Threads

----------------------------------------------------------------------------

\* No thread is in a call.
LEMMA OpteeStart == OpteeInit => OpteeInv
  BY DEF OpteeInit, OpteeInv, OpteeType, Places, Kinds, Result, InCall, Waits, Waking, WakeOnItsWay

\* A new call is in no queue.
LEMMA CallStep == ASSUME OpteeInv, NEW t \in Threads, CallWithArg(t) PROVE OpteeInv'
  BY DEF CallWithArg, medVars, shmVars, OpteeInv, OpteeType, Places, Kinds, InCall, Waits, Waking, WakeOnItsWay

\* A thread that is let through has been woken, and no wake is on its way to it.
LEMMA ReturnStep == ASSUME OpteeInv, NEW t \in Threads, ReturnFromRpc(t) PROVE OpteeInv'
<1>1. /\ at[t] = "guest" /\ ~ (rpc[t] = "dummy" /\ asleep[t])
      /\ at' = [at EXCEPT ![t] = "secure"] /\ msg' = [msg EXCEPT ![t] = MsgAfter(t)]
      /\ rpc' = [rpc EXCEPT ![t] = "none"]
      /\ UNCHANGED <<asleep, result, sec, waiters, woken>>
  BY DEF ReturnFromRpc, MayReturn, secVars
<1>2. /\ \A x \in Threads : x # t => at'[x] = at[x] /\ rpc'[x] = rpc[x] /\ msg'[x] = msg[x]
      /\ at'[t] = "secure" /\ msg'[t] = MsgAfter(t)
  BY <1>1 DEF OpteeInv, OpteeType
<1>3. OpteeType'
  BY <1>1 DEF OpteeInv, OpteeType, MsgAfter, Places
<1>4. \A x \in Threads : InCall(x)'
  <2>1. ASSUME NEW x \in Threads, x # t PROVE InCall(x)'
    BY <1>1, <1>2, <2>1 DEF OpteeInv, InCall
  <2>2. InCall(t)'
    BY <1>1, <1>2 DEF OpteeInv, InCall, MsgAfter
  <2> QED
    BY <2>1, <2>2
<1>5. t \notin waiters
  BY <1>1 DEF OpteeInv, InCall, Waits
<1>6. \A x \in Threads : Waits(x)'
  BY <1>1, <1>2, <1>5 DEF OpteeInv, Waits
<1>7. \A u, x \in Threads : Waking(u, x)' => Waking(u, x) /\ x # t
  <2> SUFFICES ASSUME NEW u \in Threads, NEW x \in Threads, Waking(u, x)' PROVE Waking(u, x) /\ x # t
    OBVIOUS
  <2>1. Waking(u, x)
    BY <1>1, <1>2 DEF Waking
  <2>2. x \in woken /\ (at[x] = "guest" => asleep[x])
    BY <2>1 DEF OpteeInv, WakeOnItsWay
  <2>3. x # t
    BY <1>1, <2>2 DEF OpteeInv, InCall, Waits
  <2> QED
    BY <2>1, <2>3
<1>8. WakeOnItsWay'
  BY <1>1, <1>2, <1>7 DEF OpteeInv, WakeOnItsWay
<1>9. \A u \in Threads : (at[u] = "back" /\ result[u].kind = "wake" => result[u].thread \in Threads)'
  BY <1>1, <1>2 DEF OpteeInv
<1> QED
  BY <1>3, <1>4, <1>6, <1>8, <1>9 DEF OpteeInv

\* Handling a result wakes a sleeper, puts the thread to sleep or neither.
LEMMA AfterStep == ASSUME OpteeInv, NEW t \in Threads, AfterSmc(t) PROVE OpteeInv'
<1> DEFINE r == result[t]
<1>1. /\ at[t] = "back" /\ r.kind \in Kinds
      /\ at' = [at EXCEPT ![t] = IF r.kind = "ok" THEN "out" ELSE "guest"]
      /\ asleep' = Sleepers(t, r)
      /\ UNCHANGED <<msg, result, sec, waiters, woken>>
  <2>1. r.kind \in Kinds
    BY DEF OpteeInv, OpteeType
  <2>2. UNCHANGED <<msg, result, sec, waiters, woken>>
    BY DEF AfterSmc, secVars
  <2>3. /\ at[t] = "back" /\ asleep' = Sleepers(t, r)
        /\ at' = [at EXCEPT ![t] = IF r.kind = "ok" THEN "out" ELSE "guest"]
    BY DEF AfterSmc
  <2> QED
    BY <2>1, <2>2, <2>3
<1>2. \A x \in Threads : x # t => at'[x] = at[x] /\ rpc'[x] = rpc[x]
  BY <1>1 DEF AfterSmc, OpteeInv, OpteeType
<1>3. /\ at'[t] = IF r.kind = "ok" THEN "out" ELSE "guest"
      /\ r.kind = "sleep" => rpc'[t] = "dummy"
      /\ r.kind = "wake" => rpc'[t] = "cmd"
      /\ r.kind \in {"alloc", "free", "cmd"} => rpc'[t] = r.kind
  BY <1>1 DEF AfterSmc, OpteeInv, OpteeType
<1>4. /\ r.kind = "sleep" => asleep' = [asleep EXCEPT ![t] = TRUE]
      /\ r.kind = "wake" => r.thread \in Threads /\ asleep' = [asleep EXCEPT ![r.thread] = FALSE]
      /\ r.kind \notin {"sleep", "wake"} => asleep' = asleep
  BY <1>1 DEF Sleepers, OpteeInv
<1>5. OpteeType'
  <2>1. rpc' \in [Threads -> Kinds \cup {"none", "dummy"}]
    BY DEF AfterSmc, OpteeInv, OpteeType, Kinds
  <2>2. asleep' \in [Threads -> BOOLEAN]
    BY <1>4 DEF OpteeInv, OpteeType
  <2> QED
    BY <1>1, <2>1, <2>2 DEF OpteeInv, OpteeType, Places
<1>6. \A x \in Threads : InCall(x)'
  <2>1. ASSUME NEW x \in Threads, x # t PROVE InCall(x)'
    BY <1>1, <1>2, <2>1 DEF OpteeInv, InCall
  <2>2. InCall(t)'
    BY <1>1, <1>3 DEF OpteeInv, InCall, Kinds
  <2> QED
    BY <2>1, <2>2
<1>7. \A x \in Threads : x \in waiters => x # t \/ r.kind = "sleep"
  BY <1>1 DEF OpteeInv, InCall, Waits
<1>8. \A x \in Threads : Waits(x)'
  <2>1. ASSUME NEW x \in Threads, x # t PROVE Waits(x)'
    <3>1. Waits(x) /\ (r.kind = "wake" /\ r.thread = x => x \in woken)
      BY <1>1 DEF OpteeInv, WakeOnItsWay, Waking
    <3>2. x \in waiters => asleep'[x] = asleep[x]
      BY <1>4, <2>1, <3>1 DEF Waits, OpteeInv, OpteeType
    <3> QED
      BY <1>1, <1>2, <2>1, <3>1, <3>2 DEF Waits
  <2>2. Waits(t)'
    <3>1. Waits(t)
      BY DEF OpteeInv
    <3>2. t \in waiters => at'[t] = "guest" /\ asleep'[t]
      BY <1>3, <1>4, <1>7 DEF OpteeInv, OpteeType
    <3> QED
      BY <1>1, <3>1, <3>2 DEF Waits
  <2> QED
    BY <2>1, <2>2
<1>9. ASSUME NEW u \in Threads, NEW x \in Threads, Waking(u, x)' PROVE Waking(u, x) /\ u # t
  BY <1>1, <1>2, <1>3, <1>9 DEF Waking
<1>10. WakeOnItsWay'
  <2> SUFFICES ASSUME NEW u \in Threads, NEW x \in Threads, Waking(u, x)'
               PROVE  /\ x \in woken' /\ at'[x] # "secure"
                      /\ at'[x] = "guest" => asleep'[x]
                      /\ \A w \in Threads : Waking(w, x)' => w = u
    BY DEF WakeOnItsWay
  <2>1. Waking(u, x) /\ u # t
    BY <1>9
  <2>2. /\ x \in woken /\ at[x] # "secure" /\ (at[x] = "guest" => asleep[x])
        /\ \A w \in Threads : Waking(w, x) => w = u
    BY <2>1 DEF OpteeInv, WakeOnItsWay
  <2>3. ~ (r.kind = "wake" /\ r.thread = x)
    BY <1>1, <2>1, <2>2 DEF Waking
  <2>4. x = t => r.kind = "sleep"
    BY <1>1, <2>2 DEF OpteeInv, InCall, Waits
  <2>5. at'[x] # "secure" /\ (at'[x] = "guest" => asleep'[x])
    <3>1. CASE x = t
      BY <1>3, <1>4, <2>4, <3>1 DEF OpteeInv, OpteeType
    <3>2. CASE x # t
      BY <1>2, <1>4, <2>2, <2>3, <3>2 DEF OpteeInv, OpteeType
    <3> QED
      BY <3>1, <3>2
  <2> QED
    BY <1>1, <1>9, <2>2, <2>5
<1>11. \A u \in Threads : (at[u] = "back" /\ result[u].kind = "wake" => result[u].thread \in Threads)'
  BY <1>1, <1>2, <1>3 DEF OpteeInv
<1> QED
  BY <1>5, <1>6, <1>8, <1>10, <1>11 DEF OpteeInv

\* Taking the mutex, or queueing for it.
LEMMA LockStep == ASSUME OpteeInv, NEW t \in Threads, at[t] = "secure", SecLock(t) PROVE OpteeInv'
<1> USE DEF medVars, shmVars, Now
<1>1. sec[t] = "lock" /\ msg[t] /\ t \notin waiters /\ t \notin woken
  BY DEF SecLock, OpteeInv, InCall, Waits
<1>2. CASE UNCHANGED <<at, rpc, asleep, msg, result, waiters, woken>> /\ sec' = [sec EXCEPT ![t] = "work"]
  BY <1>1, <1>2 DEF OpteeInv, OpteeType, InCall, Waits, Waking, WakeOnItsWay
<1>3. CASE /\ UNCHANGED <<rpc, asleep, msg, woken>> /\ sec' = [sec EXCEPT ![t] = "wait"]
           /\ waiters' = waiters \cup {t} /\ Leave(t, "sleep", None)
  <2>1. /\ \A x \in Threads : x # t => at'[x] = at[x] /\ sec'[x] = sec[x] /\ result'[x] = result[x]
        /\ at'[t] = "back" /\ sec'[t] = "wait" /\ result'[t].kind = "sleep"
    BY <1>3 DEF Leave, Result, OpteeInv, OpteeType
  <2>2. OpteeType'
    BY <1>3 DEF Leave, Result, OpteeInv, OpteeType, Places, Kinds
  <2>3. \A x \in Threads : InCall(x)'
    BY <1>1, <1>3, <2>1 DEF OpteeInv, InCall
  <2>4. \A x \in Threads : Waits(x)'
    BY <1>1, <1>3, <2>1 DEF OpteeInv, Waits
  <2>5. \A u, x \in Threads : Waking(u, x)' => Waking(u, x) /\ x # t
    BY <1>1, <2>1 DEF OpteeInv, Waking, WakeOnItsWay
  <2>6. WakeOnItsWay'
    BY <1>3, <2>1, <2>5 DEF OpteeInv, WakeOnItsWay
  <2> QED
    BY <2>1, <2>2, <2>3, <2>4, <2>6 DEF OpteeInv
<1> QED
  BY <1>2, <1>3 DEF SecLock, Leave

\* Giving the mutex back, and telling which of the waiting threads is woken.
LEMMA UnlockStep == ASSUME OpteeInv, NEW t \in Threads, at[t] = "secure", SecUnlock(t) PROVE OpteeInv'
<1> USE DEF medVars, shmVars, Now
<1>1. sec[t] = "unlock" /\ msg[t] /\ t \notin waiters /\ t \notin woken
  BY DEF SecUnlock, OpteeInv, InCall, Waits
<1>2. CASE UNCHANGED <<at, rpc, asleep, msg, result, waiters, woken>> /\ sec' = [sec EXCEPT ![t] = "end"]
  BY <1>1, <1>2 DEF OpteeInv, OpteeType, InCall, Waits, Waking, WakeOnItsWay
<1>3. ASSUME NEW w \in waiters,
             UNCHANGED <<rpc, asleep, msg>>, sec' = [sec EXCEPT ![t] = "end"],
             waiters' = waiters \ {w}, woken' = woken \cup {w}, Leave(t, "wake", w)
      PROVE  OpteeInv'
  <2>1. /\ \A x \in Threads : x # t => at'[x] = at[x] /\ sec'[x] = sec[x] /\ result'[x] = result[x]
        /\ at'[t] = "back" /\ sec'[t] = "end" /\ result'[t].kind = "wake" /\ result'[t].thread = w
    BY <1>3 DEF Leave, Result, OpteeInv, OpteeType
  <2>2. /\ w \in Threads /\ w # t /\ w \notin woken
        /\ at[w] # "secure" /\ (at[w] = "guest" => asleep[w])
    BY <1>1 DEF OpteeInv, OpteeType, Waits
  <2>3. OpteeType'
    BY <1>3, <2>2 DEF Leave, Result, OpteeInv, OpteeType, Places, Kinds
  <2>4. \A x \in Threads : InCall(x)'
    BY <1>1, <1>3, <2>1 DEF OpteeInv, InCall
  <2>5. \A x \in Threads : Waits(x)'
    BY <1>1, <1>3, <2>1, <2>2 DEF OpteeInv, Waits
  <2>6. \A u, x \in Threads : Waking(u, x)' => (u = t /\ x = w) \/ (u # t /\ x # w /\ Waking(u, x))
    BY <2>1, <2>2 DEF OpteeInv, Waking, WakeOnItsWay
  <2>7. ASSUME NEW u \in Threads, NEW x \in Threads, Waking(u, x)'
        PROVE  /\ x \in woken' /\ at'[x] # "secure" /\ (at'[x] = "guest" => asleep'[x])
               /\ \A v \in Threads : Waking(v, x)' => v = u
    <3>1. CASE u = t /\ x = w
      BY <1>3, <2>1, <2>2, <2>6, <3>1
    <3>2. CASE u # t /\ x # w /\ Waking(u, x)
      <4>1. /\ x \in woken /\ at[x] # "secure" /\ (at[x] = "guest" => asleep[x])
            /\ \A v \in Threads : Waking(v, x) => v = u
        BY <3>2 DEF OpteeInv, WakeOnItsWay
      <4> QED
        BY <1>3, <2>1, <2>6, <3>2, <4>1
    <3> QED
      BY <2>6, <2>7, <3>1, <3>2
  <2>8. WakeOnItsWay'
    BY <2>7 DEF WakeOnItsWay
  <2>9. \A u \in Threads : (at[u] = "back" /\ result[u].kind = "wake" => result[u].thread \in Threads)'
    BY <2>1, <2>2 DEF OpteeInv
  <2> QED
    BY <2>3, <2>4, <2>5, <2>8, <2>9 DEF OpteeInv
<1> QED
  BY <1>2, <1>3 DEF SecUnlock, Leave

\* A result that neither wakes nor puts to sleep.
LEMMA LeaveStep ==
  ASSUME OpteeInv, NEW t \in Threads, at[t] = "secure", sec[t] # "wait",
         NEW kind \in Kinds \ {"sleep", "wake"}, Leave(t, kind, None),
         NEW s \in {"idle", "lock", "unlock", "freed"}, sec' = [sec EXCEPT ![t] = s],
         UNCHANGED <<waiters, woken>>,
         \/ s = "lock" /\ kind = "alloc"
         \/ s = "unlock" /\ kind = "cmd" /\ msg[t]
         \/ s = "freed" /\ kind = "free"
         \/ s = "idle" /\ kind = "ok"
  PROVE  OpteeInv'
<1>1. UNCHANGED <<rpc, asleep, msg>>
  BY DEF Leave, medVars
<1>2. /\ \A x \in Threads : x # t => at'[x] = at[x] /\ sec'[x] = sec[x] /\ result'[x] = result[x]
      /\ at'[t] = "back" /\ sec'[t] = s /\ result'[t].kind = kind
  BY DEF Leave, Result, OpteeInv, OpteeType
<1>3. OpteeType'
  BY <1>1 DEF Leave, Result, OpteeInv, OpteeType, Places
<1>4. \A x \in Threads : InCall(x)'
  BY <1>1, <1>2 DEF OpteeInv, InCall
<1>5. \A x \in Threads : Waits(x)'
  BY <1>1, <1>2 DEF OpteeInv, Waits
<1>6. \A u, x \in Threads : Waking(u, x)' => Waking(u, x) /\ u # t /\ x # t
  BY <1>2 DEF OpteeInv, Waking, WakeOnItsWay
<1>7. WakeOnItsWay'
  BY <1>1, <1>2, <1>6 DEF OpteeInv, WakeOnItsWay
<1>8. \A u \in Threads : (at[u] = "back" /\ result[u].kind = "wake" => result[u].thread \in Threads)'
  BY <1>2 DEF OpteeInv
<1> QED
  BY <1>3, <1>4, <1>5, <1>7, <1>8 DEF OpteeInv

\* Back from the sleep: on to the mutex if woken, else to sleep again.
LEMMA WaitStep == ASSUME OpteeInv, NEW t \in Threads, at[t] = "secure", SecWait(t) PROVE OpteeInv'
<1>1. sec[t] = "wait"
  BY DEF SecWait
<1>2. ASSUME t \in woken, woken' = woken \ {t}, Now(t, "lock"),
             UNCHANGED <<at, medVars, result, shmVars, holder, waiters, overtaken>>
      PROVE  OpteeInv'
  <2>1. /\ \A x \in Threads : x # t => sec'[x] = sec[x] /\ (x \in woken' <=> x \in woken)
        /\ sec'[t] = "lock" /\ t \notin woken' /\ t \notin waiters
        /\ UNCHANGED <<at, rpc, asleep, msg, result, waiters>>
    BY <1>2 DEF Now, medVars, OpteeInv, OpteeType, Waits
  <2>2. OpteeType'
    BY <1>2, <2>1 DEF Now, OpteeInv, OpteeType
  <2>3. \A x \in Threads : InCall(x)' /\ Waits(x)'
    BY <1>1, <2>1 DEF OpteeInv, InCall, Waits
  <2>4. \A u, x \in Threads : Waking(u, x)' <=> Waking(u, x)
    BY <2>1 DEF Waking
  <2>5. WakeOnItsWay'
    BY <2>1, <2>4 DEF OpteeInv, WakeOnItsWay
  <2>6. \A u \in Threads : (at[u] = "back" /\ result[u].kind = "wake" => result[u].thread \in Threads)'
    BY <2>1 DEF OpteeInv
  <2> QED
    BY <2>2, <2>3, <2>5, <2>6 DEF OpteeInv
<1>3. ASSUME t \notin woken, Leave(t, "sleep", None), UNCHANGED <<sec, holder, waiters, woken>>
      PROVE  OpteeInv'
  <2>1. /\ \A x \in Threads : x # t => at'[x] = at[x] /\ result'[x] = result[x]
        /\ at'[t] = "back" /\ result'[t].kind = "sleep"
        /\ UNCHANGED <<rpc, asleep, msg, sec, waiters, woken>>
    BY <1>3 DEF Leave, Result, medVars, OpteeInv, OpteeType
  <2>2. OpteeType'
    BY <1>3, <2>1 DEF Leave, Result, OpteeInv, OpteeType, Places, Kinds
  <2>3. \A x \in Threads : InCall(x)'
    BY <1>1, <2>1 DEF OpteeInv, InCall
  <2>4. \A x \in Threads : Waits(x)'
    BY <2>1 DEF OpteeInv, Waits
  <2>5. \A u, x \in Threads : Waking(u, x)' => Waking(u, x) /\ u # t
    BY <2>1 DEF Waking
  <2>6. WakeOnItsWay'
    BY <1>3, <2>1, <2>5 DEF OpteeInv, WakeOnItsWay
  <2>7. \A u \in Threads : (at[u] = "back" /\ result[u].kind = "wake" => result[u].thread \in Threads)'
    BY <2>1 DEF OpteeInv
  <2> QED
    BY <2>2, <2>3, <2>4, <2>6, <2>7 DEF OpteeInv
<1> QED
  BY <1>2, <1>3 DEF SecWait

\* Each step of the secure world.
LEMMA SecureStep == ASSUME OpteeInv, NEW t \in Threads, Secure(t) PROVE OpteeInv'
<1>1. at[t] = "secure" /\ InCall(t)
  BY DEF Secure, OpteeInv
<1> USE DEF Now, Kinds
<1>2. CASE SecStart(t)
  BY <1>1, <1>2, LeaveStep DEF SecStart
<1>3. CASE SecLock(t)
  BY <1>1, <1>3, LockStep
<1>4. CASE SecWait(t)
  BY <1>1, <1>4, WaitStep
<1>5. CASE SecWork(t)
  BY <1>1, <1>5, LeaveStep DEF SecWork, InCall
<1>6. CASE SecUnlock(t)
  BY <1>1, <1>6, UnlockStep
<1>7. CASE SecEnd(t)
  BY <1>1, <1>7, LeaveStep DEF SecEnd
<1> QED
  BY <1>2, <1>3, <1>4, <1>5, <1>6, <1>7 DEF Secure

\* Every step keeps the invariant.
LEMMA OpteeStep == OpteeInv /\ [OpteeNext]_opteeVars => OpteeInv'
<1> SUFFICES ASSUME OpteeInv, [OpteeNext]_opteeVars PROVE OpteeInv'
  OBVIOUS
<1>1. CASE UNCHANGED <<at, rpc, asleep, msg, result, sec, waiters, woken>>
  BY <1>1 DEF OpteeInv, OpteeType, InCall, Waits, Waking, WakeOnItsWay
<1>2. CASE UNCHANGED opteeVars
  BY <1>1, <1>2 DEF opteeVars, medVars, secVars
<1>3. ASSUME NEW v \in 0 .. NrClients - 1, GetShmConfig(v) PROVE OpteeInv'
  BY <1>1, <1>3 DEF GetShmConfig, medVars, secVars
<1> QED
  BY <1>2, <1>3, CallStep, ReturnStep, AfterStep, SecureStep DEF OpteeNext

\* The invariant holds in every reachable state.
LEMMA Invariant == OpteeSpec => []OpteeInv
  BY OpteeStart, OpteeStep, PTL DEF OpteeSpec

\* Whenever handle_optee_rpc looks into the message of a thread, and whenever
\* handle_optee_return_from_rpc makes a sleeper wait again, that thread has one.
THEOREM MessageIsThere == OpteeSpec => []MsgIsThere
<1>1. OpteeInv => MsgIsThere
  BY DEF OpteeInv, InCall, MsgIsThere
<1> QED
  BY <1>1, Invariant, PTL

\* A thread is let through from its sleep only after the secure world has
\* taken it off the wait queue of the mutex.
THEOREM NoSleeperReturnsEarly == OpteeSpec => NoEarlyReturn
<1>1. ASSUME OpteeInv, NEW t \in Threads, ReturnFromRpc(t), rpc[t] = "dummy" PROVE t \in woken
  <2>1. at[t] = "guest" /\ ~ asleep[t] /\ InCall(t) /\ Waits(t)
    BY <1>1 DEF ReturnFromRpc, MayReturn, OpteeInv
  <2>2. sec[t] = "wait" /\ t \notin waiters
    BY <1>1, <2>1 DEF InCall, Waits
  <2> QED
    BY <2>1, <2>2 DEF Waits
<1>2. OpteeInv => [\A t \in Threads : ReturnFromRpc(t) /\ rpc[t] = "dummy" => t \in woken]_opteeVars
  BY <1>1
<1> QED
  BY <1>2, Invariant, PTL DEF NoEarlyReturn


----------------------------------------------------------------------------
(* Routing of interrupts.  EnabledIsRouted is not inductive: set_enable    *)
(* takes the pirq from the map, or the number of the virq itself.  That    *)
(* this overwrites no entry that another interrupt needs follows from the  *)
(* two directions of the map agreeing (MapAgrees) and from no virq having  *)
(* the number of another's pirq (OwnNumber).                               *)

MapType ==
    /\ executing \in {0, 1} /\ copied \in BOOLEAN
    /\ virqOf \in [Cores -> [Lines -> Virqs \cup {Invalid}]]
    /\ pirqOf \in [Cores -> [Lines -> Lines \cup {Invalid}]]
    /\ isen \in [Banks -> SUBSET Virqs]
    /\ gicOn \subseteq Lines

\* The pirq of an interrupt leads back to it.
MapAgrees ==
    \A c \in Cores, irq \in Lines :
        pirqOf[c][irq] # Invalid => virqOf[c][pirqOf[c][irq]] = irq

\* A pirq with the number of a virq belongs to that virq.
OwnNumber ==
    \A c \in Cores, irq \in Lines :
        pirqOf[c][irq] \in Virqs => pirqOf[c][irq] = irq

\* What is on for the guest has a pirq, which is on in the distributor.
OnIsOn ==
    \A c \in Cores, irq \in Virqs :
        On(c, irq) => pirqOf[Asked(c, irq)][irq] \in gicOn

\* Before a snapshot, a pirq is the line of the VM's own device, and what has
\* none yet has no preset.
HasPreset(v, irq) == \E a \in Preset[v] : a[2] = irq
OwnLine ==
    ~ copied => \A c \in Cores, irq \in Virqs :
        IF pirqOf[c][irq] = Invalid THEN ~ HasPreset(c[1], irq)
        ELSE pirqOf[c][irq] = Wired(c[1], irq)

RouteInv == MapType /\ MapAgrees /\ OwnNumber /\ OnIsOn /\ OwnLine

----------------------------------------------------------------------------

\* A vCPU is its VM and its index there.
LEMMA CoreParts ==
    ASSUME NEW c \in Cores
    PROVE  /\ c = <<c[1], c[2]>> /\ c[1] \in {0, 1} /\ c[2] \in 0 .. NumVcpus - 1
           /\ \A v \in {0, 1} : <<v, c[2]>> \in Cores /\ <<v, 0>> \in Cores
  BY VGicdAssumption DEF Cores

\* Every vCPU has a register for each interrupt.
LEMMA BankType == ASSUME NEW c \in Cores, NEW irq PROVE Bank(c, irq) \in Banks
  BY CoreParts DEF Bank, Banks

\* The vCPU asked for an interrupt is one of the same VM.
LEMMA AskedType ==
    ASSUME NEW c \in Cores, NEW irq
    PROVE  Asked(c, irq) \in Cores /\ Asked(c, irq)[1] = c[1]
  BY CoreParts DEF Asked

\* A preset names lines, and no number for two interrupts.
LEMMA PresetFacts ==
    ASSUME NEW v \in {0, 1}, NEW a \in Preset[v]
    PROVE  /\ a[1] \in Lines /\ a[2] \in Virqs /\ a[1] # Invalid /\ a[2] # Invalid
           /\ a[1] \in Virqs => a[1] = a[2]
           /\ \A b \in Preset[v] : a[1] = b[1] \/ a[2] = b[2] => a = b
<1>1. a[1] \in Lines /\ a[2] \in Lines
  BY VGicdAssumption DEF Lines
<1> QED
  BY <1>1, VGicdAssumption

----------------------------------------------------------------------------

\* The maps that vcpu_init makes.
LEMMA RouteInit == GicdInit => RouteInv
<1> SUFFICES ASSUME GicdInit PROVE RouteInv
  OBVIOUS
<1> USE DEF GicdInit
<1>1. ASSUME NEW c \in Cores, NEW q \in Lines
      PROVE  \/ /\ virqOf[c][q] = Invalid
                /\ \A a \in Preset[c[1]] : a[1] # q
             \/ \E a \in Preset[c[1]] : a[1] = q /\ virqOf[c][q] = a[2]
  <2>1. CASE \E a \in Preset[c[1]] : a[1] = q
    <3> DEFINE a == CHOOSE x \in Preset[c[1]] : x[1] = q
    <3>1. a \in Preset[c[1]] /\ a[1] = q
      BY <2>1
    <3>2. virqOf[c][q] = a[2]
      BY <2>1
    <3> QED
      BY <3>1, <3>2
  <2>2. CASE ~ \E a \in Preset[c[1]] : a[1] = q
    BY <2>2
  <2> QED
    BY <2>1, <2>2
<1>2. ASSUME NEW c \in Cores, NEW irq \in Lines
      PROVE  \/ /\ pirqOf[c][irq] = Invalid
                /\ ~ HasPreset(c[1], irq)
             \/ \E a \in Preset[c[1]] :
                   /\ a[2] = irq /\ pirqOf[c][irq] = a[1]
                   /\ Wired(c[1], irq) = a[1]
  <2>1. CASE HasPreset(c[1], irq)
    <3> DEFINE a == CHOOSE x \in Preset[c[1]] : x[2] = irq
    <3>1. a \in Preset[c[1]] /\ a[2] = irq
      BY <2>1 DEF HasPreset
    <3>2. pirqOf[c][irq] = a[1] /\ Wired(c[1], irq) = a[1]
      BY <2>1 DEF HasPreset, Wired
    <3> QED
      BY <3>1, <3>2
  <2>2. CASE ~ HasPreset(c[1], irq)
    BY <2>2 DEF HasPreset
  <2> QED
    BY <2>1, <2>2
<1>3. \A c \in Cores : c[1] \in {0, 1}
  BY CoreParts
<1>4. MapType
  <2>1. virqOf \in [Cores -> [Lines -> Virqs \cup {Invalid}]]
    <3>1. \A c \in Cores, q \in Lines : virqOf[c][q] \in Virqs \cup {Invalid}
      BY <1>1, <1>3, PresetFacts
    <3>2. virqOf = [c \in Cores |-> [q \in Lines |-> virqOf[c][q]]]
      OBVIOUS
    <3> QED
      BY <3>1, <3>2
  <2>2. pirqOf \in [Cores -> [Lines -> Lines \cup {Invalid}]]
    <3>1. \A c \in Cores, q \in Lines : pirqOf[c][q] \in Lines \cup {Invalid}
      BY <1>2, <1>3, PresetFacts
    <3>2. pirqOf = [c \in Cores |-> [q \in Lines |-> pirqOf[c][q]]]
      OBVIOUS
    <3> QED
      BY <3>1, <3>2
  <2> QED
    BY <2>1, <2>2 DEF MapType
<1>5. MapAgrees
  <2> SUFFICES ASSUME NEW c \in Cores, NEW irq \in Lines, pirqOf[c][irq] # Invalid
               PROVE  virqOf[c][pirqOf[c][irq]] = irq
    BY DEF MapAgrees
  <2>1. PICK a \in Preset[c[1]] : a[2] = irq /\ pirqOf[c][irq] = a[1]
    BY <1>2
  <2>2. a[1] \in Lines
    BY <1>3, PresetFacts
  <2>3. PICK b \in Preset[c[1]] : b[1] = a[1] /\ virqOf[c][a[1]] = b[2]
    BY <1>1, <2>2
  <2>4. a = b
    BY <1>3, <2>3, PresetFacts
  <2> QED
    BY <2>1, <2>3, <2>4
<1>6. OwnNumber
  <2> SUFFICES ASSUME NEW c \in Cores, NEW irq \in Lines, pirqOf[c][irq] \in Virqs
               PROVE  pirqOf[c][irq] = irq
    BY DEF OwnNumber
  <2>1. pirqOf[c][irq] # Invalid
    BY VGicdAssumption DEF Lines
  <2> QED
    BY <1>2, <1>3, <2>1, PresetFacts
<1>7. OnIsOn
  BY BankType DEF OnIsOn, On
<1>8. OwnLine
  <2> SUFFICES ASSUME NEW c \in Cores, NEW irq \in Virqs
               PROVE  IF pirqOf[c][irq] = Invalid THEN ~ HasPreset(c[1], irq)
                      ELSE pirqOf[c][irq] = Wired(c[1], irq)
    BY DEF OwnLine
  <2>1. irq \in Lines
    BY DEF Lines
  <2> HIDE DEF GicdInit
  <2>2. \A a \in Preset[c[1]] : a[1] # Invalid
    BY <1>3, PresetFacts
  <2> QED
    BY <1>2, <2>1, <2>2
<1> QED
  BY <1>4, <1>5, <1>6, <1>7, <1>8 DEF RouteInv

----------------------------------------------------------------------------

\* One bit that set_enable finds changed.
LEMMA EnableStep ==
    ASSUME RouteInv, NEW c0 \in Cores, NEW irq0 \in Virqs, Enable(c0, irq0),
           irq0 \notin isen[Bank(c0, irq0)]
    PROVE  RouteInv'
<1> DEFINE q == PirqFor(c0, irq0)
<1>1. /\ pirqOf' = [pirqOf EXCEPT ![c0][irq0] = q]
      /\ virqOf' = [virqOf EXCEPT ![c0][q] = irq0]
      /\ isen' = [isen EXCEPT ![Bank(c0, irq0)] = @ \cup {irq0}]
      /\ gicOn' = gicOn \cup {q}
      /\ elsewhere' = IF c0[2] # 0 /\ irq0 \notin Banked
                      THEN elsewhere \cup {<<c0[1], irq0>>} ELSE elsewhere
      /\ UNCHANGED <<executing, copied>>
  BY DEF Enable
<1>2. MapType /\ MapAgrees /\ OwnNumber /\ OnIsOn /\ OwnLine
  BY DEF RouteInv
<1>3. irq0 \in Lines /\ irq0 # Invalid
  BY VGicdAssumption DEF Lines
<1>4. /\ q \in Lines /\ q # Invalid
      /\ pirqOf[c0][irq0] \in {q, Invalid}
      /\ pirqOf[c0][irq0] = Invalid => q = irq0
  BY <1>2, <1>3, VGicdAssumption DEF PirqFor, MapType
<1> HIDE DEF q
<1>5. /\ \A c \in Cores, x \in Lines :
            pirqOf'[c][x] = IF c = c0 /\ x = irq0 THEN q ELSE pirqOf[c][x]
      /\ \A c \in Cores, x \in Lines :
            virqOf'[c][x] = IF c = c0 /\ x = q THEN irq0 ELSE virqOf[c][x]
  BY <1>1, <1>2, <1>3, <1>4 DEF MapType
<1>6. MapType'
  <2>1. pirqOf' \in [Cores -> [Lines -> Lines \cup {Invalid}]]
    BY <1>1, <1>2, <1>3, <1>4 DEF MapType
  <2>2. virqOf' \in [Cores -> [Lines -> Virqs \cup {Invalid}]]
    BY <1>1, <1>2, <1>3, <1>4 DEF MapType
  <2>3. isen' \in [Banks -> SUBSET Virqs]
    BY <1>1, <1>2, BankType DEF MapType
  <2> QED
    BY <1>1, <1>2, <1>4, <2>1, <2>2, <2>3 DEF MapType
<1>7. MapAgrees'
  <2> SUFFICES ASSUME NEW c \in Cores, NEW x \in Lines, pirqOf'[c][x] # Invalid
               PROVE  virqOf'[c][pirqOf'[c][x]] = x
    BY DEF MapAgrees
  <2>1. CASE c = c0 /\ x = irq0
    BY <1>4, <1>5, <2>1
  <2>2. CASE ~ (c = c0 /\ x = irq0)
    <3>1. pirqOf'[c][x] = pirqOf[c][x] /\ pirqOf[c][x] \in Lines
      BY <1>2, <1>5, <2>2 DEF MapType
    <3>2. virqOf[c][pirqOf[c][x]] = x
      BY <1>2, <3>1 DEF MapAgrees
    <3>3. c = c0 => pirqOf[c][x] # q
      <4> SUFFICES ASSUME c = c0, pirqOf[c0][x] = q
                   PROVE  x = irq0
        BY <2>2
      <4>1. CASE pirqOf[c0][irq0] = q
        BY <1>2, <1>3, <1>4, <4>1 DEF MapAgrees
      <4>2. CASE pirqOf[c0][irq0] = Invalid
        BY <1>2, <1>4, <4>2 DEF OwnNumber
      <4> QED
        BY <1>4, <4>1, <4>2
    <3> QED
      BY <1>5, <3>1, <3>2, <3>3
  <2> QED
    BY <2>1, <2>2
<1>8. OwnNumber'
  <2> SUFFICES ASSUME NEW c \in Cores, NEW x \in Lines, pirqOf'[c][x] \in Virqs
               PROVE  pirqOf'[c][x] = x
    BY DEF OwnNumber
  <2> QED
    BY <1>2, <1>3, <1>4, <1>5 DEF OwnNumber
<1>9. OnIsOn'
  <2> SUFFICES ASSUME NEW c \in Cores, NEW x \in Virqs, On(c, x)'
               PROVE  pirqOf'[Asked(c, x)][x] \in gicOn'
    BY DEF OnIsOn, Asked
  <2>1. x \in Lines /\ Asked(c, x) \in Cores
    BY AskedType DEF Lines
  <2>2. CASE On(c, x)
    BY <1>1, <1>2, <1>5, <2>1, <2>2 DEF OnIsOn
  <2>3. CASE ~ On(c, x)
    <3>1. x \in isen'[Bank(c, x)] /\ <<c[1], x>> \notin elsewhere'
      BY DEF On, Bank
    <3>2. x \notin isen[Bank(c, x)]
      BY <1>1, <2>3, <3>1 DEF On
    <3>3. x = irq0 /\ Bank(c, irq0) = Bank(c0, irq0)
      BY <1>1, <1>2, <3>1, <3>2, BankType DEF MapType
    <3>4. Asked(c, x) = c0
      <4>1. CASE irq0 \in Banked
        BY <3>3, <4>1 DEF Bank, Asked
      <4>2. CASE irq0 \notin Banked
        <5>1. c[1] = c0[1]
          BY <3>3, <4>2 DEF Bank
        <5>2. c0[2] = 0
          BY <1>1, <3>1, <3>3, <4>2, <5>1
        <5> QED
          BY <3>3, <4>2, <5>1, <5>2, CoreParts DEF Asked
      <4> QED
        BY <4>1, <4>2
    <3> QED
      BY <1>1, <1>5, <2>1, <3>3, <3>4
  <2> QED
    BY <2>2, <2>3
<1>10. OwnLine'
  <2> SUFFICES ASSUME ~ copied, NEW c \in Cores, NEW x \in Virqs
               PROVE  IF pirqOf'[c][x] = Invalid THEN ~ HasPreset(c[1], x)
                      ELSE pirqOf'[c][x] = Wired(c[1], x)
    BY <1>1 DEF OwnLine, HasPreset, Wired
  <2>1. x \in Lines
    BY DEF Lines
  <2>2. IF pirqOf[c][x] = Invalid THEN ~ HasPreset(c[1], x)
        ELSE pirqOf[c][x] = Wired(c[1], x)
    BY <1>2 DEF OwnLine
  <2>3. CASE c = c0 /\ x = irq0
    <3>1. pirqOf'[c][x] = q
      BY <1>5, <2>1, <2>3
    <3>2. q = Wired(c0[1], irq0)
      BY <1>4, <2>2, <2>3 DEF HasPreset, Wired
    <3> QED
      BY <1>4, <2>3, <3>1, <3>2
  <2>4. CASE ~ (c = c0 /\ x = irq0)
    BY <1>5, <2>1, <2>2, <2>4
  <2> QED
    BY <2>3, <2>4
<1> QED
  BY <1>6, <1>7, <1>8, <1>9, <1>10 DEF RouteInv

\* vm_copy: the map and the registers of the backup are those of the VM.
LEMMA CopyStep == ASSUME RouteInv, CopyGicd PROVE RouteInv'
<1>1. /\ pirqOf' = [c \in Cores |-> pirqOf[<<0, c[2]>>]]
      /\ virqOf' = [c \in Cores |-> virqOf[<<0, c[2]>>]]
      /\ isen' = [b \in Banks |-> isen[<<0, b[2]>>]]
      /\ elsewhere' = {<<v, e[2]>> : v \in {0, 1}, e \in {x \in elsewhere : x[1] = 0}}
      /\ copied' = TRUE
      /\ UNCHANGED <<executing, gicOn>>
  BY DEF CopyGicd, MapCopied
<1>2. MapType /\ MapAgrees /\ OwnNumber /\ OnIsOn
  BY DEF RouteInv
<1>3. \A c \in Cores : <<0, c[2]>> \in Cores
  BY CoreParts
<1>4. ASSUME NEW b \in Banks PROVE <<0, b[2]>> \in Banks
  <2>1. CASE b \in Cores
    BY <1>3, <2>1 DEF Banks
  <2>2. CASE \E v \in {0, 1} : b = <<v, Shared>>
    BY <2>2 DEF Banks
  <2> QED
    BY <2>1, <2>2 DEF Banks
<1>5. MapType'
  BY <1>1, <1>2, <1>3, <1>4 DEF MapType
<1>6. MapAgrees' /\ OwnNumber'
  BY <1>1, <1>2, <1>3 DEF MapAgrees, OwnNumber
<1>7. OnIsOn'
  <2> SUFFICES ASSUME NEW c \in Cores, NEW x \in Virqs, On(c, x)'
               PROVE  pirqOf'[Asked(c, x)][x] \in gicOn'
    BY DEF OnIsOn, Asked
  <2> DEFINE d == <<0, c[2]>>
  <2>1. d \in Cores /\ d[1] = 0 /\ d[2] = c[2]
    BY <1>3
  <2>2. <<0, Bank(c, x)[2]>> = Bank(d, x)
    BY DEF Bank
  <2>3. x \in isen[Bank(d, x)]
    <3>1. x \in isen'[Bank(c, x)]
      BY DEF On, Bank
    <3> QED
      BY <1>1, <2>2, <3>1, BankType
  <2>4. <<0, x>> \notin elsewhere
    <3>1. <<c[1], x>> \notin elsewhere'
      BY DEF On
    <3>2. c[1] \in {0, 1}
      BY CoreParts
    <3>3. <<0, x>>[1] = 0 /\ <<0, x>>[2] = x
      OBVIOUS
    <3>4. <<0, x>> \in elsewhere => <<c[1], <<0, x>>[2]>> \in elsewhere'
      BY <1>1, <3>2, <3>3
    <3> QED
      BY <3>1, <3>3, <3>4
  <2>5. pirqOf[Asked(d, x)][x] \in gicOn
    BY <1>2, <2>1, <2>3, <2>4 DEF OnIsOn, On
  <2>6. <<0, Asked(c, x)[2]>> = Asked(d, x)
    BY DEF Asked
  <2> QED
    BY <1>1, <2>5, <2>6, AskedType
<1>8. OwnLine'
  BY <1>1 DEF OwnLine
<1> QED
  BY <1>5, <1>6, <1>7, <1>8 DEF RouteInv

\* Every step keeps the invariant.
LEMMA RouteStep == RouteInv /\ [GicdNext]_gicdVars => RouteInv'
<1> SUFFICES ASSUME RouteInv, [GicdNext]_gicdVars PROVE RouteInv'
  OBVIOUS
<1>1. ASSUME UNCHANGED <<virqOf, pirqOf, isen, gicOn, copied, elsewhere>>,
             executing' \in {0, 1}
      PROVE  RouteInv'
  <2> USE <1>1
  <2>1. MapType' /\ MapAgrees' /\ OwnNumber'
    BY DEF RouteInv, MapType, MapAgrees, OwnNumber
  <2>2. OnIsOn'
    BY DEF RouteInv, OnIsOn, On, Asked, Bank
  <2>3. OwnLine'
    BY DEF RouteInv, OwnLine, HasPreset, Wired
  <2> QED
    BY <2>1, <2>2, <2>3 DEF RouteInv
<1>2. executing \in {0, 1}
  BY DEF RouteInv, MapType
<1>3. ASSUME NEW c \in Cores, NEW irq \in Virqs, Enable(c, irq)
      PROVE  RouteInv'
  <2>1. CASE irq \in isen[Bank(c, irq)]
    <3>1. isen' = isen
      <4>1. isen \in [Banks -> SUBSET Virqs]
        BY DEF RouteInv, MapType
      <4> QED
        BY <1>3, <2>1, <4>1, BankType DEF Enable
    <3> QED
      BY <1>1, <1>2, <1>3, <2>1, <3>1 DEF Enable
  <2>2. CASE irq \notin isen[Bank(c, irq)]
    BY <1>3, <2>2, EnableStep
  <2> QED
    BY <2>1, <2>2
<1>4. ASSUME NEW c \in Cores, NEW irq \in Virqs, Disable(c, irq)
      PROVE  RouteInv'
  BY <1>1, <1>2, <1>4 DEF Disable, gicdVars
<1>5. CASE CopyGicd
  BY <1>5, CopyStep
<1>6. CASE BackupRuns
  BY <1>1, <1>6 DEF BackupRuns
<1>7. CASE UNCHANGED gicdVars
  BY <1>1, <1>2, <1>7 DEF gicdVars
<1> QED
  BY <1>3, <1>4, <1>5, <1>6, <1>7 DEF GicdNext

\* The invariant says what is promised.
LEMMA RouteSuffices == RouteInv => EnabledIsRouted
<1> SUFFICES ASSUME RouteInv, NEW c \in Cores, NEW irq \in Virqs, On(c, irq)
             PROVE  LET q == pirqOf[Asked(c, irq)][irq]
                    IN  /\ q \in gicOn /\ Delivers(Asked(c, irq), q) = irq
                        /\ copied \/ q = Wired(c[1], irq)
  BY DEF EnabledIsRouted
<1> DEFINE q == pirqOf[Asked(c, irq)][irq]
<1>1. Asked(c, irq) \in Cores /\ Asked(c, irq)[1] = c[1] /\ irq \in Lines
  BY AskedType DEF Lines
<1>2. q \in gicOn
  BY DEF RouteInv, OnIsOn
<1>3. q # Invalid
  BY <1>2, VGicdAssumption DEF RouteInv, MapType
<1>4. Delivers(Asked(c, irq), q) = irq
  BY <1>1, <1>3 DEF RouteInv, MapAgrees, Delivers
<1>5. copied \/ q = Wired(c[1], irq)
  BY <1>1, <1>3 DEF RouteInv, OwnLine
<1> QED
  BY <1>2, <1>4, <1>5

----------------------------------------------------------------------------

\* Whatever guests enable and disable, and whenever the map is copied to the
\* backup and the backup takes over, an interrupt that reads as enabled is on
\* in the physical distributor and delivered under its number (set_enable,
\* vgicd_copy and vcpu_copy).
THEOREM EnabledInterruptsAreRouted == GicdSpec => []EnabledIsRouted
<1>1. RouteInv /\ [GicdNext]_gicdVars => RouteInv'
  BY RouteStep
<1> QED
  BY <1>1, RouteInit, RouteSuffices, PTL DEF GicdSpec

----------------------------------------------------------------------------
(* The composition.                                                        *)

\* A step of the composition is, for each of its parts, a step of that part
\* or none: the devices share nothing but the tables, which Boot and SmcMaps
\* write.
LEMMA PartsStep ==
    [Next]_guestAccessVars =>
        /\ [S2Next]_s2Vars /\ [GicdNext]_gicdVars /\ [TimerNext]_timerVars
        /\ [OpteeNext]_opteeVars /\ [ConsoleNext]_consoleVars
        /\ \/ VdevNext /\ UNCHANGED s2Vars
           \/ S2Next /\ UNCHANGED vdevVars
           \/ UNCHANGED <<s2Vars, vdevVars>>
<1> SUFFICES ASSUME [Next]_guestAccessVars
             PROVE  /\ [S2Next]_s2Vars /\ [GicdNext]_gicdVars /\ [TimerNext]_timerVars
                    /\ [OpteeNext]_opteeVars /\ [ConsoleNext]_consoleVars
                    /\ \/ VdevNext /\ UNCHANGED s2Vars
                       \/ S2Next /\ UNCHANGED vdevVars
                       \/ UNCHANGED <<s2Vars, vdevVars>>
  OBVIOUS
<1>1. CASE Boot
  BY <1>1 DEF Boot, S2Next
<1>2. CASE MemoryAccess
  BY <1>2, Zenon DEF MemoryAccess, Drive
<1>3. CASE GicdAccess
  BY <1>3, Zenon DEF GicdAccess, Drive
<1>4. CASE UartAccess
  BY <1>4, Zenon DEF UartAccess, Drive
<1>5. CASE TimerAccess
  BY <1>5, Zenon DEF TimerAccess, Drive
<1>6. CASE Smc
  BY <1>6, Zenon DEF Smc, Drive
<1>7. CASE SmcMaps
  BY <1>7 DEF SmcMaps, S2Next
<1>8. CASE UNCHANGED guestAccessVars
  <2>1. UNCHANGED <<s2Vars, vdevVars, gicdVars, timerVars, consoleVars, opteeVars>>
    BY <1>8 DEF guestAccessVars
  <2> QED BY <2>1, Zenon
<1> QED
  BY <1>1, <1>2, <1>3, <1>4, <1>5, <1>6, <1>7, <1>8 DEF Next

\* What is proved of the tables, the distributor and the mediator alone holds
\* of them together: no trap of do_hyp_trap disturbs the state of another.
THEOREM PartsCompose ==
    Spec => /\ S2Spec /\ GicdSpec /\ OpteeSpec
            /\ ImplementsIpaMap /\ []EnabledIsRouted /\ []MsgIsThere /\ NoEarlyReturn
<1>1. Init => S2Init /\ GicdInit /\ OpteeInit
  BY DEF Init
<1>2. [Next]_guestAccessVars =>
          [S2Next]_s2Vars /\ [GicdNext]_gicdVars /\ [OpteeNext]_opteeVars
  BY PartsStep
<1>3. Spec => S2Spec /\ GicdSpec /\ OpteeSpec
  BY <1>1, <1>2, PTL DEF Spec, S2Spec, GicdSpec, OpteeSpec
<1> QED
  BY <1>3, TablesImplementMap, EnabledInterruptsAreRouted, MessageIsThere,
     NoSleeperReturnsEarly, PTL

----------------------------------------------------------------------------
(* The time that a guest sets.  While an interrupt asked for by TVAL is    *)
(* outstanding, CVAL is its time by the counter of the guest, and neither  *)
(* sum of a time and the offset wraps.                                     *)

\* What the guest has read counts down to when its interrupt is due.
CountsDown == read.at # Never => read.tval = (due - read.at) % Word

DeadlineInv ==
    /\ syscounter \in 0 .. MaxCount /\ ctOffset \in 0 .. syscounter
    /\ due # Never =>
          /\ due \in ctOffset .. Long - 1 /\ cval = due - ctOffset
          /\ expiration \in {0, due}
          /\ syscounter < due => expiration = due
          /\ CountsDown

\* Within the modulus, % does nothing.
LEMMA SmallMod ==
    ASSUME NEW n \in Nat \ {0}, NEW x \in 0 .. n - 1
    PROVE  x % n = x
<1>0. x \in Nat /\ x < n
  OBVIOUS
<1>1. /\ x \div n \in Nat /\ x % n \in 0 .. n - 1
      /\ n * (x \div n) + (x % n) = x
  BY <1>0, DivMod
<1> DEFINE k == x \div n
           r == x % n
<1>2. k \in Nat /\ r \in 0 .. n - 1 /\ n * k + r = x
  BY <1>1
<1> HIDE DEF k, r
<1>3. CASE k = 0
  BY <1>2, <1>3 DEF r
<1>4. CASE k >= 1
  <2>1. n * k >= n
    BY <1>2, <1>4
  <2> QED BY <1>0, <1>2, <2>1
<1> QED BY <1>2, <1>3, <1>4

\* The counter of the guest has not wrapped, and half a word ahead of it is
\* still a count.
LEMMA CountIs ==
    ASSUME syscounter \in 0 .. MaxCount, ctOffset \in 0 .. syscounter
    PROVE  /\ Count = syscounter - ctOffset
           /\ \A t \in 0 .. Word \div 2 - 1 :
                 /\ t \in Nat /\ syscounter + t < Long
                 /\ (Count + t) % Long = syscounter + t - ctOffset
<1>1. Long \in Nat \ {0} /\ Word \in Nat \ {0} /\ MaxCount \in Nat /\ MaxCount + Word <= Long
  BY VTimerAssumption
<1>2. Word \div 2 \in Nat /\ Word \div 2 <= Word
  BY <1>1
<1>3. syscounter - ctOffset \in 0 .. Long - 1
  BY <1>1
<1>4. Count = syscounter - ctOffset
  BY <1>1, <1>3, SmallMod DEF Count
<1>5. ASSUME NEW t \in 0 .. Word \div 2 - 1
      PROVE  /\ t \in Nat /\ syscounter + t < Long
             /\ (Count + t) % Long = syscounter + t - ctOffset
  <2>1. t \in Nat /\ t < Word
    <3> DEFINE h == Word \div 2
    <3>1. h \in Nat /\ h <= Word /\ t \in 0 .. h - 1
      BY <1>2
    <3> HIDE DEF h
    <3> QED BY <1>1, <3>1
  <2>2. syscounter + t < Long
    BY <1>1, <2>1
  <2>3. Count + t = syscounter + t - ctOffset /\ Count + t \in 0 .. Long - 1
    BY <1>1, <1>4, <2>1, <2>2
  <2> QED BY <1>1, <2>1, <2>2, <2>3, SmallMod
<1> QED BY <1>4, <1>5

\* Arming the timer for a time of the guest gives the time of the machine.
LEMMA ArmIs ==
    ASSUME NEW c \in Int, ctOffset \in Int, c + ctOffset \in 0 .. Long - 1, Arm(c)
    PROVE  expiration' = c + ctOffset
<1>1. Long \in Nat \ {0}
  BY VTimerAssumption
<1> QED BY <1>1, SmallMod DEF Arm

\* Every step of the timer keeps the invariant.
LEMMA DeadlineStep == DeadlineInv /\ [TimerNext]_timerVars => DeadlineInv'
<1> SUFFICES ASSUME DeadlineInv, [TimerNext]_timerVars PROVE DeadlineInv'
  OBVIOUS
<1>0. /\ Long \in Nat \ {0} /\ Word \in Nat \ {0} /\ MaxCount \in Nat
      /\ syscounter \in 0 .. MaxCount /\ ctOffset \in 0 .. syscounter
      /\ Never = -1
  BY VTimerAssumption DEF DeadlineInv, Never
<1>1. ASSUME NEW t \in 0 .. Word \div 2 - 1, WriteTval(t) PROVE DeadlineInv'
  <2>1. /\ cval' = (Count + t) % Long /\ Arm(cval') /\ due' = syscounter + t
        /\ read' = [read EXCEPT !.at = Never] /\ UNCHANGED <<syscounter, ctOffset>>
    BY <1>1 DEF WriteTval
  <2>2. t \in Nat /\ syscounter + t < Long /\ cval' = syscounter + t - ctOffset
    BY <1>0, <2>1, CountIs
  <2>3. expiration' = due'
    <3>1. cval' \in Int /\ ctOffset \in Int /\ cval' + ctOffset = syscounter + t
      BY <1>0, <2>2
    <3>2. cval' + ctOffset \in 0 .. Long - 1
      BY <1>0, <2>2, <3>1
    <3> QED BY <2>1, <3>1, <3>2, ArmIs
  <2>4. due' \in ctOffset .. Long - 1 /\ cval' = due' - ctOffset
    BY <1>0, <2>1, <2>2
  <2>5. CountsDown'
    BY <2>1 DEF CountsDown
  <2> QED BY <1>0, <2>1, <2>3, <2>4, <2>5 DEF DeadlineInv
<1>2. ASSUME NEW c \in 0 .. MaxCount, WriteCval(c) PROVE DeadlineInv'
  BY <1>0, <1>2 DEF WriteCval, DeadlineInv
<1>3. CASE ReadTval
  <2>1. /\ read' = [tval |-> (cval - Count) % Word, at |-> syscounter]
        /\ UNCHANGED <<syscounter, ctOffset, cval, expiration, due>>
    BY <1>3 DEF ReadTval
  <2>2. due # Never => cval - Count = due - syscounter
    BY <1>0, CountIs DEF DeadlineInv
  <2>3. due # Never => CountsDown'
    BY <2>1, <2>2 DEF CountsDown
  <2> QED BY <2>1, <2>3 DEF DeadlineInv
<1>4. CASE ReadCval
  <2>1. Arm(cval) /\ UNCHANGED <<syscounter, ctOffset, cval, read, due>>
    BY <1>4 DEF ReadCval
  <2>2. ASSUME due # Never PROVE expiration' = due
    <3>1. cval \in Int /\ ctOffset \in Int /\ cval + ctOffset = due /\ due \in 0 .. Long - 1
      BY <1>0, <2>2 DEF DeadlineInv
    <3> QED BY <2>1, <3>1, ArmIs
  <2> QED BY <2>1, <2>2 DEF DeadlineInv, CountsDown
<1>5. CASE Expire
  BY <1>0, <1>5 DEF Expire, DeadlineInv, CountsDown
<1>6. CASE Tick
  BY <1>0, <1>6 DEF Tick, DeadlineInv, CountsDown
<1>7. CASE UNCHANGED timerVars
  BY <1>7 DEF timerVars, DeadlineInv, CountsDown
<1> QED
  BY <1>1, <1>2, <1>3, <1>4, <1>5, <1>6, <1>7 DEF TimerNext

\* The interrupt that a guest asks for by TVAL is armed for the time it is
\* due, whatever the offset of its counter and however often it reads its
\* registers, and TVAL counts down to it (vdev_timer.c:53, :85, :88).
THEOREM DeadlineIsKept == Spec => []TvalDeadline
<1>1. Init => DeadlineInv
  BY VTimerAssumption DEF Init, TimerInit, DeadlineInv
<1>2. DeadlineInv /\ [Next]_guestAccessVars => DeadlineInv'
  BY PartsStep, DeadlineStep
<1>3. DeadlineInv => TvalDeadline
  BY DEF DeadlineInv, CountsDown, TvalDeadline
<1> QED
  BY <1>1, <1>2, <1>3, PTL DEF Spec

----------------------------------------------------------------------------
(* The console.  That what is typed is read (TypedIsRead) is liveness; its *)
(* safety part is that the VMs which share the FIFO never wait for one     *)
(* another.                                                                *)

\* While a character waits and the device asks for attention, SPI 37 can be
\* taken, by a VM that there is; once it is active, and until it is ended, a
\* VM has it and can go on with its handler, whatever the device's mask is by
\* then (vdev_pl01x.c:187).
SomebodyReads ==
    /\ fifo # <<>> /\ Listening /\ ~ irqActive => ownerId \in Guests
    /\ irqActive => \E v \in Guests : v \in serving \/ v \in uartIrq \ serving

\* There always is an owner, and an active SPI is on its way to being ended,
\* by whichever VM has got it.
ConsoleInv ==
    /\ ownerId \in Guests /\ uartIrq \subseteq Guests /\ serving \subseteq Guests
    /\ irqActive \in BOOLEAN
    /\ irqActive => uartIrq \cup serving # {}

\* The owners take turns.
LEMMA OwnerType ==
    ASSUME NEW v \in Guests
    PROVE  NextOwner(v) \in Guests /\ 0 \in Guests
<1>1. NrGuests \in Nat \ {0} /\ v + 1 \in Nat
  BY ConsoleAssumption DEF Guests
<1>2. (v + 1) % NrGuests \in 0 .. NrGuests - 1
  BY <1>1, DivMod
<1> QED BY <1>1, <1>2 DEF NextOwner, Guests

\* Ending the interrupt deactivates the SPI; nothing else that takes the
\* interrupt from one VM leaves it with none.
LEMMA ConsoleStep == ConsoleInv /\ [ConsoleNext]_consoleVars => ConsoleInv'
<1> SUFFICES ASSUME ConsoleInv, [ConsoleNext]_consoleVars PROVE ConsoleInv'
  OBVIOUS
<1> USE DEF ConsoleInv
<1>1. CASE \E ch \in {Key, Char} : Type(ch)
  BY <1>1 DEF Type
<1>2. CASE UartIrq
  BY <1>2 DEF UartIrq
<1>3. ASSUME NEW v \in Guests, ReadChar(v) PROVE ConsoleInv'
  BY <1>3, OwnerType DEF ReadChar
<1>4. ASSUME NEW v \in Guests, NEW mask \in Masks, WriteMsc(v, mask) PROVE ConsoleInv'
  BY <1>4 DEF WriteMsc
<1>8. ASSUME NEW v \in Guests, WriteIcr(v) PROVE ConsoleInv'
  BY <1>8 DEF WriteIcr
<1>5. ASSUME NEW v \in Guests, Serve(v) PROVE ConsoleInv'
  BY <1>5 DEF Serve
<1>6. ASSUME NEW v \in Guests, EndIrq(v) PROVE ConsoleInv'
  BY <1>6 DEF EndIrq
<1>7. CASE UNCHANGED consoleVars
  BY <1>7 DEF consoleVars
<1> QED
  BY <1>1, <1>2, <1>3, <1>4, <1>5, <1>6, <1>7, <1>8 DEF ConsoleNext

\* The VMs that share the UART never wait for one another, whichever VM loses
\* it in the middle of its loop, reads the FIFO of another, ends its interrupt
\* or writes its mask (vdev_pl01x.c:75, :187, :219).
THEOREM ConsoleGoesOn == Spec => []SomebodyReads
<1>1. Init => ConsoleInv
  <2>1. 0 \in Guests
    BY ConsoleAssumption DEF Guests
  <2> QED BY <2>1 DEF Init, ConsoleInit, ConsoleInv
<1>2. ConsoleInv /\ [Next]_guestAccessVars => ConsoleInv'
  BY PartsStep, ConsoleStep
<1>3. ConsoleInv => SomebodyReads
  BY DEF ConsoleInv, SomebodyReads
<1> QED
  BY <1>1, <1>2, <1>3, PTL DEF Spec

----------------------------------------------------------------------------
(* What a guest has written.  Both the isolation of the memory maps and    *)
(* the separate instances of the devices are needed; before the tables are *)
(* complete nothing has been written.                                      *)

\* The page of sysreg, which vdev_copy copies to the backup, traps in every
\* VM (vm0_device_md to vm3_device_md, platform/rtsm/guest.c:8).
SysregTraps ==
    "sysreg" \in Devices =>
        \A v \in Vms :
            /\ \E i \in 1 .. Len(Mmap[v]) : Mmap[v][i].ipa = PageOf["sysreg"]
            /\ \A i \in 1 .. Len(Mmap[v]) :
                  Mmap[v][i].ipa = PageOf["sysreg"] => Mmap[v][i].af = 0

Tables == IInv /\ MapIs /\ Isolated /\ Entered

Content == Values \cup {0, Junk}
DevTypes ==
    /\ regs \in [Vms -> [Devices -> Content]] /\ phys \in [Frames -> Content]
    /\ wrote \in [Vms -> [Pages -> Values \cup {Nothing}]]

NothingYet == ~ Booted => \A v \in Vms, p \in Pages : wrote[v][p] = Nothing

\* Where what VM v wrote to page p is: in a frame that only this page
\* reaches, in its own instance of a device, or lost to a snapshot.
InFrame(v, p) == OwnFrame(v, p) /\ phys[Walk(v, p).pa] = wrote[v][p]
InDevice(v, p) ==
    \E d \in Devices : PageOf[d] = p /\ Emulated(v, p) /\ regs[v][d] = wrote[v][p]
LostToCopy(p) == vdevCopied /\ "sp804" \in Devices /\ PageOf["sp804"] = p
IsSomewhere ==
    \A v \in Vms, p \in Pages :
        wrote[v][p] # Nothing => InFrame(v, p) \/ InDevice(v, p) \/ LostToCopy(p)

WrittenInv == DevTypes /\ NothingYet /\ IsSomewhere

\* A page has one device at most.
LEMMA OneInstance ==
    ASSUME NEW d \in Devices
    PROVE  InstanceAt(PageOf[d]) = {d}
  BY VdevsAssumption DEF InstanceAt

\* A page that reaches memory reaches a frame of its own VM.
LEMMA DirectIs ==
    ASSUME Tables, NEW v \in Vms, NEW p \in Pages, Direct(v, p)
    PROVE  /\ ~ Emulated(v, p) /\ Walk(v, p).pa \in Frames
           /\ \E i \in 1 .. Len(Entries[v]) :
                 /\ Entries[v][i].ipa = p /\ Entries[v][i].af = 1
                 /\ Entries[v][i].pa = Walk(v, p).pa
<1>1. Walk(v, p) # Unmapped /\ Walk(v, p).af = 1
  BY DEF Direct
<1>2. PICK i \in 1 .. mapped[v] :
         Entries[v][i].ipa = p /\ Walk(v, p) = [pa |-> Entries[v][i].pa, af |-> Entries[v][i].af]
  BY <1>1 DEF Tables, Isolated, Given
<1>3. i \in 1 .. Len(Entries[v])
  <2>1. mapped[v] \in Nat /\ mapped[v] <= Len(Entries[v]) /\ Entries[v] \in Seq([ipa : Pages, pa : Nat, af : {0, 1}])
    BY EntriesAre DEF Tables, IInv, TypeOK, Entered
  <2> QED BY <2>1
<1>4. Entries[v][i].af = 1 /\ Entries[v][i].pa = Walk(v, p).pa
  BY <1>1, <1>2
<1>5. ~ Emulated(v, p)
  BY <1>1 DEF Emulated
<1>6. Walk(v, p).pa \in Frames
  BY <1>3, <1>4 DEF Frames
<1> QED
  BY <1>2, <1>3, <1>4, <1>5, <1>6

\* The page of sysreg traps in every VM, once the tables are complete.
LEMMA SysregIsEmulated ==
    ASSUME SysregTraps, Tables, Booted, "sysreg" \in Devices, NEW v \in Vms
    PROVE  Emulated(v, PageOf["sysreg"]) /\ ~ Direct(v, PageOf["sysreg"])
<1> DEFINE p == PageOf["sysreg"]
<1>0. p \in Pages
  BY VdevsAssumption
<1>1. /\ Mmap[v] \in Seq([ipa : Pages, pa : Nat, af : {0, 1}])
      /\ mapped[v] \in Nat /\ mapped[v] <= Len(Entries[v]) /\ mapped[v] >= Len(Mmap[v])
  BY Stage2Assumption DEF Tables, IInv, TypeOK, Entered, Booted
<1>2. PICK i \in 1 .. Len(Mmap[v]) : Mmap[v][i].ipa = p
  BY DEF SysregTraps
<1>3. Walk(v, p) # Unmapped
  <2>1. Len(Mmap[v]) \in Nat
    BY <1>1
  <2>2. i \in 1 .. mapped[v]
    BY <1>1, <1>2, <2>1
  <2>3. Entries[v][i] = Mmap[v][i]
    BY <1>2, EntriesAre
  <2>4. Entries[v][i].ipa = p
    BY <1>2, <2>3
  <2> QED BY <2>2, <2>4 DEF Tables, Entered
<1>4. PICK j \in 1 .. mapped[v] :
         /\ Entries[v][j].ipa = p
         /\ Walk(v, p) = [pa |-> Entries[v][j].pa, af |-> Entries[v][j].af]
  BY <1>0, <1>3 DEF Tables, Isolated, Given
<1>5. j \in 1 .. Len(Mmap[v])
  <2> SUFFICES ASSUME j \in Len(Mmap[v]) + 1 .. Len(Entries[v]) PROVE FALSE
    BY <1>1, <1>4
  <2> DEFINE k == j - Len(Mmap[v])
  <2>1. k \in 1 .. Len(Shm) /\ Entries[v][j] = SharedPage(Shm[k])
    BY EntriesAre
  <2> HIDE DEF k
  <2>2. Shm[k] = p
    BY <1>4, <2>1 DEF SharedPage
  <2> QED BY <1>2, <2>1, <2>2, VdevsAssumption
<1>6. Walk(v, p).af = 0
  <2>1. Entries[v][j] = Mmap[v][j]
    BY <1>5, EntriesAre
  <2> QED BY <1>4, <1>5, <2>1 DEF SysregTraps
<1> QED
  BY <1>3, <1>6 DEF Emulated, Direct

\* A store goes to its own frame or to the instance of its own VM, and to
\* nothing that another page or VM has written.
LEMMA StoreStep ==
    ASSUME Tables, WrittenInv, UNCHANGED s2Vars, NEW v \in Vms, NEW p \in Pages,
           NEW value \in Values, Store(v, p, value)
    PROVE  DevTypes' /\ IsSomewhere'
<1>0. /\ regs \in [Vms -> [Devices -> Content]] /\ phys \in [Frames -> Content]
      /\ wrote \in [Vms -> [Pages -> Values \cup {Nothing}]]
      /\ IsSomewhere /\ vdevCopied' = vdevCopied /\ value \in Content
  BY DEF WrittenInv, DevTypes, Store, Content
<1>1. \A w \in Vms, q \in Pages :
         /\ Walk(w, q)' = Walk(w, q) /\ Emulated(w, q)' = Emulated(w, q)
         /\ OwnFrame(w, q)' = OwnFrame(w, q)
  BY DEF s2Vars, Walk, Emulated, Direct, OwnFrame
<1>2. wrote' = IF Backed(v, p) THEN [wrote EXCEPT ![v][p] = value] ELSE wrote
  BY DEF Store
<1>3. /\ wrote' \in [Vms -> [Pages -> Values \cup {Nothing}]]
      /\ \A w \in Vms, q \in Pages :
            wrote'[w][q] = IF w = v /\ q = p /\ Backed(v, p) THEN value ELSE wrote[w][q]
  <2>1. CASE Backed(v, p)
    BY <1>0, <1>2, <2>1
  <2>2. CASE ~ Backed(v, p)
    BY <1>0, <1>2, <2>2
  <2> QED BY <2>1, <2>2
<1>4. CASE Direct(v, p)
  <2> DEFINE f == Walk(v, p).pa
  <2>1. /\ ~ Emulated(v, p) /\ f \in Frames
        /\ \E i \in 1 .. Len(Entries[v]) :
              Entries[v][i].ipa = p /\ Entries[v][i].af = 1 /\ Entries[v][i].pa = f
    BY <1>4, DirectIs
  <2>2. phys' = [phys EXCEPT ![f] = value] /\ regs' = regs
    BY <1>4, <2>1, Zenon DEF Store, Direct
  <2> HIDE DEF f
  <2>3. phys' \in [Frames -> Content] /\ phys'[f] = value /\ \A g : g # f => phys'[g] = phys[g]
    BY <1>0, <2>1, <2>2
  <2>4. ASSUME NEW w \in Vms, NEW q \in Pages, OwnFrame(w, q), Walk(w, q).pa = f
        PROVE  w = v /\ q = p
    BY <2>1, <2>4 DEF OwnFrame
  <2>5. ASSUME NEW w \in Vms, NEW q \in Pages, wrote'[w][q] # Nothing
        PROVE  InFrame(w, q)' \/ InDevice(w, q)' \/ LostToCopy(q)'
    <3>1. CASE w = v /\ q = p /\ Backed(v, p)
      <4>1. OwnFrame(v, p)
        BY <2>1, <3>1 DEF Backed
      <4> QED BY <1>1, <1>3, <2>3, <3>1, <4>1 DEF InFrame, f
    <3>2. CASE ~ (w = v /\ q = p /\ Backed(v, p))
      <4>1. wrote'[w][q] = wrote[w][q]
        BY <1>3, <3>2
      <4>2. InFrame(w, q) \/ InDevice(w, q) \/ LostToCopy(q)
        BY <1>0, <2>5, <4>1 DEF IsSomewhere
      <4>3. InFrame(w, q) => InFrame(w, q)'
        <5> SUFFICES ASSUME InFrame(w, q) PROVE InFrame(w, q)'
          OBVIOUS
        <5>1. Walk(w, q).pa # f
          BY <2>4, <3>2 DEF InFrame, Backed
        <5> QED BY <1>1, <2>3, <4>1, <5>1 DEF InFrame
      <4>4. InDevice(w, q) => InDevice(w, q)'
        BY <1>1, <2>2, <4>1 DEF InDevice
      <4>5. LostToCopy(q) => LostToCopy(q)'
        BY <1>0 DEF LostToCopy
      <4> QED BY <4>2, <4>3, <4>4, <4>5
    <3> QED BY <3>1, <3>2
  <2> QED BY <1>0, <1>3, <2>2, <2>3, <2>5 DEF DevTypes, IsSomewhere
<1>5. CASE Emulated(v, p)
  <2>1. ~ Direct(v, p) /\ ~ OwnFrame(v, p) /\ Walk(v, p) # Unmapped
    BY <1>5, DirectIs DEF OwnFrame, Emulated
  <2>2. /\ phys' = phys
        /\ regs' = [regs EXCEPT ![v] =
                      [d \in Devices |-> IF d \in InstanceAt(p) THEN value ELSE @[d]]]
    BY <1>5, <2>1, Zenon DEF Store, CurrentVm
  <2>3. /\ regs' \in [Vms -> [Devices -> Content]]
        /\ \A w \in Vms, d \in Devices :
              regs'[w][d] = IF w = v /\ d \in InstanceAt(p) THEN value ELSE regs[w][d]
    BY <1>0, <2>2
  <2>4. \A d \in Devices : d \in InstanceAt(p) <=> PageOf[d] = p
    BY DEF InstanceAt
  <2>5. ASSUME NEW w \in Vms, NEW q \in Pages, wrote'[w][q] # Nothing
        PROVE  InFrame(w, q)' \/ InDevice(w, q)' \/ LostToCopy(q)'
    <3>1. CASE w = v /\ q = p /\ Backed(v, p)
      <4>1. PICK d \in Devices : PageOf[d] = p
        BY <2>1, <3>1 DEF Backed, InstanceAt
      <4> QED BY <1>1, <1>3, <1>5, <2>3, <2>4, <3>1, <4>1 DEF InDevice
    <3>2. CASE ~ (w = v /\ q = p /\ Backed(v, p))
      <4>1. wrote'[w][q] = wrote[w][q]
        BY <1>3, <3>2
      <4>2. InFrame(w, q) \/ InDevice(w, q) \/ LostToCopy(q)
        BY <1>0, <2>5, <4>1 DEF IsSomewhere
      <4>3. InFrame(w, q) => InFrame(w, q)'
        BY <1>1, <2>2, <4>1 DEF InFrame
      <4>4. InDevice(w, q) => InDevice(w, q)'
        <5> SUFFICES ASSUME NEW d \in Devices, PageOf[d] = q, Emulated(w, q),
                            regs[w][d] = wrote[w][q]
                     PROVE  InDevice(w, q)'
          BY DEF InDevice
        <5>1. ~ (w = v /\ d \in InstanceAt(p))
          BY <1>5, <2>4, <3>2 DEF Backed
        <5>2. regs'[w][d] = regs[w][d]
          BY <2>3, <5>1
        <5> QED BY <1>1, <4>1, <5>2 DEF InDevice
      <4>5. LostToCopy(q) => LostToCopy(q)'
        BY <1>0 DEF LostToCopy
      <4> QED BY <4>2, <4>3, <4>4, <4>5
    <3> QED BY <3>1, <3>2
  <2> QED BY <1>0, <1>3, <2>2, <2>3, <2>5 DEF DevTypes, IsSomewhere
<1>6. CASE Walk(v, p) = Unmapped
  <2>1. ~ Direct(v, p) /\ ~ Emulated(v, p) /\ ~ Backed(v, p)
    BY <1>6 DEF Direct, Emulated, Backed, OwnFrame
  <2>2. phys' = phys /\ regs' = regs
    BY <2>1, Zenon DEF Store
  <2>3. wrote' = wrote
    BY <1>2, <2>1
  <2>4. ASSUME NEW w \in Vms, NEW q \in Pages
        PROVE  /\ InFrame(w, q)' = InFrame(w, q)
               /\ InDevice(w, q) => InDevice(w, q)'
               /\ LostToCopy(q)' = LostToCopy(q)
    BY <1>0, <1>1, <2>2, <2>3 DEF InFrame, InDevice, LostToCopy
  <2> QED BY <1>0, <2>2, <2>3, <2>4 DEF DevTypes, IsSomewhere
<1> QED
  <2>1. Direct(v, p) \/ Emulated(v, p) \/ Walk(v, p) = Unmapped
    BY Zenon DEF Store
  <2> QED BY <1>4, <1>5, <1>6, <2>1

\* vdev_copy gives the backup the sysreg of the VM, with what it has written
\* there; what it does to the timers is lost.
LEMMA VdevCopyStep ==
    ASSUME SysregTraps, Tables, WrittenInv, UNCHANGED s2Vars,
           NEW v \in Vms, NEW b \in Vms, VdevCopy(v, b)
    PROVE  DevTypes' /\ IsSomewhere'
<1>0. /\ regs \in [Vms -> [Devices -> Content]] /\ phys \in [Frames -> Content]
      /\ wrote \in [Vms -> [Pages -> Values \cup {Nothing}]]
      /\ IsSomewhere /\ Booted /\ v # b
  BY DEF WrittenInv, DevTypes, VdevCopy
<1>1. \A w \in Vms, q \in Pages :
         /\ Walk(w, q)' = Walk(w, q) /\ Emulated(w, q)' = Emulated(w, q)
         /\ OwnFrame(w, q)' = OwnFrame(w, q)
  BY DEF s2Vars, Walk, Emulated, Direct, OwnFrame
<1>2. /\ regs' = InstancesCopied(v, b) /\ vdevCopied' = TRUE /\ phys' = phys
      /\ wrote' = [wrote EXCEPT ![b] =
                     [p \in Pages |-> IF InstanceAt(p) \in {{"sysreg"}, {"sp804"}}
                                      THEN wrote[v][p] ELSE @[p]]]
  BY DEF VdevCopy
<1>3. /\ regs' \in [Vms -> [Devices -> Content]]
      /\ \A d \in Devices :
            /\ regs'[b][d] = IF d = "sysreg" THEN regs[v][d] ELSE regs[b][d]
            /\ d # "sp804" => regs'[v][d] = regs[v][d]
            /\ \A w \in Vms \ {v, b} : regs'[w][d] = regs[w][d]
  <2> DEFINE rb == [d \in Devices |-> IF d = "sysreg" THEN regs[v][d] ELSE regs[b][d]]
             rv == [d \in Devices |-> IF d = "sp804" THEN regs[b][d] ELSE regs[v][d]]
  <2>1. rb \in [Devices -> Content] /\ rv \in [Devices -> Content]
    BY <1>0
  <2>2. regs' = [regs EXCEPT ![b] = rb, ![v] = rv]
    BY <1>0, <1>2 DEF InstancesCopied
  <2>3. /\ \A d \in Devices : rb[d] = IF d = "sysreg" THEN regs[v][d] ELSE regs[b][d]
        /\ \A d \in Devices : d # "sp804" => rv[d] = regs[v][d]
    OBVIOUS
  <2> HIDE DEF rb, rv
  <2>4. /\ regs' \in [Vms -> [Devices -> Content]] /\ regs'[b] = rb /\ regs'[v] = rv
        /\ \A w \in Vms \ {v, b} : regs'[w] = regs[w]
    BY <1>0, <2>1, <2>2
  <2> QED BY <2>3, <2>4
<1>4. /\ wrote' \in [Vms -> [Pages -> Values \cup {Nothing}]]
      /\ \A q \in Pages :
            wrote'[b][q] = IF InstanceAt(q) \in {{"sysreg"}, {"sp804"}}
                           THEN wrote[v][q] ELSE wrote[b][q]
      /\ \A w \in Vms \ {b} : wrote'[w] = wrote[w]
  BY <1>0, <1>2
<1>5. ASSUME NEW w \in Vms, NEW q \in Pages, wrote'[w][q] # Nothing
      PROVE  InFrame(w, q)' \/ InDevice(w, q)' \/ LostToCopy(q)'
  <2>1. CASE InstanceAt(q) = {"sp804"}
    <3>1. "sp804" \in Devices /\ PageOf["sp804"] = q
      BY <2>1 DEF InstanceAt
    <3> QED BY <1>2, <3>1 DEF LostToCopy
  <2>2. CASE InstanceAt(q) = {"sysreg"} /\ w = b
    <3>1. "sysreg" \in Devices /\ PageOf["sysreg"] = q
      BY <2>2 DEF InstanceAt
    <3>2. Emulated(b, q) /\ ~ Direct(v, q)
      BY <1>0, <3>1, SysregIsEmulated
    <3>3. wrote'[b][q] = wrote[v][q]
      BY <1>4, <2>2
    <3>4. ~ LostToCopy(q)
      BY <2>2, OneInstance DEF LostToCopy
    <3>5. InDevice(v, q)
      BY <1>0, <1>5, <2>2, <3>2, <3>3, <3>4 DEF IsSomewhere, InFrame, OwnFrame
    <3>6. regs[v]["sysreg"] = wrote[v][q]
      BY <2>2, <3>5, OneInstance DEF InDevice
    <3>7. regs'[b]["sysreg"] = wrote'[b][q]
      BY <1>3, <3>1, <3>3, <3>6
    <3> QED BY <1>1, <2>2, <3>1, <3>2, <3>7 DEF InDevice
  <2>3. CASE InstanceAt(q) # {"sp804"} /\ ~ (InstanceAt(q) = {"sysreg"} /\ w = b)
    <3>1. wrote'[w][q] = wrote[w][q]
      BY <1>4, <2>3
    <3>2. InFrame(w, q) \/ InDevice(w, q) \/ LostToCopy(q)
      BY <1>0, <1>5, <3>1 DEF IsSomewhere
    <3>3. InFrame(w, q) => InFrame(w, q)'
      BY <1>1, <1>2, <3>1 DEF InFrame
    <3>4. InDevice(w, q) => InDevice(w, q)'
      <4> SUFFICES ASSUME NEW d \in Devices, PageOf[d] = q, Emulated(w, q),
                          regs[w][d] = wrote[w][q]
                   PROVE  InDevice(w, q)'
        BY DEF InDevice
      <4>1. InstanceAt(q) = {d}
        BY OneInstance
      <4>2. d # "sp804" /\ ~ (d = "sysreg" /\ w = b)
        BY <2>3, <4>1
      <4>3. regs'[w][d] = regs[w][d]
        BY <1>0, <1>3, <4>2
      <4> QED BY <1>1, <3>1, <4>3 DEF InDevice
    <3>5. LostToCopy(q) => LostToCopy(q)'
      BY <1>2 DEF LostToCopy
    <3> QED BY <3>2, <3>3, <3>4, <3>5
  <2> QED BY <2>1, <2>2, <2>3
<1> QED
  BY <1>0, <1>2, <1>3, <1>4, <1>5 DEF DevTypes, IsSomewhere

\* Once guests run, no page that has a translation gets another one: the
\* shared memory is mapped where a VM has nothing, or where it is mapped
\* already.
LEMMA TranslationsRemain ==
    ASSUME Tables, MapIs', Booted, S2Next, NEW w \in Vms, NEW q \in Pages,
           Walk(w, q) # Unmapped
    PROVE  Walk(w, q)' = Walk(w, q)
<1>1. Walk(w, q)' = Translation(w, q)' /\ Walk(w, q) = Translation(w, q)
  BY DEF Tables, MapIs
<1>2. CASE \E v \in Vms : Create(v)
  BY <1>1, <1>2, CreateKeeps DEF Tables
<1>3. ASSUME NEW v \in Vms, MapEntry(v) PROVE Walk(w, q)' = Walk(w, q)
  <2> DEFINE n == mapped[v] + 1
             e == Entries[v][n]
  <2>1. Translation(w, q)' = IF w = v /\ q = e.ipa THEN [pa |-> e.pa, af |-> e.af]
                             ELSE Translation(w, q)
    BY <1>3, EntryEnters DEF Tables
  <2>2. /\ mapped[v] \in Nat /\ mapped[v] < Len(Entries[v]) /\ mapped[v] >= Len(Mmap[v])
        /\ Mmap[v] \in Seq([ipa : Pages, pa : Nat, af : {0, 1}])
    BY <1>3, Stage2Assumption DEF Tables, IInv, TypeOK, Booted, MapEntry
  <2>3. Len(Entries[v]) \in Nat /\ Len(Mmap[v]) \in Nat
    BY <2>2, EntriesAre
  <2>4. \A i \in Len(Mmap[v]) + 1 .. Len(Entries[v]) :
           \E k \in 1 .. Len(Shm) : Entries[v][i] = SharedPage(Shm[k])
    BY EntriesAre
  <2>5. n \in Len(Mmap[v]) + 1 .. Len(Entries[v])
    BY <2>2, <2>3
  <2> HIDE DEF n
  <2>6. PICK k \in 1 .. Len(Shm) : e = SharedPage(Shm[k])
    BY <2>4, <2>5
  <2> HIDE DEF e
  <2>7. CASE w = v /\ q = e.ipa
    <3>1. q = Shm[k] /\ [pa |-> e.pa, af |-> e.af] = [pa |-> q, af |-> 1]
      BY <2>6, <2>7 DEF SharedPage
    <3>2. PICK i \in 1 .. mapped[v] :
             /\ Entries[v][i].ipa = q
             /\ Walk(w, q) = [pa |-> Entries[v][i].pa, af |-> Entries[v][i].af]
      BY <2>7 DEF Tables, Isolated, Given
    <3>3. i \notin 1 .. Len(Mmap[v])
      <4> SUFFICES ASSUME i \in 1 .. Len(Mmap[v]) PROVE FALSE
        OBVIOUS
      <4>1. Mmap[v][i].ipa = Shm[k]
        BY <3>1, <3>2, EntriesAre
      <4> QED BY <2>6, <4>1, VdevsAssumption
    <3>4. i \in Len(Mmap[v]) + 1 .. Len(Entries[v])
      BY <2>2, <2>3, <3>2, <3>3
    <3>5. PICK m \in 1 .. Len(Shm) : Entries[v][i] = SharedPage(Shm[m])
      BY <2>4, <3>4
    <3>6. Walk(w, q) = [pa |-> q, af |-> 1]
      BY <3>2, <3>5 DEF SharedPage
    <3> QED BY <1>1, <2>1, <2>7, <3>1, <3>6
  <2>8. CASE ~ (w = v /\ q = e.ipa)
    BY <1>1, <2>1, <2>8, Zenon
  <2> QED BY <2>7, <2>8
<1> QED BY <1>2, <1>3 DEF S2Next, MapPage, MapShm

\* Writing the tables: while they are incomplete nothing has been written,
\* and afterwards no translation that a page has changes.
LEMMA BootStep ==
    ASSUME Tables, MapIs', WrittenInv, S2Next, UNCHANGED vdevVars
    PROVE  WrittenInv'
<1>0. UNCHANGED <<regs, phys, wrote, vdevCopied>>
  BY DEF vdevVars
<1>1. DevTypes'
  BY <1>0 DEF WrittenInv, DevTypes
<1>2. CASE ~ Booted
  BY <1>0, <1>1, <1>2 DEF WrittenInv, NothingYet, IsSomewhere
<1>3. CASE Booted
  <2>1. \A v \in Vms : mapped'[v] >= Len(Mmap[v])
    <3> SUFFICES ASSUME NEW w \in Vms PROVE mapped'[w] >= Len(Mmap[w])
      OBVIOUS
    <3>1. mapped \in [Vms -> Nat] /\ mapped[w] >= Len(Mmap[w])
      BY <1>3 DEF Tables, IInv, TypeOK, Booted
    <3>2. Len(Mmap[w]) \in Nat
      <4>1. Mmap[w] \in Seq([ipa : Pages, pa : Nat, af : {0, 1}])
        BY Stage2Assumption
      <4> QED BY <4>1
    <3>3. mapped' = mapped \/ \E v \in Vms : mapped' = [mapped EXCEPT ![v] = @ + 1]
      BY DEF S2Next, Create, MapPage, MapShm, MapEntry
    <3> QED BY <3>1, <3>2, <3>3
  <2>2. NothingYet'
    BY <2>1 DEF NothingYet, Booted
  <2>3. ASSUME NEW w \in Vms, NEW q \in Pages, Walk(w, q) # Unmapped
        PROVE  Walk(w, q)' = Walk(w, q)
    BY <1>3, <2>3, TranslationsRemain
  <2>4. ASSUME NEW w \in Vms, NEW q \in Pages
        PROVE  /\ InFrame(w, q) => InFrame(w, q)'
               /\ InDevice(w, q) => InDevice(w, q)'
               /\ LostToCopy(q) => LostToCopy(q)'
    BY <1>0, <2>3 DEF InFrame, OwnFrame, Direct, InDevice, Emulated, LostToCopy
  <2>5. IsSomewhere'
    BY <1>0, <2>4 DEF WrittenInv, IsSomewhere
  <2> QED BY <1>1, <2>2, <2>5 DEF WrittenInv
<1> QED BY <1>2, <1>3

\* A step that touches neither the tables nor what is written.
LEMMA NothingWritten ==
    ASSUME WrittenInv, UNCHANGED s2Vars, UNCHANGED <<regs, phys, wrote, vdevCopied>>
    PROVE  WrittenInv'
<1>1. mem' = mem /\ mapped' = mapped
  BY DEF s2Vars
<1>2. \A w \in Vms, q \in Pages : Walk(w, q)' = Walk(w, q)
  BY <1>1 DEF Walk
<1>3. DevTypes' /\ NothingYet'
  BY <1>1 DEF WrittenInv, DevTypes, NothingYet, Booted
<1>4. ASSUME NEW w \in Vms, NEW q \in Pages
      PROVE  /\ InFrame(w, q) => InFrame(w, q)'
             /\ InDevice(w, q) => InDevice(w, q)'
             /\ LostToCopy(q) => LostToCopy(q)'
  BY <1>2 DEF InFrame, OwnFrame, Direct, InDevice, Emulated, LostToCopy
<1>5. IsSomewhere'
  BY <1>4 DEF WrittenInv, IsSomewhere
<1> QED BY <1>3, <1>5 DEF WrittenInv

\* Every step keeps what has been written.
LEMMA WrittenStep ==
    ASSUME SysregTraps, Tables, MapIs', WrittenInv, [Next]_guestAccessVars
    PROVE  WrittenInv'
<1>1. ASSUME VdevNext, UNCHANGED s2Vars PROVE WrittenInv'
  <2>1. DevTypes' /\ IsSomewhere'
    <3>1. ASSUME NEW v \in Vms, NEW p \in Pages, NEW value \in Written[v][p],
                 Store(v, p, value)
          PROVE  DevTypes' /\ IsSomewhere'
      <4>1. value \in Values
        BY VdevsAssumption
      <4> QED BY <1>1, <3>1, <4>1, StoreStep
    <3>2. ASSUME NEW v \in Vms, NEW b \in Vms, VdevCopy(v, b)
          PROVE  DevTypes' /\ IsSomewhere'
      BY <1>1, <3>2, VdevCopyStep
    <3>3. CASE \E v \in Vms : TrapError(v)
      BY <1>1, <3>3, NothingWritten DEF TrapError, WrittenInv
    <3> QED BY <1>1, <3>1, <3>2, <3>3 DEF VdevNext
  <2>2. Booted
    BY <1>1 DEF VdevNext, Store, TrapError, VdevCopy
  <2>3. NothingYet'
    <3>1. mapped' = mapped
      BY <1>1 DEF s2Vars
    <3> QED BY <2>2, <3>1 DEF NothingYet, Booted
  <2> QED BY <2>1, <2>3 DEF WrittenInv
<1>2. ASSUME UNCHANGED <<s2Vars, vdevVars>> PROVE WrittenInv'
  BY <1>2, NothingWritten DEF vdevVars
<1> QED
  BY <1>1, <1>2, BootStep, PartsStep

\* Before a guest runs nothing has been written.
LEMMA WrittenInit == Init => WrittenInv
<1> SUFFICES ASSUME VdevInit PROVE WrittenInv
  BY DEF Init
<1>1. DevTypes
  BY DEF VdevInit, DevTypes, Content
<1>2. \A v \in Vms, p \in Pages : wrote[v][p] = Nothing
  BY DEF VdevInit
<1> QED
  BY <1>1, <1>2 DEF WrittenInv, NothingYet, IsSomewhere

\* What has been written is what is read.
LEMMA WrittenIsRead == Tables /\ WrittenInv => ReadsOwnWrites
<1> SUFFICES ASSUME Tables, WrittenInv, NEW v \in Vms, NEW p \in Pages,
                    wrote[v][p] # Nothing
             PROVE  \/ Load(v, p) = wrote[v][p]
                    \/ vdevCopied /\ InstanceAt(p) = {"sp804"}
  BY DEF ReadsOwnWrites
<1>1. InFrame(v, p) \/ InDevice(v, p) \/ LostToCopy(p)
  BY DEF WrittenInv, IsSomewhere
<1>2. CASE InFrame(v, p)
  BY <1>2 DEF InFrame, OwnFrame, Load
<1>3. CASE InDevice(v, p)
  <2>1. PICK d \in Devices : PageOf[d] = p /\ Emulated(v, p) /\ regs[v][d] = wrote[v][p]
    BY <1>3 DEF InDevice
  <2>2. InstanceAt(p) = {d}
    BY <2>1, OneInstance
  <2>3. ~ Direct(v, p)
    BY <2>1, DirectIs
  <2>4. (CHOOSE e \in InstanceAt(p) : TRUE) = d
    BY <2>2
  <2> QED BY <2>1, <2>2, <2>3, <2>4 DEF Load, CurrentVm
<1>4. CASE LostToCopy(p)
  BY <1>4, OneInstance DEF LostToCopy
<1> QED BY <1>1, <1>2, <1>3, <1>4

\* A guest reads what it wrote last, in its memory and its devices, whatever
\* other VMs write and whenever a snapshot is taken; so does its backup.  For
\* any number of VMs, any devices (core/vdev.c:24), and any memory maps that
\* leave free the pages of the memory shared with OP-TEE.
THEOREM WritesAreKept == SysregTraps => (Spec => []ReadsOwnWrites)
<1> SUFFICES ASSUME SysregTraps PROVE Spec => []ReadsOwnWrites
  OBVIOUS
<1>1. Spec => []Tables
  <2>1. IInv /\ Isolated /\ Entered => Tables
    BY WalkIs DEF Tables, MapIs
  <2> QED
    BY <2>1, PartsCompose, Stage2Invariant, VmsAreIsolated, MappedIsReached, PTL
<1>2. Tables /\ Tables' /\ WrittenInv /\ [Next]_guestAccessVars => WrittenInv'
  BY WrittenStep DEF Tables
<1>3. Spec => Init /\ [][Next]_guestAccessVars
  BY PTL DEF Spec
<1> QED
  BY <1>1, <1>2, <1>3, WrittenInit, WrittenIsRead, PTL

=============================================================================
