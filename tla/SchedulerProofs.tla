--------------------------- MODULE SchedulerProofs ---------------------------
(***************************************************************************)
(* Proofs about module Scheduler, for any pCPUs, vCPUs, VMs and mapping.   *)
(***************************************************************************)
EXTENDS Scheduler, TLAPS

----------------------------------------------------------------------------
(* The queue operators.                                                    *)

\* Removing a node from the list leaves a list of vCPUs.
LEMMA UnlinkType ==
    ASSUME NEW q \in Seq(Vcpus), NEW v
    PROVE  Unlink(q, v) \in Seq(Vcpus)
<1>1. CASE v \notin Range(q)
  BY <1>1 DEF Unlink
<1>2. CASE v \in Range(q)
  <2> DEFINE at == CHOOSE i \in 1 .. Len(q) : q[i] = v
  <2>1. at \in 1 .. Len(q)
    BY <1>2 DEF Range
  <2>2. Len(q) \in Nat /\ Len(q) - 1 \in Nat
    BY <2>1
  <2>3. Unlink(q, v) = [i \in 1 .. Len(q) - 1 |-> IF i < at THEN q[i] ELSE q[i + 1]]
    BY <1>2 DEF Unlink
  <2>4. \A i \in 1 .. Len(q) - 1 : (IF i < at THEN q[i] ELSE q[i + 1]) \in Vcpus
    BY <2>1, <2>2
  <2> QED  BY <2>2, <2>3, <2>4
<1> QED  BY <1>1, <1>2

\* What sched_rr_do_schedule picks from is a list of vCPUs.
LEMMA RequeuedType ==
    ASSUME TypeOK, NEW p \in Pcpus
    PROVE  Requeued(p) \in Seq(Vcpus)
BY DEF TypeOK, OrNone, Requeued

----------------------------------------------------------------------------
(* Type correctness.                                                       *)

LEMMA PickType ==
    ASSUME TypeOK, NEW p \in Pcpus, Pick(p), PerformSwitch(p, Head(Requeued(p))),
           UNCHANGED <<standby, inflight, todo>>
    PROVE  TypeOK'
<1> DEFINE q == Requeued(p)
           n == Head(q)
<1>1. q \in Seq(Vcpus) /\ q # <<>>
  BY RequeuedType DEF Pick
<1>2. n \in Vcpus /\ Tail(q) \in Seq(Vcpus)
  BY <1>1
<1> HIDE DEF q, n
<1>3. runqueue' = [runqueue EXCEPT ![p] = Tail(q)] /\ current' = [current EXCEPT ![p] = n]
  BY DEF Pick, q, n
<1>4. state' \in [Vcpus -> States]
  BY DEF Pick, TypeOK, States
<1>5. /\ current_vcpuid' = [current_vcpuid EXCEPT ![p] = n]
      /\ current_vcpu'   = [current_vcpu EXCEPT ![p] = n]
      /\ hw'   = [hw EXCEPT ![p] = n]
      /\ mode' = [mode EXCEPT ![p] = "guest"]
  BY DEF PerformSwitch, q, n
<1>6. stage2' \in [Pcpus -> OrNone(VMs)]
  <2>1. VmOf[n] \in OrNone(VMs)
    BY <1>2 DEF VMs, OrNone
  <2>2. stage2' = [stage2 EXCEPT ![p] = VmOf[n]] \/ stage2' = stage2
    BY DEF PerformSwitch, q, n
  <2> QED  BY <2>1, <2>2 DEF TypeOK
<1>7. mem' \in [Vcpus -> Contexts]
  <2>1. mem' = SwitchedOut(p, current_vcpuid[p], n)
    BY DEF PerformSwitch, q, n
  <2> QED  BY <2>1 DEF SwitchedOut, Saved, TypeOK, Contexts, OrNone
<1> QED  BY <1>2, <1>3, <1>4, <1>5, <1>6, <1>7 DEF TypeOK, OrNone, Modes

LEMMA AttachType ==
    ASSUME TypeOK, NEW v \in Vcpus, Attach(v)
    PROVE  /\ standby' = standby /\ current' = current
           /\ state' \in [Vcpus -> States]
           /\ runqueue' \in [Pcpus -> Seq(Vcpus)]
           /\ inflight' \in [Pcpus -> SUBSET Vcpus]
<1>1. CASE CanAttach(v)
  <2>1. PcpuOf[v] \in Pcpus
    BY SchedulerAssumption
  <2>2. Enqueued(runqueue[PcpuOf[v]], v) \in Seq(Vcpus)
    BY <2>1 DEF Enqueued, TypeOK
  <2>3. /\ state' = [state EXCEPT ![v] = "waiting"]
        /\ runqueue' = [runqueue EXCEPT ![PcpuOf[v]] = Enqueued(runqueue[PcpuOf[v]], v)]
        /\ inflight' = [inflight EXCEPT ![PcpuOf[v]] = inflight[PcpuOf[v]] \cup {v}]
        /\ UNCHANGED <<standby, current>>
    BY <1>1, Zenon DEF Attach
  <2> QED  BY <2>1, <2>2, <2>3 DEF TypeOK, States
<1>2. CASE ~ CanAttach(v)
  BY <1>2, Zenon DEF Attach, TypeOK, entries, policy
<1> QED  BY <1>1, <1>2

LEMMA DetachType ==
    ASSUME TypeOK, NEW x \in Pcpus, NEW v \in Vcpus, Detach(x, v)
    PROVE  /\ standby' = standby /\ state' = state /\ current_vcpu' = current_vcpu
           /\ current'  \in [Pcpus -> OrNone(Vcpus)]
           /\ runqueue' \in [Pcpus -> Seq(Vcpus)]
           /\ inflight' \in [Pcpus -> SUBSET Vcpus]
           /\ current_vcpuid' \in [Pcpus -> OrNone(Vcpus)]
<1>1. PcpuOf[v] \in Pcpus
  BY SchedulerAssumption
<1>2. Unlink(runqueue[PcpuOf[v]], v) \in Seq(Vcpus)
  BY <1>1, UnlinkType DEF TypeOK
<1> QED  BY <1>1, <1>2 DEF Detach, DetachedView, TypeOK, OrNone

LEMMA TypeStep == TypeOK /\ [Next]_vars => TypeOK'
<1> SUFFICES ASSUME TypeOK, [Next]_vars PROVE TypeOK'
  OBVIOUS
<1>1. CASE UNCHANGED vars
  BY <1>1 DEF TypeOK, vars, entries, policy, view, context
<1>2. ASSUME NEW v \in Vcpus, VcpuInit(v) PROVE TypeOK'
  BY <1>2, SchedulerAssumption
  DEF VcpuInit, Register, TypeOK, States, view, context, policy
<1>3. ASSUME NEW v \in Vcpus, BootStart(v) PROVE TypeOK'
  BY <1>3, AttachType DEF BootStart, TypeOK, view, context
<1>4. ASSUME NEW p \in Pcpus, SchedStart(p) PROVE TypeOK'
  BY <1>4, PickType DEF SchedStart
<1>5. ASSUME NEW p \in Pcpus, DoSchedule(p) PROVE TypeOK'
  BY <1>5, PickType DEF DoSchedule
<1>6. ASSUME NEW p \in Pcpus, GuestRun(p) PROVE TypeOK'
  BY <1>6 DEF GuestRun, TypeOK, Contexts, entries, policy, view
<1>7. ASSUME NEW p \in Pcpus, NEW v \in Vcpus, VcpuSuspend(p, v) PROVE TypeOK'
  <2>1. todo' \in [Pcpus -> SUBSET Vcpus]
    BY <1>7 DEF VcpuSuspend, TypeOK
  <2>2. mode' \in [Pcpus -> Modes]
    BY <1>7 DEF VcpuSuspend, TypeOK, Modes
  <2>3. mem' \in [Vcpus -> Contexts]
    BY <1>7 DEF VcpuSuspend, Saved, TypeOK, Contexts
  <2> QED  BY <1>7, <2>1, <2>2, <2>3, DetachType DEF VcpuSuspend, TypeOK
<1>8. ASSUME NEW p \in Pcpus, NEW b \in Vcpus, BackupStart(p, b) PROVE TypeOK'
  BY <1>8, AttachType DEF BackupStart, TypeOK, Modes, view
<1>9. ASSUME NEW p \in Pcpus, VmDelete(p) PROVE TypeOK'
  BY <1>9 DEF VmDelete, Unregister, TypeOK, Modes, States, OrNone, view, policy
<1>10. ASSUME NEW p \in Pcpus, NEW v \in Vcpus, CpuOn(p, v) PROVE TypeOK'
  BY <1>10, AttachType DEF CpuOn, TypeOK, Contexts, view
<1>11. ASSUME NEW p \in Pcpus, VmSuspend(p) PROVE TypeOK'
  BY <1>11 DEF VmSuspend, Siblings, TypeOK, Modes, OrNone, entries, policy, view
<1> QED
  BY <1>1, <1>2, <1>3, <1>4, <1>5, <1>6, <1>7, <1>8, <1>9, <1>10, <1>11
  DEF Next, Cpu

LEMMA TypeInit == Init => TypeOK
BY SchedulerAssumption DEF Init, TypeOK, OrNone, States, Modes, Contexts

\* Every variable keeps its type in every behaviour of the scheduler.
THEOREM TypeCorrect == Spec => []TypeOK
<1> QED  BY TypeInit, TypeStep, PTL DEF Spec

----------------------------------------------------------------------------
(* No vCPU is lost.  NoneLost is not inductive as it stands: attaching      *)
(* needs to know that a detached vCPU is on no list, detaching that the     *)
(* vCPU vm_suspend retires is the current one of the pCPU it runs on, and   *)
(* vm_delete that nothing of the VM is attached any more.                   *)

\* An attached vCPU is attached at home and is not SCHED_DETACHED.
AttachedAtHome ==
    \A p \in Pcpus : \A v \in inflight[p] :
        PcpuOf[v] = p /\ state[v] \in {"waiting", "running"}

\* A pCPU that runs a guest, or is in vm_suspend for it, has that guest for
\* the current entry of the policy.
CurrentAgrees ==
    \A p \in Pcpus : mode[p] \in {"guest", "suspend"} =>
        current[p] # None /\ current_vcpu[p] = current[p]

\* What kmus_start suspends, and later deletes, is the vCPU it was called on.
SuspendsItself ==
    \A p \in Pcpus :
        /\ mode[p] \in {"suspend", "backup", "delete"} =>
              current_vcpu[p] \in Vcpus /\ Siblings(p) = {current_vcpu[p]}
        /\ mode[p] = "suspend" => todo[p] = {current_vcpu[p]}

\* Once suspended it stays off the lists.
SuspendedIsOff ==
    \A p \in Pcpus : mode[p] \in {"backup", "delete"} =>
        /\ state[current_vcpu[p]] \in {"waiting", "running", "freed"}
        /\ \A h \in Pcpus : current_vcpu[p] \notin inflight[h]

ListInv == TypeOK /\ NoneLost /\ AttachedAtHome /\ CurrentAgrees
           /\ SuspendsItself /\ SuspendedIsOff

\* Putting an entry back at the tail adds it and repeats nothing.
LEMMA AppendRange ==
    ASSUME NEW S, NEW q \in Seq(S), NEW v \in S
    PROVE  /\ Range(Append(q, v)) = Range(q) \cup {v}
           /\ Injective(q) /\ v \notin Range(q) => Injective(Append(q, v))
<1> DEFINE a == Append(q, v)
           n == Len(q)
<1>1. /\ n \in Nat /\ Len(a) = n + 1 /\ a[n + 1] = v
      /\ \A i \in 1 .. n : a[i] = q[i]
  OBVIOUS
<1> HIDE DEF a
<1>2. Range(a) = Range(q) \cup {v}
  <2>1. \A i \in 1 .. Len(a) : i \in 1 .. n \/ i = n + 1
    BY <1>1
  <2>2. n + 1 \in 1 .. Len(a) /\ \A i \in 1 .. n : i \in 1 .. Len(a)
    BY <1>1
  <2> QED  BY <1>1, <2>1, <2>2 DEF Range
<1>3. ASSUME Injective(q), v \notin Range(q) PROVE Injective(a)
  <2> SUFFICES ASSUME NEW i \in 1 .. Len(a), NEW j \in 1 .. Len(a), a[i] = a[j]
               PROVE  i = j
    BY DEF Injective
  <2>1. CASE i \in 1 .. n /\ j \in 1 .. n
    BY <1>1, <1>3, <2>1 DEF Injective
  <2>2. CASE i = n + 1 /\ j = n + 1
    BY <2>2
  <2>3. CASE i \in 1 .. n /\ j = n + 1
    BY <1>1, <1>3, <2>3 DEF Range
  <2>4. CASE i = n + 1 /\ j \in 1 .. n
    BY <1>1, <1>3, <2>4 DEF Range
  <2> QED  BY <1>1, <2>1, <2>2, <2>3, <2>4
<1> QED  BY <1>2, <1>3 DEF a

\* Taking the first entry off a list without repetition removes just it.
LEMMA TailRange ==
    ASSUME NEW S, NEW q \in Seq(S), q # <<>>
    PROVE  /\ Range(q) = {Head(q)} \cup Range(Tail(q))
           /\ Injective(q) => Injective(Tail(q)) /\ Head(q) \notin Range(Tail(q))
<1> DEFINE t == Tail(q)
           n == Len(q)
<1>1. /\ n \in Nat /\ n >= 1 /\ Len(t) = n - 1 /\ Head(q) = q[1]
      /\ \A i \in 1 .. n - 1 : t[i] = q[i + 1]
  OBVIOUS
<1> HIDE DEF t
<1>2. Range(q) = {Head(q)} \cup Range(t)
  <2>1. ASSUME NEW i \in 1 .. n PROVE q[i] \in {Head(q)} \cup Range(t)
    <3>1. CASE i = 1
      BY <1>1, <3>1
    <3>2. CASE i # 1
      <4>1. i - 1 \in 1 .. Len(t) /\ t[i - 1] = q[i]
        BY <1>1, <3>2
      <4> QED  BY <4>1 DEF Range
    <3> QED  BY <3>1, <3>2
  <2>2. ASSUME NEW i \in 1 .. Len(t) PROVE t[i] \in Range(q)
    <3>1. i + 1 \in 1 .. n /\ t[i] = q[i + 1]
      BY <1>1
    <3> QED  BY <3>1 DEF Range
  <2>3. Head(q) \in Range(q)
    BY <1>1 DEF Range
  <2>4. Range(q) = {q[i] : i \in 1 .. n} /\ Range(t) = {t[i] : i \in 1 .. Len(t)}
    BY DEF Range
  <2> QED  BY <2>1, <2>2, <2>3, <2>4
<1>3. ASSUME Injective(q) PROVE Injective(t) /\ Head(q) \notin Range(t)
  <2>1. \A i \in 1 .. Len(t) : i + 1 \in 1 .. n /\ t[i] = q[i + 1]
    BY <1>1
  <2>2. \A i, j \in 1 .. Len(t) : t[i] = t[j] => i = j
    BY <1>1, <1>3, <2>1 DEF Injective
  <2>3. \A i \in 1 .. Len(t) : t[i] # Head(q)
    BY <1>1, <1>3, <2>1 DEF Injective
  <2> QED  BY <2>2, <2>3 DEF Injective, Range
<1> QED  BY <1>2, <1>3 DEF t

\* What the policy picks from is what is attached to the pCPU.
LEMMA RequeuedRange ==
    ASSUME TypeOK, NoneLost, NEW p \in Pcpus
    PROVE  Range(Requeued(p)) = inflight[p] /\ Injective(Requeued(p))
<1>1. runqueue[p] \in Seq(Vcpus) /\ current[p] \in Vcpus \cup {None}
  BY DEF TypeOK, OrNone
<1>2. /\ Injective(runqueue[p]) /\ current[p] \notin Range(runqueue[p])
      /\ inflight[p] = Range(runqueue[p]) \cup ({current[p]} \ {None})
  BY DEF NoneLost
<1>3. CASE current[p] = None
  BY <1>2, <1>3 DEF Requeued
<1>4. CASE current[p] # None
  <2>1. Requeued(p) = Append(runqueue[p], current[p])
    BY <1>4 DEF Requeued
  <2>2. current[p] \in Vcpus
    BY <1>1, <1>4
  <2> QED  BY <1>1, <1>2, <1>4, <2>1, <2>2, AppendRange
<1> QED  BY <1>3, <1>4

LEMMA PickInv ==
    ASSUME ListInv, TypeOK', NEW p \in Pcpus, Pick(p),
           PerformSwitch(p, Head(Requeued(p))), UNCHANGED <<standby, inflight, todo>>
    PROVE  ListInv'
<1> DEFINE q == Requeued(p)
           n == Head(q)
<1>1. q \in Seq(Vcpus) /\ q # <<>> /\ Range(q) = inflight[p] /\ Injective(q)
  BY RequeuedType, RequeuedRange DEF Pick, ListInv
<1>2. /\ inflight[p] = {n} \cup Range(Tail(q))
      /\ Injective(Tail(q)) /\ n \notin Range(Tail(q)) /\ n \in Vcpus /\ n # None
  BY <1>1, TailRange, SchedulerAssumption
<1>3. /\ runqueue' = [runqueue EXCEPT ![p] = Tail(q)]
      /\ current'  = [current EXCEPT ![p] = n]
      /\ current_vcpu' = [current_vcpu EXCEPT ![p] = n]
      /\ mode' = [mode EXCEPT ![p] = "guest"]
      /\ inflight' = inflight /\ todo' = todo
  BY DEF Pick, PerformSwitch
<1>4. /\ \A v \in Vcpus : state'[v] \in {state[v], "waiting", "running"}
      /\ \A v \in Vcpus : v \notin inflight[p] => state'[v] = state[v]
  <2>1. current[p] # None => current[p] \in inflight[p]
    BY DEF ListInv, NoneLost
  <2>2. state' = [v \in Vcpus |-> IF v = n THEN "running"
                                  ELSE IF v = current[p] THEN "waiting" ELSE state[v]]
    BY DEF Pick
  <2>3. n \in inflight[p]
    BY <1>2
  <2> HIDE DEF n
  <2> QED  BY <2>1, <2>2, <2>3, SchedulerAssumption
<1> HIDE DEF q, n
<1>5. NoneLost'
  <2> SUFFICES ASSUME NEW c \in Pcpus
               PROVE  /\ Injective(runqueue'[c]) /\ current'[c] \notin Range(runqueue'[c])
                      /\ inflight'[c] = Range(runqueue'[c]) \cup ({current'[c]} \ {None})
    BY DEF NoneLost, Injective, Range
  <2>1. CASE c = p
    BY <1>2, <1>3, <2>1 DEF ListInv, TypeOK
  <2>2. CASE c # p
    <3>1. runqueue'[c] = runqueue[c] /\ current'[c] = current[c] /\ inflight'[c] = inflight[c]
      BY <1>3, <2>2 DEF ListInv, TypeOK
    <3> QED  BY <3>1 DEF ListInv, NoneLost
  <2> QED  BY <2>1, <2>2
<1>6. AttachedAtHome'
  BY <1>3, <1>4 DEF ListInv, AttachedAtHome, TypeOK
<1>7. CurrentAgrees'
  BY <1>2, <1>3 DEF ListInv, CurrentAgrees, TypeOK
<1>8. SuspendsItself'
  BY <1>3 DEF ListInv, SuspendsItself, Siblings, TypeOK
<1>9. SuspendedIsOff'
  <2> SUFFICES ASSUME NEW c \in Pcpus, mode'[c] \in {"backup", "delete"}
               PROVE  /\ state'[current_vcpu'[c]] \in {"waiting", "running", "freed"}
                      /\ \A h \in Pcpus : current_vcpu'[c] \notin inflight'[h]
    BY DEF SuspendedIsOff
  <2>1. c # p /\ mode[c] \in {"backup", "delete"} /\ current_vcpu'[c] = current_vcpu[c]
    BY <1>3 DEF ListInv, TypeOK
  <2>2. current_vcpu[c] \in Vcpus
    BY <2>1 DEF ListInv, SuspendsItself
  <2> QED  BY <1>3, <1>4, <2>1, <2>2 DEF ListInv, SuspendedIsOff
<1> QED  BY <1>5, <1>6, <1>7, <1>8, <1>9 DEF ListInv

LEMMA AttachInv ==
    ASSUME ListInv, TypeOK', NEW v \in Vcpus, Attach(v), UNCHANGED current_vcpu, UNCHANGED todo,
           \A p \in Pcpus : mode'[p] # mode[p] => mode[p] = "backup" /\ mode'[p] = "delete"
    PROVE  ListInv'
<1> DEFINE h == PcpuOf[v]
<1>0. h \in Pcpus /\ v # None
  BY SchedulerAssumption
<1>1. \A p \in Pcpus :
         /\ mode'[p] \in {"guest", "suspend"} => mode[p] = mode'[p]
         /\ mode'[p] \in {"backup", "delete"} => mode[p] \in {"backup", "delete"}
  OBVIOUS
<1>2. CurrentAgrees' /\ SuspendsItself'
  <2>1. current' = current
    BY AttachType DEF ListInv
  <2> QED  BY <1>1, <2>1 DEF ListInv, CurrentAgrees, SuspendsItself, Siblings
<1>3. CASE CanAttach(v)
  <2>1. /\ state'    = [state EXCEPT ![v] = "waiting"]
        /\ runqueue' = [runqueue EXCEPT ![h] = Enqueued(runqueue[h], v)]
        /\ inflight' = [inflight EXCEPT ![h] = inflight[h] \cup {v}]
        /\ UNCHANGED <<standby, current>>
    BY <1>3, Zenon DEF Attach
  <2>2. state[v] = "detached" /\ \A p \in Pcpus : v \notin inflight[p]
    BY <1>3 DEF CanAttach, ListInv, AttachedAtHome
  <2>3. /\ v \notin Range(runqueue[h]) /\ v # current[h]
        /\ runqueue[h] \in Seq(Vcpus) /\ Injective(runqueue[h])
    BY <1>0, <2>2 DEF ListInv, NoneLost, TypeOK
  <2>4. /\ Range(Enqueued(runqueue[h], v)) = Range(runqueue[h]) \cup {v}
        /\ Injective(Enqueued(runqueue[h], v))
    BY <2>3, AppendRange DEF Enqueued
  <2>5. NoneLost'
    <3> SUFFICES ASSUME NEW c \in Pcpus
                 PROVE  /\ Injective(runqueue'[c]) /\ current'[c] \notin Range(runqueue'[c])
                        /\ inflight'[c] = Range(runqueue'[c]) \cup ({current'[c]} \ {None})
      BY DEF NoneLost, Injective, Range
    <3>1. CASE c = h
      BY <1>0, <2>1, <2>3, <2>4, <3>1 DEF ListInv, NoneLost, TypeOK
    <3>2. CASE c # h
      <4>1. runqueue'[c] = runqueue[c] /\ current'[c] = current[c] /\ inflight'[c] = inflight[c]
        BY <1>0, <2>1, <3>2 DEF ListInv, TypeOK
      <4> QED  BY <4>1 DEF ListInv, NoneLost
    <3> QED  BY <3>1, <3>2
  <2>6. AttachedAtHome'
    BY <1>0, <2>1 DEF ListInv, AttachedAtHome, TypeOK
  <2>7. SuspendedIsOff'
    <3> SUFFICES ASSUME NEW c \in Pcpus, mode'[c] \in {"backup", "delete"}
                 PROVE  /\ state'[current_vcpu[c]] \in {"waiting", "running", "freed"}
                        /\ \A p \in Pcpus : current_vcpu[c] \notin inflight'[p]
      BY DEF SuspendedIsOff
    <3>1. /\ current_vcpu[c] \in Vcpus
          /\ state[current_vcpu[c]] \in {"waiting", "running", "freed"}
          /\ \A p \in Pcpus : current_vcpu[c] \notin inflight[p]
      BY <1>1 DEF ListInv, SuspendedIsOff, SuspendsItself
    <3>2. current_vcpu[c] # v
      BY <2>2, <3>1
    <3> QED  BY <1>0, <2>1, <3>1, <3>2 DEF ListInv, TypeOK
  <2> QED  BY <1>2, <2>5, <2>6, <2>7 DEF ListInv
<1>4. CASE ~ CanAttach(v)
  <2>1. UNCHANGED <<inflight, state, runqueue, current>>
    BY <1>4, Zenon DEF Attach, entries, policy
  <2>2. NoneLost' /\ AttachedAtHome'
    BY <2>1 DEF ListInv, NoneLost, AttachedAtHome, Injective, Range
  <2>3. SuspendedIsOff'
    BY <1>1, <2>1 DEF ListInv, SuspendedIsOff
  <2> QED  BY <1>2, <2>2, <2>3 DEF ListInv
<1> QED  BY <1>3, <1>4

LEMMA VcpuSuspendInv ==
    ASSUME ListInv, TypeOK', NEW x \in Pcpus, NEW v \in Vcpus, VcpuSuspend(x, v)
    PROVE  ListInv'
<1>1. /\ mode[x] = "suspend" /\ todo[x] = {v} /\ v = current_vcpu[x] /\ v = current[x]
      /\ Siblings(x) = {v} /\ v # None
  BY SchedulerAssumption DEF VcpuSuspend, ListInv, SuspendsItself, CurrentAgrees
<1>2. v \in inflight[x] /\ PcpuOf[v] = x /\ state[v] \in {"waiting", "running"}
  BY <1>1 DEF ListInv, NoneLost, AttachedAtHome
<1>3. v \notin Range(runqueue[x])
  BY <1>1 DEF ListInv, NoneLost
<1>4. /\ runqueue' = runqueue
      /\ current'  = [current EXCEPT ![x] = None]
      /\ inflight' = [inflight EXCEPT ![x] = inflight[x] \ {v}]
      /\ state' = state /\ current_vcpu' = current_vcpu
      /\ todo' = [todo EXCEPT ![x] = {}]
      /\ mode' = [mode EXCEPT ![x] = "backup"]
  <2>1. Unlink(runqueue[x], v) = runqueue[x]
    BY <1>3 DEF Unlink
  <2>2. runqueue' = [runqueue EXCEPT ![x] = Unlink(runqueue[x], v)]
    BY <1>2 DEF VcpuSuspend, Detach
  <2>3. runqueue' = runqueue
    BY <2>1, <2>2 DEF ListInv, TypeOK
  <2>4. todo' = [todo EXCEPT ![x] = {}] /\ todo'[x] = {}
    BY <1>1 DEF VcpuSuspend, ListInv, TypeOK
  <2>5. mode' = [mode EXCEPT ![x] = "backup"]
    BY <2>4 DEF VcpuSuspend
  <2> QED  BY <1>2, <2>3, <2>4, <2>5 DEF VcpuSuspend, Detach
<1>5. NoneLost'
  <2> SUFFICES ASSUME NEW c \in Pcpus
               PROVE  /\ Injective(runqueue[c]) /\ current'[c] \notin Range(runqueue[c])
                      /\ inflight'[c] = Range(runqueue[c]) \cup ({current'[c]} \ {None})
    BY <1>4 DEF NoneLost, Injective, Range
  <2>1. /\ Injective(runqueue[c]) /\ current[c] \notin Range(runqueue[c])
        /\ inflight[c] = Range(runqueue[c]) \cup ({current[c]} \ {None})
    BY DEF ListInv, NoneLost
  <2>2. None \notin Range(runqueue[c])
    BY SchedulerAssumption DEF Range, ListInv, TypeOK
  <2> QED  BY <1>1, <1>3, <1>4, <2>1, <2>2 DEF ListInv, TypeOK
<1>6. AttachedAtHome'
  BY <1>4 DEF ListInv, AttachedAtHome, TypeOK
<1>7. CurrentAgrees'
  BY <1>4 DEF ListInv, CurrentAgrees, TypeOK
<1>8. SuspendsItself'
  BY <1>1, <1>4 DEF ListInv, SuspendsItself, Siblings, TypeOK
<1>9. SuspendedIsOff'
  <2> SUFFICES ASSUME NEW c \in Pcpus, mode'[c] \in {"backup", "delete"}
               PROVE  /\ state[current_vcpu[c]] \in {"waiting", "running", "freed"}
                      /\ \A h \in Pcpus : current_vcpu[c] \notin inflight'[h]
    BY <1>4 DEF SuspendedIsOff
  <2>1. CASE c = x
    <3>1. \A h \in Pcpus : h # x => v \notin inflight[h]
      BY <1>2 DEF ListInv, AttachedAtHome
    <3>2. \A h \in Pcpus : v \notin inflight'[h]
      BY <1>4, <3>1 DEF ListInv, TypeOK
    <3> QED  BY <1>1, <1>2, <2>1, <3>2
  <2>2. CASE c # x
    <3>1. mode[c] \in {"backup", "delete"}
      BY <1>4, <2>2 DEF ListInv, TypeOK
    <3>2. \A h \in Pcpus : inflight'[h] \subseteq inflight[h]
      BY <1>4 DEF ListInv, TypeOK
    <3> QED  BY <3>1, <3>2 DEF ListInv, SuspendedIsOff
  <2> QED  BY <2>1, <2>2
<1> QED  BY <1>5, <1>6, <1>7, <1>8, <1>9 DEF ListInv

LEMMA ListStep == ListInv /\ [Next]_vars => ListInv'
<1> SUFFICES ASSUME ListInv, [Next]_vars PROVE ListInv'
  OBVIOUS
<1>0. TypeOK'
  BY TypeStep DEF ListInv
<1>1. CASE UNCHANGED vars
  BY <1>0, <1>1 DEF ListInv, NoneLost, AttachedAtHome, CurrentAgrees, SuspendsItself,
     SuspendedIsOff, Siblings, Injective, Range, vars, entries, policy, view, context
<1>2. ASSUME NEW v \in Vcpus, VcpuInit(v) PROVE ListInv'
  <2>1. /\ state[v] = "none" /\ state' = [state EXCEPT ![v] = "detached"]
        /\ UNCHANGED <<inflight, runqueue, current, current_vcpu, mode, todo>>
    BY <1>2 DEF VcpuInit, Register, policy, view, context
  <2>2. NoneLost' /\ CurrentAgrees' /\ SuspendsItself'
    BY <2>1 DEF ListInv, NoneLost, CurrentAgrees, SuspendsItself, Siblings, Injective, Range
  <2>3. AttachedAtHome' /\ SuspendedIsOff'
    BY <2>1 DEF ListInv, AttachedAtHome, SuspendedIsOff, SuspendsItself, TypeOK
  <2> QED  BY <1>0, <2>2, <2>3 DEF ListInv
<1>3. ASSUME NEW v \in Vcpus, BootStart(v) PROVE ListInv'
  BY <1>0, <1>3, AttachInv DEF BootStart, view, context
<1>4. ASSUME NEW p \in Pcpus, SchedStart(p) PROVE ListInv'
  BY <1>0, <1>4, PickInv DEF SchedStart
<1>5. ASSUME NEW p \in Pcpus, DoSchedule(p) PROVE ListInv'
  BY <1>0, <1>5, PickInv DEF DoSchedule
<1>6. ASSUME NEW p \in Pcpus, GuestRun(p) PROVE ListInv'
  BY <1>0, <1>6 DEF GuestRun, ListInv, NoneLost, AttachedAtHome, CurrentAgrees, SuspendsItself,
     SuspendedIsOff, Siblings, Injective, Range, entries, policy, view
<1>7. ASSUME NEW p \in Pcpus, NEW v \in Vcpus, VcpuSuspend(p, v) PROVE ListInv'
  BY <1>0, <1>7, VcpuSuspendInv
<1>8. ASSUME NEW p \in Pcpus, NEW b \in Vcpus, BackupStart(p, b) PROVE ListInv'
  <2>1. /\ Attach(b) /\ UNCHANGED current_vcpu /\ UNCHANGED todo
        /\ mode[p] = "backup" /\ mode' = [mode EXCEPT ![p] = "delete"]
    BY <1>8 DEF BackupStart, view
  <2>2. \A c \in Pcpus : mode'[c] # mode[c] => mode[c] = "backup" /\ mode'[c] = "delete"
    BY <2>1 DEF ListInv, TypeOK
  <2> QED  BY <1>0, <2>1, <2>2, AttachInv
<1>9. ASSUME NEW p \in Pcpus, VmDelete(p) PROVE ListInv'
  <2>1. /\ mode[p] = "delete" /\ mode' = [mode EXCEPT ![p] = "hyp"]
        /\ state' = [v \in Vcpus |-> IF v \in Siblings(p) THEN "freed" ELSE state[v]]
        /\ UNCHANGED <<inflight, runqueue, current, current_vcpu, todo>>
    BY <1>9 DEF VmDelete, Unregister, policy, view
  <2>2. \A c \in Pcpus : inflight[c] \cap Siblings(p) = {}
    BY <2>1 DEF ListInv, SuspendsItself, SuspendedIsOff
  <2>3. NoneLost'
    BY <2>1 DEF ListInv, NoneLost, Injective, Range
  <2>4. AttachedAtHome'
    BY <2>1, <2>2 DEF ListInv, AttachedAtHome, TypeOK
  <2>5. CurrentAgrees' /\ SuspendsItself'
    BY <2>1 DEF ListInv, CurrentAgrees, SuspendsItself, Siblings, TypeOK
  <2>6. SuspendedIsOff'
    BY <2>1 DEF ListInv, SuspendedIsOff, SuspendsItself, TypeOK
  <2> QED  BY <1>0, <2>3, <2>4, <2>5, <2>6 DEF ListInv
<1>10. ASSUME NEW p \in Pcpus, NEW v \in Vcpus, CpuOn(p, v) PROVE ListInv'
  BY <1>0, <1>10, AttachInv DEF CpuOn, view
<1>11. ASSUME NEW p \in Pcpus, VmSuspend(p), Siblings(p) = {current_vcpu[p]} PROVE ListInv'
  <2>1. /\ mode[p] = "guest" /\ mode' = [mode EXCEPT ![p] = "suspend"]
        /\ todo' = [todo EXCEPT ![p] = Siblings(p)]
        /\ UNCHANGED <<inflight, state, runqueue, current, current_vcpu>>
    BY <1>11 DEF VmSuspend, entries, policy, view
  <2>2. NoneLost' /\ AttachedAtHome'
    BY <2>1 DEF ListInv, NoneLost, AttachedAtHome, Injective, Range
  <2>3. CurrentAgrees' /\ SuspendedIsOff'
    BY <2>1 DEF ListInv, CurrentAgrees, SuspendedIsOff, TypeOK
  <2>4. SuspendsItself'
    <3>1. current_vcpu[p] \in Vcpus
      BY <1>11 DEF Siblings
    <3> QED  BY <1>11, <2>1, <3>1 DEF ListInv, SuspendsItself, Siblings, TypeOK
  <2> QED  BY <1>0, <2>2, <2>3, <2>4 DEF ListInv
<1> QED
  BY <1>1, <1>2, <1>3, <1>4, <1>5, <1>6, <1>7, <1>8, <1>9, <1>10, <1>11
  DEF Next, Cpu

LEMMA ListInit == Init => ListInv
<1> SUFFICES ASSUME Init PROVE ListInv
  OBVIOUS
<1>1. TypeOK
  BY TypeInit
<1>2. NoneLost
  <2> SUFFICES ASSUME NEW p \in Pcpus
               PROVE  /\ Injective(runqueue[p]) /\ current[p] \notin Range(runqueue[p])
                      /\ inflight[p] = Range(runqueue[p]) \cup ({current[p]} \ {None})
    BY DEF NoneLost
  <2>1. runqueue[p] = <<>> /\ current[p] = None /\ inflight[p] = {}
    BY DEF Init
  <2>2. Len(<<>>) = 0 /\ 1 .. 0 = {}
    OBVIOUS
  <2>3. Range(runqueue[p]) = {} /\ Injective(runqueue[p])
    BY <2>1, <2>2 DEF Range, Injective
  <2> QED  BY <2>1, <2>3
<1>3. AttachedAtHome /\ CurrentAgrees /\ SuspendsItself /\ SuspendedIsOff
  BY DEF Init, AttachedAtHome, CurrentAgrees, SuspendsItself, SuspendedIsOff
<1> QED  BY <1>1, <1>2, <1>3 DEF ListInv

\* No vCPU is lost and none is queued twice, in every behaviour in which
\* each vCPU is switched on once and the suspended VM has one vCPU.
THEOREM NoVcpuLost == Spec => []NoneLost
<1>1. ListInv => NoneLost
  BY DEF ListInv
<1> QED  BY <1>1, ListInit, ListStep, PTL DEF Spec

----------------------------------------------------------------------------
(* One guest at a time, and nothing left of a deleted vCPU.  Both need to   *)
(* know, for every place kmus_start can be at, what the views of the        *)
(* current vCPU and the registers of the pCPU hold.                         *)

\* current_vcpuid is the policy's entry, or VCPUID_INVALID once it is detached.
IdAgrees ==
    \A p \in Pcpus :
        /\ mode[p] \in {"guest", "suspend"} => current_vcpuid[p] = current[p]
        /\ mode[p] \in {"start", "backup", "delete", "hyp"} => current_vcpuid[p] = None

\* The registers are those of the vCPU last switched to, until its VM is gone.
\* current_vcpu keeps pointing to it.
HwAgrees ==
    \A p \in Pcpus :
        /\ mode[p] \in {"start", "hyp"} => hw[p] = None
        /\ mode[p] = "start" => current_vcpu[p] = None
        /\ mode[p] = "hyp" => PcpuOf[current_vcpu[p]] = p
        /\ mode[p] \in {"guest", "suspend", "backup", "delete"} =>
              hw[p] = current_vcpu[p] /\ PcpuOf[hw[p]] = p /\ state[hw[p]] # "freed"

\* The tables are those of the guest's VM and its entry is the running one.
GuestRuns ==
    \A p \in Pcpus : mode[p] = "guest" =>
        stage2[p] = VmOf[current[p]] /\ state[current[p]] = "running"

\* A vCPU is registered at home, and a freed one nowhere.
FreedIsOff ==
    \A v \in Vcpus : state[v] = "freed" => v \notin standby[PcpuOf[v]]

GuestInv == ListInv /\ IdAgrees /\ HwAgrees /\ GuestRuns /\ FreedIsOff

LEMMA PickGuest ==
    ASSUME GuestInv, ListInv', NEW p \in Pcpus, mode[p] \in {"start", "guest", "hyp"},
           Pick(p), PerformSwitch(p, Head(Requeued(p))), UNCHANGED <<standby, inflight, todo>>
    PROVE  GuestInv'
<1> DEFINE q == Requeued(p)
           n == Head(q)
<1>1. n \in Vcpus /\ n # None /\ n \in inflight[p] /\ PcpuOf[n] = p
  <2>1. q \in Seq(Vcpus) /\ q # <<>> /\ Range(q) = inflight[p]
    BY RequeuedType, RequeuedRange DEF Pick, GuestInv, ListInv
  <2>2. n \in Vcpus /\ n \in Range(q)
    BY <2>1, TailRange
  <2> QED  BY <2>1, <2>2, SchedulerAssumption DEF GuestInv, ListInv, AttachedAtHome
<1>2. /\ current' = [current EXCEPT ![p] = n]
      /\ current_vcpuid' = [current_vcpuid EXCEPT ![p] = n]
      /\ current_vcpu' = [current_vcpu EXCEPT ![p] = n]
      /\ hw'   = [hw EXCEPT ![p] = n]
      /\ mode' = [mode EXCEPT ![p] = "guest"]
      /\ standby' = standby
  BY DEF Pick, PerformSwitch
<1>3. stage2' = IF ChangesVm(current_vcpuid[p], n) THEN [stage2 EXCEPT ![p] = VmOf[n]] ELSE stage2
  BY DEF PerformSwitch
<1>4. /\ state'[n] = "running"
      /\ \A v \in Vcpus : state'[v] \in {state[v], "waiting", "running"}
      /\ \A v \in Vcpus : v \notin inflight[p] => state'[v] = state[v]
  <2>1. current[p] # None => current[p] \in inflight[p]
    BY DEF GuestInv, ListInv, NoneLost
  <2>2. state' = [v \in Vcpus |-> IF v = n THEN "running"
                                  ELSE IF v = current[p] THEN "waiting" ELSE state[v]]
    BY DEF Pick
  <2> HIDE DEF n
  <2> QED  BY <1>1, <2>1, <2>2, SchedulerAssumption
<1> HIDE DEF q, n
<1>5. IdAgrees'
  BY <1>2 DEF GuestInv, ListInv, TypeOK, IdAgrees
<1>6. HwAgrees'
  <2> SUFFICES ASSUME NEW c \in Pcpus
               PROVE  /\ mode'[c] \in {"start", "hyp"} => hw'[c] = None
                      /\ mode'[c] = "start" => current_vcpu'[c] = None
                      /\ mode'[c] = "hyp" => PcpuOf[current_vcpu'[c]] = c
                      /\ mode'[c] \in {"guest", "suspend", "backup", "delete"} =>
                           /\ hw'[c] = current_vcpu'[c] /\ PcpuOf[hw'[c]] = c
                           /\ state'[hw'[c]] # "freed"
    BY DEF HwAgrees
  <2>1. CASE c = p
    BY <1>1, <1>2, <1>4, <2>1 DEF GuestInv, ListInv, TypeOK
  <2>2. CASE c # p
    <3>1. mode'[c] = mode[c] /\ hw'[c] = hw[c] /\ current_vcpu'[c] = current_vcpu[c]
      BY <1>2, <2>2 DEF GuestInv, ListInv, TypeOK
    <3>2. mode[c] \in {"guest", "suspend", "backup", "delete"} => hw[c] \in Vcpus
      BY DEF GuestInv, ListInv, TypeOK, OrNone, HwAgrees, CurrentAgrees, SuspendsItself
    <3> QED  BY <1>4, <3>1, <3>2 DEF GuestInv, HwAgrees
  <2> QED  BY <2>1, <2>2
<1>7. GuestRuns'
  <2> SUFFICES ASSUME NEW c \in Pcpus, mode'[c] = "guest"
               PROVE  stage2'[c] = VmOf[current'[c]] /\ state'[current'[c]] = "running"
    BY DEF GuestRuns
  <2>1. CASE c = p
    <3>1. CASE ChangesVm(current_vcpuid[p], n)
      BY <1>2, <1>3, <1>4, <2>1, <3>1, Zenon DEF GuestInv, ListInv, TypeOK
    <3>2. CASE ~ ChangesVm(current_vcpuid[p], n)
      <4>1. current_vcpuid[p] # None /\ VmOf[current_vcpuid[p]] = VmOf[n]
        BY <3>2 DEF ChangesVm
      <4>2. mode[p] = "guest" /\ current_vcpuid[p] = current[p]
        BY <4>1 DEF GuestInv, IdAgrees
      <4>3. stage2' = stage2
        BY <1>3, <3>2, Zenon
      <4>4. current'[p] = n
        BY <1>2 DEF GuestInv, ListInv, TypeOK
      <4>5. stage2[p] = VmOf[current[p]]
        BY <4>2 DEF GuestInv, GuestRuns
      <4>6. stage2'[p] = VmOf[n]
        BY <4>1, <4>2, <4>3, <4>5
      <4> QED  BY <1>4, <2>1, <4>4, <4>6
    <3> QED  BY <3>1, <3>2
  <2>2. CASE c # p
    <3>1. mode[c] = "guest" /\ current'[c] = current[c]
      BY <1>2, <2>2 DEF GuestInv, ListInv, TypeOK
    <3>2. current[c] \in Vcpus /\ current[c] \notin inflight[p]
      <4>1. current[c] \in Vcpus /\ current[c] # None
        BY <3>1 DEF GuestInv, ListInv, TypeOK, OrNone, CurrentAgrees
      <4>2. current[c] \in inflight[c]
        BY <4>1 DEF GuestInv, ListInv, NoneLost
      <4>3. \A h \in Pcpus : current[c] \in inflight[h] => PcpuOf[current[c]] = h
        BY DEF GuestInv, ListInv, AttachedAtHome
      <4> QED  BY <2>2, <4>1, <4>2, <4>3
    <3>3. stage2'[c] = stage2[c]
      <4>1. stage2' = [stage2 EXCEPT ![p] = VmOf[n]] \/ stage2' = stage2
        BY <1>3, Zenon
      <4> QED  BY <2>2, <4>1 DEF GuestInv, ListInv, TypeOK
    <3> QED  BY <1>4, <3>1, <3>2, <3>3 DEF GuestInv, GuestRuns
  <2> QED  BY <2>1, <2>2
<1>8. FreedIsOff'
  BY <1>2, <1>4 DEF GuestInv, FreedIsOff
<1> QED  BY <1>5, <1>6, <1>7, <1>8 DEF GuestInv

LEMMA AttachGuest ==
    ASSUME GuestInv, ListInv', NEW v \in Vcpus, Attach(v),
           UNCHANGED <<view, todo, hw, stage2>>,
           \A p \in Pcpus : mode'[p] # mode[p] => mode[p] = "backup" /\ mode'[p] = "delete"
    PROVE  GuestInv'
<1>1. /\ standby' = standby /\ current' = current
      /\ current_vcpuid' = current_vcpuid /\ current_vcpu' = current_vcpu
  BY AttachType DEF GuestInv, ListInv, view
<1>2. \A u \in Vcpus : state'[u] = state[u] \/ (state[u] = "detached" /\ state'[u] = "waiting")
  <2>1. CASE CanAttach(v)
    <3>1. state' = [state EXCEPT ![v] = "waiting"]
      BY <2>1, Zenon DEF Attach
    <3>2. state[v] = "detached"
      BY <2>1 DEF CanAttach
    <3> QED  BY <3>1, <3>2 DEF GuestInv, ListInv, TypeOK
  <2>2. CASE ~ CanAttach(v)
    BY <2>2, Zenon DEF Attach, entries
  <2> QED  BY <2>1, <2>2
<1>3. IdAgrees'
  BY <1>1 DEF GuestInv, IdAgrees
<1>4. HwAgrees'
  <2>1. \A c \in Pcpus : mode[c] \in {"guest", "suspend", "backup", "delete"} => hw[c] \in Vcpus
    BY DEF GuestInv, ListInv, TypeOK, OrNone, HwAgrees, CurrentAgrees, SuspendsItself
  <2> QED  BY <1>1, <1>2, <2>1 DEF GuestInv, HwAgrees
<1>5. GuestRuns'
  <2> SUFFICES ASSUME NEW c \in Pcpus, mode'[c] = "guest"
               PROVE  stage2'[c] = VmOf[current'[c]] /\ state'[current'[c]] = "running"
    BY DEF GuestRuns
  <2>1. mode[c] = "guest" /\ current[c] \in Vcpus
    BY DEF GuestInv, ListInv, TypeOK, OrNone, CurrentAgrees
  <2> QED  BY <1>1, <1>2, <2>1 DEF GuestInv, GuestRuns
<1>6. FreedIsOff'
  BY <1>1, <1>2 DEF GuestInv, FreedIsOff
<1> QED  BY <1>3, <1>4, <1>5, <1>6 DEF GuestInv

LEMMA GuestStep == GuestInv /\ [Next]_vars => GuestInv'
<1> SUFFICES ASSUME GuestInv, [Next]_vars PROVE GuestInv'
  OBVIOUS
<1>0. ListInv'
  BY ListStep DEF GuestInv
<1>a. \A c \in Pcpus :
         /\ mode[c] \in {"guest", "suspend", "backup", "delete"} => hw[c] \in Vcpus
         /\ mode[c] = "guest" => current[c] \in Vcpus /\ current[c] \in inflight[c]
  BY DEF GuestInv, ListInv, TypeOK, OrNone, HwAgrees, CurrentAgrees, SuspendsItself, NoneLost
<1>1. CASE UNCHANGED vars
  BY <1>0, <1>1 DEF GuestInv, IdAgrees, HwAgrees, GuestRuns, FreedIsOff,
     vars, entries, policy, view, context
<1>2. ASSUME NEW v \in Vcpus, VcpuInit(v) PROVE GuestInv'
  <2>1. /\ state[v] = "none" /\ state' = [state EXCEPT ![v] = "detached"]
        /\ standby' = [standby EXCEPT ![PcpuOf[v]] = standby[PcpuOf[v]] \cup {v}]
        /\ UNCHANGED <<current, current_vcpuid, current_vcpu, mode, hw, stage2>>
    BY <1>2 DEF VcpuInit, Register, policy, view, context
  <2>2. IdAgrees'
    BY <2>1 DEF GuestInv, IdAgrees
  <2>3. HwAgrees'
    BY <1>a, <2>1 DEF GuestInv, HwAgrees, ListInv, TypeOK
  <2>4. GuestRuns'
    BY <1>a, <2>1 DEF GuestInv, GuestRuns, ListInv, TypeOK
  <2>5. FreedIsOff'
    BY <2>1, SchedulerAssumption DEF GuestInv, FreedIsOff, ListInv, TypeOK
  <2> QED  BY <1>0, <2>2, <2>3, <2>4, <2>5 DEF GuestInv
<1>3. ASSUME NEW v \in Vcpus, BootStart(v) PROVE GuestInv'
  BY <1>0, <1>3, AttachGuest DEF BootStart, context
<1>4. ASSUME NEW p \in Pcpus, SchedStart(p) PROVE GuestInv'
  BY <1>0, <1>4, PickGuest DEF SchedStart
<1>5. ASSUME NEW p \in Pcpus, DoSchedule(p) PROVE GuestInv'
  BY <1>0, <1>5, PickGuest DEF DoSchedule
<1>6. ASSUME NEW p \in Pcpus, GuestRun(p) PROVE GuestInv'
  BY <1>0, <1>6 DEF GuestRun, GuestInv, IdAgrees, HwAgrees, GuestRuns, FreedIsOff,
     entries, policy, view
<1>7. ASSUME NEW x \in Pcpus, NEW v \in Vcpus, VcpuSuspend(x, v) PROVE GuestInv'
  <2>1. /\ mode[x] = "suspend" /\ todo[x] = {v} /\ v = current_vcpu[x] /\ v = current[x]
    BY <1>7 DEF VcpuSuspend, GuestInv, ListInv, SuspendsItself, CurrentAgrees
  <2>2. PcpuOf[v] = x
    BY <2>1, SchedulerAssumption DEF GuestInv, ListInv, NoneLost, AttachedAtHome
  <2>3. /\ current'  = [current EXCEPT ![x] = None]
        /\ current_vcpuid' = [current_vcpuid EXCEPT ![x] = None]
        /\ UNCHANGED <<standby, state, current_vcpu, hw, stage2>>
    BY <1>7, <2>1, <2>2 DEF VcpuSuspend, Detach, DetachedView
  <2>4. mode' = [mode EXCEPT ![x] = "backup"]
    BY <1>7, <2>1 DEF VcpuSuspend, GuestInv, ListInv, TypeOK
  <2>5. IdAgrees'
    BY <2>3, <2>4 DEF GuestInv, IdAgrees, ListInv, TypeOK
  <2>6. HwAgrees'
    BY <2>1, <2>3, <2>4 DEF GuestInv, HwAgrees, ListInv, TypeOK
  <2>7. GuestRuns'
    BY <2>3, <2>4 DEF GuestInv, GuestRuns, ListInv, TypeOK
  <2>8. FreedIsOff'
    BY <2>3 DEF GuestInv, FreedIsOff
  <2> QED  BY <1>0, <2>5, <2>6, <2>7, <2>8 DEF GuestInv
<1>8. ASSUME NEW p \in Pcpus, NEW b \in Vcpus, BackupStart(p, b) PROVE GuestInv'
  <2>1. /\ Attach(b) /\ UNCHANGED <<view, todo, hw, stage2>>
        /\ mode[p] = "backup" /\ mode' = [mode EXCEPT ![p] = "delete"]
    BY <1>8 DEF BackupStart
  <2>2. \A c \in Pcpus : mode'[c] # mode[c] => mode[c] = "backup" /\ mode'[c] = "delete"
    BY <2>1 DEF GuestInv, ListInv, TypeOK
  <2> QED  BY <1>0, <2>1, <2>2, AttachGuest
<1>9. ASSUME NEW p \in Pcpus, VmDelete(p) PROVE GuestInv'
  <2>1. /\ mode[p] = "delete" /\ mode' = [mode EXCEPT ![p] = "hyp"]
        /\ state' = [v \in Vcpus |-> IF v \in Siblings(p) THEN "freed" ELSE state[v]]
        /\ standby' = [c \in Pcpus |-> standby[c] \ Siblings(p)]
        /\ hw' = [hw EXCEPT ![p] = None]
        /\ UNCHANGED <<current, current_vcpuid, current_vcpu, stage2>>
    BY <1>9 DEF VmDelete, Unregister, policy, view
  <2>2. /\ Siblings(p) = {hw[p]} /\ PcpuOf[hw[p]] = p /\ hw[p] \in Vcpus
        /\ hw[p] \notin UNION {inflight[c] : c \in Pcpus}
    BY <2>1 DEF GuestInv, ListInv, SuspendsItself, HwAgrees, SuspendedIsOff
  <2>3. IdAgrees'
    BY <2>1 DEF GuestInv, IdAgrees, ListInv, TypeOK
  <2>4. HwAgrees'
    BY <1>a, <2>1, <2>2 DEF GuestInv, HwAgrees, ListInv, TypeOK
  <2>5. GuestRuns'
    BY <1>a, <2>1, <2>2 DEF GuestInv, GuestRuns, ListInv, TypeOK
  <2>6. FreedIsOff'
    BY <2>1, SchedulerAssumption DEF GuestInv, FreedIsOff
  <2> QED  BY <1>0, <2>3, <2>4, <2>5, <2>6 DEF GuestInv
<1>10. ASSUME NEW p \in Pcpus, NEW v \in Vcpus, CpuOn(p, v) PROVE GuestInv'
  BY <1>0, <1>10, AttachGuest DEF CpuOn
<1>11. ASSUME NEW p \in Pcpus, VmSuspend(p) PROVE GuestInv'
  <2>1. /\ mode[p] = "guest" /\ mode' = [mode EXCEPT ![p] = "suspend"]
        /\ stage2' = [stage2 EXCEPT ![p] = None]
        /\ UNCHANGED <<standby, state, current, current_vcpuid, current_vcpu, hw>>
    BY <1>11 DEF VmSuspend, entries, policy, view
  <2>2. IdAgrees' /\ HwAgrees' /\ FreedIsOff'
    BY <2>1 DEF GuestInv, IdAgrees, HwAgrees, FreedIsOff, ListInv, TypeOK
  <2>3. GuestRuns'
    BY <2>1 DEF GuestInv, GuestRuns, ListInv, TypeOK
  <2> QED  BY <1>0, <2>2, <2>3 DEF GuestInv
<1> QED
  BY <1>1, <1>2, <1>3, <1>4, <1>5, <1>6, <1>7, <1>8, <1>9, <1>10, <1>11
  DEF Next, Cpu

LEMMA GuestInit == Init => GuestInv
<1> SUFFICES ASSUME Init PROVE GuestInv
  OBVIOUS
<1>1. IdAgrees /\ HwAgrees /\ GuestRuns /\ FreedIsOff
  BY DEF Init, IdAgrees, HwAgrees, GuestRuns, FreedIsOff
<1> QED  BY <1>1, ListInit DEF GuestInv

\* While a guest executes, the policy, both views, the registers and the
\* stage 2 tables of its pCPU agree on who it is.
THEOREM OneGuestAtATime == Spec => []OneGuest
<1>1. GuestInv => OneGuest
  BY SchedulerAssumption
  DEF GuestInv, ListInv, CurrentAgrees, IdAgrees, HwAgrees, GuestRuns, OneGuest
<1> QED  BY <1>1, GuestInit, GuestStep, PTL DEF Spec

\* No list has a vCPU that vm_delete has freed, no pCPU executes it, and no
\* switch will save through a view of it; current_vcpu points to it only on its
\* own pCPU, in the while(1) of kmus_start, where every switch replaces it.
THEOREM NoDanglingVcpu == Spec => []DeletedIsGone
<1>1. GuestInv => DeletedIsGone
  <2> SUFFICES ASSUME GuestInv, NEW v \in Vcpus, state[v] = "freed", NEW p \in Pcpus
               PROVE  /\ v \notin standby[PcpuOf[v]] /\ v \notin inflight[p]
                      /\ v \notin Range(runqueue[p])
                      /\ v \notin {current[p], current_vcpuid[p], hw[p]}
                      /\ current_vcpu[p] = v => mode[p] = "hyp" /\ p = PcpuOf[v]
    BY DEF DeletedIsGone, GuestInv, FreedIsOff
  <2>1. v \notin inflight[p] /\ v # None
    BY SchedulerAssumption DEF GuestInv, ListInv, AttachedAtHome
  <2>2. v \notin Range(runqueue[p]) /\ v # current[p]
    BY <2>1 DEF GuestInv, ListInv, NoneLost
  <2>3. mode[p] \in {"start", "guest", "suspend", "backup", "delete", "hyp"}
    BY DEF GuestInv, ListInv, TypeOK, Modes
  <2>4. v # current_vcpuid[p] /\ v # hw[p]
    BY <2>1, <2>2, <2>3 DEF GuestInv, IdAgrees, HwAgrees
  <2>5. current_vcpu[p] = v => mode[p] = "hyp" /\ p = PcpuOf[v]
    BY <2>1, <2>3 DEF GuestInv, HwAgrees
  <2> QED  BY <2>1, <2>2, <2>4, <2>5 DEF GuestInv, FreedIsOff
<1> QED  BY <1>1, GuestInit, GuestStep, PTL DEF Spec
----------------------------------------------------------------------------
(* What no pCPU holds is intact in memory.  SavedContext alone is not      *)
(* inductive: vm_delete forgets the registers, so that the context which   *)
(* vm_suspend has saved must still be intact by then.                      *)

\* The vCPU that has been suspended is saved.
SuspendedIsSaved ==
    \A p \in Pcpus : mode[p] \in {"backup", "delete"} => mem[hw[p]] = "fresh"

SavedInv == GuestInv /\ SavedContext /\ SuspendedIsSaved

\* A switch saves the vCPU that it takes off the pCPU, and no other.
LEMMA PickSaved ==
    ASSUME SavedInv, GuestInv', NEW p \in Pcpus, mode[p] \in {"start", "guest", "hyp"},
           Pick(p), PerformSwitch(p, Head(Requeued(p)))
    PROVE  SavedInv'
<1> DEFINE n == Head(Requeued(p))
           previous == current_vcpuid[p]
<1>1. /\ mem' = IF previous # None THEN [mem EXCEPT ![previous] = Saved(p, previous)] ELSE mem
      /\ hw' = [hw EXCEPT ![p] = n] /\ mode' = [mode EXCEPT ![p] = "guest"]
  BY DEF PerformSwitch, SwitchedOut
<1> HIDE DEF n
<1>2. previous = hw[p]
  <2>1. mode[p] = "guest" => previous = current[p] /\ hw[p] = current_vcpu[p] /\ current_vcpu[p] = current[p]
    BY DEF SavedInv, GuestInv, IdAgrees, HwAgrees, ListInv, CurrentAgrees
  <2>2. mode[p] \in {"start", "hyp"} => previous = None /\ hw[p] = None
    BY DEF SavedInv, GuestInv, IdAgrees, HwAgrees
  <2> QED  BY <2>1, <2>2
<1>3. \A v \in Vcpus : mem'[v] = IF v = hw[p] THEN "fresh" ELSE mem[v]
  BY <1>1, <1>2, SchedulerAssumption DEF Saved, SavedInv, GuestInv, ListInv, TypeOK
<1>4. SavedContext'
  <2> SUFFICES ASSUME NEW v \in Vcpus, hw'[PcpuOf[v]] # v PROVE mem'[v] = "fresh"
    BY DEF SavedContext
  <2>1. CASE v = hw[p]
    BY <1>3, <2>1
  <2>2. CASE v # hw[p]
    <3>1. hw[PcpuOf[v]] # v
      BY <1>1, <2>2 DEF SavedInv, GuestInv, ListInv, TypeOK
    <3> QED  BY <1>3, <2>2, <3>1 DEF SavedInv, SavedContext
  <2> QED  BY <2>1, <2>2
<1>5. SuspendedIsSaved'
  <2> SUFFICES ASSUME NEW c \in Pcpus, mode'[c] \in {"backup", "delete"} PROVE mem'[hw'[c]] = "fresh"
    BY DEF SuspendedIsSaved
  <2>1. c # p /\ mode[c] = mode'[c] /\ hw'[c] = hw[c]
    BY <1>1 DEF SavedInv, GuestInv, ListInv, TypeOK
  <2>2. hw[c] \in Vcpus /\ mem[hw[c]] = "fresh"
    BY <2>1 DEF SavedInv, SuspendedIsSaved, GuestInv, HwAgrees, ListInv, SuspendsItself
  <2> QED  BY <1>3, <2>1, <2>2
<1> QED  BY <1>4, <1>5 DEF SavedInv

\* Every step keeps saved contexts intact.
LEMMA SavedStep == SavedInv /\ [Next]_vars => SavedInv'
<1> SUFFICES ASSUME SavedInv, [Next]_vars PROVE SavedInv'
  OBVIOUS
<1>0. GuestInv'
  BY GuestStep DEF SavedInv
<1>a. \A c \in Pcpus : mode[c] \in {"guest", "suspend", "backup", "delete"} =>
         hw[c] \in Vcpus /\ PcpuOf[hw[c]] = c
  BY DEF SavedInv, GuestInv, ListInv, TypeOK, OrNone, HwAgrees, CurrentAgrees, SuspendsItself
<1>1. CASE UNCHANGED <<mode, hw, mem>>
  BY <1>0, <1>1 DEF SavedInv, SavedContext, SuspendedIsSaved
<1>2. ASSUME NEW p \in Pcpus, SchedStart(p) \/ DoSchedule(p) PROVE SavedInv'
  BY <1>0, <1>2, PickSaved DEF SchedStart, DoSchedule
<1>3. ASSUME NEW p \in Pcpus, GuestRun(p) PROVE SavedInv'
  <2>1. mode[p] = "guest" /\ mem' = [mem EXCEPT ![hw[p]] = "stale"] /\ UNCHANGED <<mode, hw>>
    BY <1>3 DEF GuestRun
  <2>2. SavedContext'
    BY <1>a, <2>1 DEF SavedInv, SavedContext, GuestInv, ListInv, TypeOK
  <2>3. SuspendedIsSaved'
    <3> SUFFICES ASSUME NEW c \in Pcpus, mode[c] \in {"backup", "delete"} PROVE mem'[hw[c]] = "fresh"
      BY <2>1 DEF SuspendedIsSaved
    <3>1. hw[c] # hw[p]
      BY <1>a, <2>1
    <3> QED  BY <1>a, <2>1, <3>1 DEF SavedInv, SuspendedIsSaved, GuestInv, ListInv, TypeOK
  <2> QED  BY <1>0, <2>2, <2>3 DEF SavedInv
<1>4. ASSUME NEW x \in Pcpus, NEW v \in Vcpus, VcpuSuspend(x, v) PROVE SavedInv'
  <2>1. mode[x] = "suspend" /\ v = hw[x]
    BY <1>4 DEF VcpuSuspend, SavedInv, GuestInv, HwAgrees, ListInv, SuspendsItself
  <2>2. mem' = [mem EXCEPT ![v] = "fresh"] /\ hw' = hw
    BY <1>4, <2>1 DEF VcpuSuspend, Saved
  <2>3. \A c \in Pcpus : c # x => mode'[c] = mode[c]
    BY <1>4 DEF VcpuSuspend, SavedInv, GuestInv, ListInv, TypeOK
  <2>4. \A u \in Vcpus : mem'[u] = "fresh" \/ mem'[u] = mem[u]
    BY <2>2 DEF SavedInv, GuestInv, ListInv, TypeOK
  <2>5. SavedContext'
    BY <2>2, <2>4 DEF SavedInv, SavedContext
  <2>6. SuspendedIsSaved'
    <3> SUFFICES ASSUME NEW c \in Pcpus, mode'[c] \in {"backup", "delete"} PROVE mem'[hw[c]] = "fresh"
      BY <2>2 DEF SuspendedIsSaved
    <3>1. CASE c = x
      BY <2>1, <2>2, <3>1 DEF SavedInv, GuestInv, ListInv, TypeOK
    <3>2. CASE c # x
      BY <1>a, <2>3, <2>4, <3>2 DEF SavedInv, SuspendedIsSaved
    <3> QED  BY <3>1, <3>2
  <2> QED  BY <1>0, <2>5, <2>6 DEF SavedInv
<1>5. ASSUME NEW p \in Pcpus, NEW b \in Vcpus, BackupStart(p, b) PROVE SavedInv'
  <2>1. mode[p] = "backup" /\ mode' = [mode EXCEPT ![p] = "delete"] /\ UNCHANGED <<hw, mem>>
    BY <1>5 DEF BackupStart
  <2> QED  BY <1>0, <2>1 DEF SavedInv, SavedContext, SuspendedIsSaved, GuestInv, ListInv, TypeOK
<1>6. ASSUME NEW p \in Pcpus, VmDelete(p) PROVE SavedInv'
  <2>1. /\ mode[p] = "delete" /\ mode' = [mode EXCEPT ![p] = "hyp"]
        /\ hw' = [hw EXCEPT ![p] = None] /\ mem' = mem
    BY <1>6 DEF VmDelete
  <2>2. SavedContext'
    <3> SUFFICES ASSUME NEW v \in Vcpus, hw'[PcpuOf[v]] # v PROVE mem[v] = "fresh"
      BY <2>1 DEF SavedContext
    <3>1. CASE v = hw[p]
      BY <2>1, <3>1 DEF SavedInv, SuspendedIsSaved
    <3>2. CASE v # hw[p]
      BY <2>1, <3>2, SchedulerAssumption DEF SavedInv, SavedContext, GuestInv, ListInv, TypeOK
    <3> QED  BY <3>1, <3>2
  <2>3. SuspendedIsSaved'
    BY <2>1 DEF SavedInv, SuspendedIsSaved, GuestInv, ListInv, TypeOK
  <2> QED  BY <1>0, <2>2, <2>3 DEF SavedInv
<1>7. ASSUME NEW p \in Pcpus, NEW v \in Vcpus, CanAttach(v), CpuOn(p, v) PROVE SavedInv'
  <2>1. mem' = [mem EXCEPT ![v] = "fresh"] /\ UNCHANGED <<mode, hw>>
    BY <1>7 DEF CpuOn
  <2>2. \A u \in Vcpus : mem'[u] = "fresh" \/ mem'[u] = mem[u]
    BY <2>1 DEF SavedInv, GuestInv, ListInv, TypeOK
  <2> QED  BY <1>0, <1>a, <2>1, <2>2 DEF SavedInv, SavedContext, SuspendedIsSaved
<1>8. ASSUME NEW p \in Pcpus, VmSuspend(p) PROVE SavedInv'
  <2>1. mode' = [mode EXCEPT ![p] = "suspend"] /\ UNCHANGED <<hw, mem>>
    BY <1>8 DEF VmSuspend
  <2> QED  BY <1>0, <2>1 DEF SavedInv, SavedContext, SuspendedIsSaved, GuestInv, ListInv, TypeOK
<1>9. ASSUME NEW v \in Vcpus, VcpuInit(v) \/ BootStart(v) PROVE SavedInv'
  BY <1>1, <1>9 DEF VcpuInit, BootStart, context
<1>10. CASE UNCHANGED vars
  BY <1>1, <1>10 DEF vars, context
<1> QED
  BY <1>2, <1>3, <1>4, <1>5, <1>6, <1>7, <1>8, <1>9, <1>10 DEF Next, Cpu

\* At boot every context is a VM's entry state.
LEMMA SavedInit == Init => SavedInv
<1> SUFFICES ASSUME Init PROVE SavedInv
  OBVIOUS
<1>1. SavedContext /\ SuspendedIsSaved
  BY DEF Init, SavedContext, SuspendedIsSaved
<1> QED  BY <1>1, GuestInit DEF SavedInv

\* A vCPU that no pCPU holds resumes where it stopped, or starts at its entry
\* point: nobody writes into struct vcpu but the switch that takes it off.
THEOREM ContextsAreKept == Spec => []SavedContext
<1>1. SavedInv => SavedContext
  BY DEF SavedInv
<1> QED  BY <1>1, SavedInit, SavedStep, PTL DEF Spec

----------------------------------------------------------------------------
(* The queue discipline, and the service of module VcpuService.  Both      *)
(* follow from what a step does to the lists, in states of ListInv.        *)

\* A step takes the head of a runqueue for the current entry, adds to its
\* tail, or leaves it alone.
LEMMA QueueStep ==
    ASSUME ListInv, [Next]_vars, NEW p \in Pcpus
    PROVE  \/ Pick(p)
           \/ \E v \in Vcpus : runqueue'[p] = Append(runqueue[p], v)
           \/ runqueue'[p] = runqueue[p]
<1>1. ASSUME NEW v \in Vcpus, Attach(v)
      PROVE  runqueue'[p] = Append(runqueue[p], v) \/ runqueue'[p] = runqueue[p]
  <2>1. CASE CanAttach(v)
    <3>1. runqueue' = [runqueue EXCEPT ![PcpuOf[v]] = Append(runqueue[PcpuOf[v]], v)]
      BY <1>1, <2>1, Zenon DEF Attach, Enqueued
    <3> QED  BY <3>1 DEF ListInv, TypeOK
  <2>2. CASE ~ CanAttach(v)
    BY <1>1, <2>2, Zenon DEF Attach, policy
  <2> QED  BY <2>1, <2>2
<1>2. ASSUME NEW c \in Pcpus, Pick(c), c # p PROVE runqueue'[p] = runqueue[p]
  BY <1>2 DEF Pick, ListInv, TypeOK
<1>3. ASSUME NEW x \in Pcpus, NEW v \in Vcpus, VcpuSuspend(x, v) PROVE runqueue'[p] = runqueue[p]
  <2>1. v = current[x] /\ v \in Vcpus /\ v # None
    BY <1>3, SchedulerAssumption DEF VcpuSuspend, ListInv, SuspendsItself, CurrentAgrees
  <2>2. v \in inflight[x] /\ PcpuOf[v] = x
    BY <2>1 DEF ListInv, NoneLost, AttachedAtHome
  <2>3. Unlink(runqueue[x], v) = runqueue[x]
    BY <2>1 DEF Unlink, ListInv, NoneLost
  <2>4. runqueue' = [runqueue EXCEPT ![x] = Unlink(runqueue[x], v)]
    BY <1>3, <2>2 DEF VcpuSuspend, Detach
  <2> QED  BY <2>3, <2>4 DEF ListInv, TypeOK
<1>4. ASSUME NEW v \in Vcpus, VcpuInit(v) PROVE runqueue'[p] = runqueue[p]
  BY <1>4 DEF VcpuInit, Register, policy
<1>5. ASSUME NEW c \in Pcpus, GuestRun(c) \/ VmDelete(c) \/ VmSuspend(c) PROVE runqueue'[p] = runqueue[p]
  BY <1>5 DEF GuestRun, VmDelete, Unregister, VmSuspend, policy
<1>6. CASE UNCHANGED vars
  BY <1>6 DEF vars, policy
<1>7. ASSUME NEW c \in Pcpus, SchedStart(c) \/ DoSchedule(c) PROVE Pick(p) \/ runqueue'[p] = runqueue[p]
  BY <1>2, <1>7 DEF SchedStart, DoSchedule
<1> QED
  BY <1>1, <1>3, <1>4, <1>5, <1>6, <1>7 DEF Next, Cpu, BootStart, CpuOn, BackupStart

\* Round robin: no vCPU moves back in its runqueue, none is overtaken, and
\* none leaves it but for the processor.
THEOREM QueueIsFair == Spec => NoOvertaking
<1> DEFINE Kept(p, i) == LET v == runqueue[p][i]
                         IN  \/ current'[p] = v
                             \/ \E j \in 1 .. i : j <= Len(runqueue'[p]) /\ runqueue'[p][j] = v
<1>1. ASSUME ListInv, [Next]_vars, NEW p \in Pcpus, NEW i \in 1 .. Len(runqueue[p]) PROVE Kept(p, i)
  <2>1. runqueue[p] \in Seq(Vcpus) /\ Len(runqueue[p]) \in Nat /\ i \in Nat
    BY <1>1 DEF ListInv, TypeOK
  <2>2. CASE Pick(p)
    <3> DEFINE q == Requeued(p)
    <3>1. /\ q \in Seq(Vcpus) /\ q # <<>> /\ i <= Len(q) /\ q[i] = runqueue[p][i]
      BY <1>1, <2>1, <2>2, RequeuedType DEF Requeued, Pick, ListInv, TypeOK, OrNone
    <3>2. current'[p] = Head(q) /\ runqueue'[p] = Tail(q)
      BY <1>1, <2>2 DEF Pick, ListInv, TypeOK
    <3> HIDE DEF q
    <3>3. CASE i = 1
      BY <3>1, <3>2, <3>3
    <3>4. CASE i # 1
      <4>1. i - 1 \in 1 .. i /\ i - 1 <= Len(Tail(q)) /\ Tail(q)[i - 1] = q[i]
        BY <2>1, <3>1, <3>4
      <4> QED  BY <3>1, <3>2, <4>1
    <3> QED  BY <3>3, <3>4
  <2>3. ASSUME NEW v \in Vcpus, runqueue'[p] = Append(runqueue[p], v) PROVE Kept(p, i)
    <3>1. i \in 1 .. i /\ i <= Len(runqueue'[p]) /\ runqueue'[p][i] = runqueue[p][i]
      BY <2>1, <2>3
    <3> QED  BY <3>1
  <2>4. CASE runqueue'[p] = runqueue[p]
    BY <2>1, <2>4
  <2> QED  BY <1>1, <2>2, <2>3, <2>4, QueueStep
<1>2. ListInv /\ [Next]_vars =>
         [\A p \in Pcpus : \A i \in 1 .. Len(runqueue[p]) : Kept(p, i)]_vars
  BY <1>1
<1> QED  BY <1>2, ListInit, ListStep, PTL DEF Spec, NoOvertaking

\* The place of a vCPU, said of the vCPU.
LEMMA PlaceOf ==
    ASSUME NEW v \in Vcpus
    PROVE  place[v] = IF v \in inflight[PcpuOf[v]]
                      THEN IF current[PcpuOf[v]] = v THEN "on" ELSE "ready"
                      ELSE IF state[v] \in {"none", "detached"} THEN "off" ELSE "gone"
  BY DEF place

\* A switch to another vCPU dispatches it, one to the same changes no place.
LEMMA PickServes ==
    ASSUME ListInv, NEW p \in Pcpus, Pick(p), inflight' = inflight
    PROVE  (\E v \in Vcpus : Service!Dispatch(v)) \/ place' = place
<1> DEFINE q == Requeued(p)
           n == Head(q)
<1>1. n \in Vcpus /\ n \in inflight[p] /\ PcpuOf[n] = p
  <2>1. q \in Seq(Vcpus) /\ q # <<>> /\ Range(q) = inflight[p]
    BY RequeuedType, RequeuedRange DEF Pick, ListInv
  <2>2. n \in Vcpus /\ n \in Range(q)
    BY <2>1, TailRange
  <2> QED  BY <2>1, <2>2 DEF ListInv, AttachedAtHome
<1>2. current' = [current EXCEPT ![p] = n]
  BY DEF Pick
<1>3. \A v \in Vcpus : v \notin inflight[p] => state'[v] = state[v]
  <2>1. current[p] # None => current[p] \in inflight[p]
    BY DEF ListInv, NoneLost
  <2>2. state' = [v \in Vcpus |-> IF v = n THEN "running"
                                  ELSE IF v = current[p] THEN "waiting" ELSE state[v]]
    BY DEF Pick
  <2> HIDE DEF n
  <2> QED  BY <1>1, <2>1, <2>2, SchedulerAssumption
<1> HIDE DEF q, n
<1>4. \A v \in Vcpus : place'[v] =
         IF v = n THEN "on" ELSE IF PcpuOf[v] = p /\ place[v] = "on" THEN "ready" ELSE place[v]
  <2> SUFFICES ASSUME NEW v \in Vcpus
               PROVE  place'[v] = IF v = n THEN "on"
                                  ELSE IF PcpuOf[v] = p /\ place[v] = "on" THEN "ready" ELSE place[v]
    OBVIOUS
  <2>0. place'[v] = IF v \in inflight'[PcpuOf[v]]
                    THEN IF current'[PcpuOf[v]] = v THEN "on" ELSE "ready"
                    ELSE IF state'[v] \in {"none", "detached"} THEN "off" ELSE "gone"
    BY DEF place
  <2>1. CASE PcpuOf[v] = p
    BY <1>1, <1>2, <1>3, <2>0, <2>1, PlaceOf DEF ListInv, TypeOK
  <2>2. CASE PcpuOf[v] # p
    <3>1. v \notin inflight[p] /\ current'[PcpuOf[v]] = current[PcpuOf[v]]
      BY <1>2, <2>2, SchedulerAssumption DEF ListInv, AttachedAtHome, TypeOK
    <3> QED  BY <1>1, <1>3, <2>0, <2>2, <3>1, PlaceOf
  <2> QED  BY <2>1, <2>2
<1>5. place[n] \in {"ready", "on"}
  BY <1>1, PlaceOf
<1>6. CASE place[n] = "ready"
  <2>1. place' = [u \in Vcpus |-> IF u = n THEN "on"
                                  ELSE IF PcpuOf[u] = PcpuOf[n] /\ place[u] = "on"
                                  THEN "ready" ELSE place[u]]
    BY <1>1, <1>4 DEF place
  <2> QED  BY <1>1, <1>6, <2>1 DEF Service!Dispatch
<1>7. CASE place[n] = "on"
  <2>1. \A v \in Vcpus : PcpuOf[v] = p /\ place[v] = "on" => v = n
    BY <1>1, <1>7, PlaceOf
  <2>2. \A v \in Vcpus : place'[v] = place[v]
    BY <1>4, <1>7, <2>1
  <2> QED  BY <2>2 DEF place
<1> QED  BY <1>5, <1>6, <1>7

\* An attach that is not refused powers the vCPU on.
LEMMA AttachServes ==
    ASSUME ListInv, NEW v \in Vcpus, Attach(v)
    PROVE  Service!PowerOn(v) \/ place' = place
<1> DEFINE h == PcpuOf[v]
<1>0. h \in Pcpus /\ v # None
  BY SchedulerAssumption
<1>1. CASE CanAttach(v)
  <2>1. /\ state'    = [state EXCEPT ![v] = "waiting"]
        /\ inflight' = [inflight EXCEPT ![h] = inflight[h] \cup {v}]
        /\ current' = current
    BY <1>1, Zenon DEF Attach
  <2>2. state[v] = "detached" /\ v \notin inflight[h]
    BY <1>0, <1>1 DEF CanAttach, ListInv, AttachedAtHome
  <2>3. current[h] # v
    BY <1>0, <2>2 DEF ListInv, NoneLost
  <2>4. place[v] = "off"
    BY <2>2, PlaceOf
  <2>5. \A u \in Vcpus : place'[u] = IF u = v THEN "ready" ELSE place[u]
    <3> SUFFICES ASSUME NEW u \in Vcpus PROVE place'[u] = IF u = v THEN "ready" ELSE place[u]
      OBVIOUS
    <3>1. place'[u] = IF u \in inflight'[PcpuOf[u]]
                      THEN IF current'[PcpuOf[u]] = u THEN "on" ELSE "ready"
                      ELSE IF state'[u] \in {"none", "detached"} THEN "off" ELSE "gone"
      BY DEF place
    <3>2. PcpuOf[u] \in Pcpus
      BY SchedulerAssumption
    <3> QED  BY <1>0, <2>1, <2>3, <3>1, <3>2, PlaceOf DEF ListInv, TypeOK
  <2>6. place' = [place EXCEPT ![v] = "ready"]
    BY <2>5 DEF place
  <2> QED  BY <2>4, <2>6 DEF Service!PowerOn
<1>2. CASE ~ CanAttach(v)
  <2>1. UNCHANGED <<inflight, state, current>>
    BY <1>2, Zenon DEF Attach, entries, policy
  <2> QED  BY <2>1 DEF place
<1> QED  BY <1>1, <1>2

\* Every step of the scheduler is one of the service, or changes no place.
LEMMA ServiceStep == ListInv /\ [Next]_vars => [Service!Next]_place
<1> SUFFICES ASSUME ListInv, [Next]_vars
             PROVE  \/ \E v \in Vcpus : Service!PowerOn(v) \/ Service!Dispatch(v) \/ Service!Retire(v)
                    \/ place' = place
  BY DEF Service!Next
<1>1. ASSUME UNCHANGED <<inflight, state, current>> PROVE place' = place
  BY <1>1 DEF place
<1>2. ASSUME NEW v \in Vcpus, VcpuInit(v) PROVE place' = place
  <2>1. /\ state[v] = "none" /\ state' = [state EXCEPT ![v] = "detached"]
        /\ UNCHANGED <<inflight, current>>
    BY <1>2 DEF VcpuInit, Register, policy
  <2>2. \A u \in Vcpus : state'[u] \in {"none", "detached"} <=> state[u] \in {"none", "detached"}
    BY <2>1 DEF ListInv, TypeOK
  <2> QED  BY <2>1, <2>2 DEF place
<1>3. ASSUME NEW v \in Vcpus, Attach(v) PROVE Service!PowerOn(v) \/ place' = place
  BY <1>3, AttachServes
<1>4. ASSUME NEW p \in Pcpus, SchedStart(p) \/ DoSchedule(p)
      PROVE  (\E v \in Vcpus : Service!Dispatch(v)) \/ place' = place
  BY <1>4, PickServes DEF SchedStart, DoSchedule
<1>5. ASSUME NEW x \in Pcpus, NEW v \in Vcpus, VcpuSuspend(x, v) PROVE Service!Retire(v)
  <2>1. v = current[x] /\ v # None
    BY <1>5, SchedulerAssumption DEF VcpuSuspend, ListInv, SuspendsItself, CurrentAgrees
  <2>2. v \in inflight[x] /\ PcpuOf[v] = x /\ state[v] \in {"waiting", "running"}
    BY <2>1 DEF ListInv, NoneLost, AttachedAtHome
  <2>3. /\ current'  = [current EXCEPT ![x] = None]
        /\ inflight' = [inflight EXCEPT ![x] = inflight[x] \ {v}]
        /\ state' = state
    BY <1>5, <2>2 DEF VcpuSuspend, Detach
  <2>4. place[v] = "on"
    BY <2>1, <2>2, PlaceOf
  <2>5. \A u \in Vcpus : place'[u] = IF u = v THEN "gone" ELSE place[u]
    <3> SUFFICES ASSUME NEW u \in Vcpus PROVE place'[u] = IF u = v THEN "gone" ELSE place[u]
      OBVIOUS
    <3>1. place'[u] = IF u \in inflight'[PcpuOf[u]]
                      THEN IF current'[PcpuOf[u]] = u THEN "on" ELSE "ready"
                      ELSE IF state'[u] \in {"none", "detached"} THEN "off" ELSE "gone"
      BY DEF place
    <3>2. PcpuOf[u] \in Pcpus /\ u # None
      BY SchedulerAssumption
    <3> QED  BY <2>1, <2>2, <2>3, <3>1, <3>2, PlaceOf DEF ListInv, TypeOK
  <2>6. place' = [place EXCEPT ![v] = "gone"]
    BY <2>5 DEF place
  <2> QED  BY <2>4, <2>6 DEF Service!Retire
<1>6. ASSUME NEW p \in Pcpus, VmDelete(p) PROVE place' = place
  <2>1. /\ mode[p] = "delete" /\ UNCHANGED <<inflight, current>>
        /\ state' = [v \in Vcpus |-> IF v \in Siblings(p) THEN "freed" ELSE state[v]]
    BY <1>6 DEF VmDelete, Unregister, policy
  <2>2. \A v \in Siblings(p) : state[v] \in {"waiting", "running", "freed"}
    BY <2>1 DEF ListInv, SuspendsItself, SuspendedIsOff
  <2>3. \A u \in Vcpus : state'[u] \in {"none", "detached"} <=> state[u] \in {"none", "detached"}
    BY <2>1, <2>2
  <2> QED  BY <2>1, <2>3 DEF place
<1>7. ASSUME NEW p \in Pcpus, GuestRun(p) \/ VmSuspend(p) PROVE place' = place
  BY <1>1, <1>7 DEF GuestRun, VmSuspend, entries, policy
<1>8. CASE UNCHANGED vars
  BY <1>1, <1>8 DEF vars, entries, policy
<1> QED
  BY <1>2, <1>3, <1>4, <1>5, <1>6, <1>7, <1>8 DEF Next, Cpu, BootStart, CpuOn, BackupStart

\* The scheduler does nothing that the service of VcpuService does not allow:
\* a vCPU that is ready or on its pCPU gives it up to another or is retired,
\* one at a time is on a pCPU, and a retired one does not come back.
THEOREM ServiceIsSafe == Spec => Service!Init /\ [][Service!Next]_place
<1>1. Init => Service!Init
  BY SchedulerAssumption DEF Init, Service!Init, place
<1> QED  BY <1>1, ListInit, ListStep, ServiceStep, PTL DEF Spec

=============================================================================
