----------------------------- MODULE Scheduler -----------------------------
(***************************************************************************)
(* The vCPU scheduler of core/sched/scheduler.c under the round-robin      *)
(* policy of core/sched/rr.c, with the context switch it drives            *)
(* (core/vm/context_switch.c) and the calls that reach it: boot            *)
(* (vcpu_init, vcpu_start), PSCI CPU_ON (arch/arm/psci.c) and              *)
(* vm_suspend / vm_delete as kmus_start (core/kmus.c) makes them.          *)
(*                                                                         *)
(* Every handler runs in HYP mode with interrupts masked, so on one pCPU   *)
(* it is a single step.  The source takes no lock, and two pCPUs may be    *)
(* inside the same list; that is the subject of module RunqueueList.  Here *)
(* a handler of one pCPU is atomic with respect to those of the others.    *)
(***************************************************************************)
EXTENDS Integers, Sequences

CONSTANTS
    Pcpus,      \* physical CPUs, 0 .. NR_CPUS-1 in the code
    Vcpus,      \* vCPUs the configuration creates
    PcpuOf,     \* schedconf_g_vcpu_to_pcpu_map
    VmOf,       \* the VM of each vCPU (vcpu->vmid)
    Boot,       \* vCPU 0 of each VM_NORMAL, which vm_start attaches at boot
    Backup,     \* vCPU 0 of each VM_KMUS, which kmus_start attaches later
    None        \* NULL, VCPUID_INVALID, "no VM"

ASSUME SchedulerAssumption ==
    /\ PcpuOf \in [Vcpus -> Pcpus]
    /\ Boot \subseteq Vcpus
    /\ Backup \subseteq Vcpus \ Boot
    /\ None \notin Vcpus
    /\ None \notin {VmOf[v] : v \in Vcpus}

VARIABLES
    standby,        \* s->standby_entries: the vCPUs registered on a pCPU
    inflight,       \* s->inflight_entries: the vCPUs attached on a pCPU
    state,          \* entry->state; "none": no entry, "freed": unregistered
    runqueue,       \* sd->runqueue of the RR policy
    current,        \* sd->current of the RR policy
    current_vcpuid, \* s->current_vcpuid
    current_vcpu,   \* s->current_vcpu
    mode,           \* where the pCPU is, see Modes
    todo,           \* the vCPUs the loop of vm_suspend has still to visit
    hw,             \* the vCPU whose registers and LRs the pCPU holds
    stage2,         \* the VM whose VTTBR is live and enabled on the pCPU
    mem             \* struct vcpu as a copy of the guest context, see Contexts

entries == <<standby, inflight, state>>
policy  == <<runqueue, current>>
view    == <<current_vcpuid, current_vcpu>>
context == <<mode, todo, hw, stage2, mem>>
vars    == <<entries, policy, view, context>>

States   == {"none", "detached", "waiting", "running", "freed"}
\* "start": boot and the loop of sched_start; "guest"; the calls of
\* kmus_start in turn: "suspend", "backup", "delete"; "hyp": its while(1).
Modes    == {"start", "guest", "suspend", "backup", "delete", "hyp"}
\* "fresh": restoring it resumes the guest exactly where it stopped (or
\* starts it at its entry point); "stale": the vCPU has executed since it
\* was saved; "foreign": overwritten by something that is not its context.
Contexts == {"fresh", "stale", "foreign"}

VMs   == {VmOf[v] : v \in Vcpus}
Range(q) == {q[i] : i \in 1 .. Len(q)}

----------------------------------------------------------------------------
(* The lists and the RR policy.                                            *)

\* LIST_DELINIT of v's node: a node that is on no list is linked to itself
\* and unlinking it changes nothing.
Unlink(q, v) ==
    IF v \notin Range(q) THEN q
    ELSE LET at == CHOOSE i \in 1 .. Len(q) : q[i] = v
         IN  [i \in 1 .. Len(q) - 1 |-> IF i < at THEN q[i] ELSE q[i + 1]]

\* Faulty variants of Requeued: the NULL check dropped; LIST_ADD for
\* LIST_ADDTAIL; the current entry not put back.
RequeuedUnchecked(p) == Append(runqueue[p], current[p])
RequeuedAtHead(p) ==
    IF current[p] = None THEN runqueue[p] ELSE <<current[p]>> \o runqueue[p]
RequeuedNot(p) == runqueue[p]

\* The first half of sched_rr_do_schedule: the current entry goes back to
\* the tail of the runqueue.
Requeued(p) ==
    IF current[p] = None THEN runqueue[p] ELSE Append(runqueue[p], current[p])

\* sched_rr_do_schedule when there is something to run.
Pick(p) ==
    LET q == Requeued(p)
    IN  /\ q # <<>>
        /\ runqueue' = [runqueue EXCEPT ![p] = Tail(q)]
        /\ current'  = [current EXCEPT ![p] = Head(q)]
        /\ state' = [v \in Vcpus |-> IF v = Head(q)      THEN "running"
                                     ELSE IF v = current[p] THEN "waiting"
                                     ELSE state[v]]

\* vcpu_save(v) on pCPU p copies the registers and LRs of p, whoever's.
Saved(p, v) == IF hw[p] = v THEN "fresh" ELSE "foreign"

\* do_context_switch restores the VM's tables on the first switch and when
\* the VM changes.  Faulty variant: not on the first one.
ChangesVmOnly(previous, next) == previous # None /\ VmOf[previous] # VmOf[next]
ChangesVm(previous, next)     == previous = None \/ VmOf[previous] # VmOf[next]

\* do_context_switch saves the previous vCPU, if there is one.  Faulty
\* variant: only when the VM changes.
SwitchedOutVm(p, previous, next) ==
    IF previous # None /\ VmOf[previous] # VmOf[next]
    THEN [mem EXCEPT ![previous] = Saved(p, previous)] ELSE mem
SwitchedOut(p, previous, next) ==
    IF previous # None THEN [mem EXCEPT ![previous] = Saved(p, previous)] ELSE mem

\* switch_to; sched_perform_switch; do_context_switch(previous, next).
\* next_vcpuid lives only between the two calls and is not a variable.
PerformSwitch(p, next) ==
    LET previous == current_vcpuid[p]
    IN  /\ current_vcpuid' = [current_vcpuid EXCEPT ![p] = next]
        /\ current_vcpu'   = [current_vcpu EXCEPT ![p] = next]
        /\ mem'    = SwitchedOut(p, previous, next)
        /\ stage2' = IF ChangesVm(previous, next)
                     THEN [stage2 EXCEPT ![p] = VmOf[next]] ELSE stage2
        /\ hw'     = [hw EXCEPT ![p] = next]
        /\ mode'   = [mode EXCEPT ![p] = "guest"]

----------------------------------------------------------------------------
(* sched_vcpu_register, _attach, _detach, _unregister on the home pCPU.    *)

\* find_entry(sched[PcpuOf[v]], v) != NULL
Registered(v) == v \in standby[PcpuOf[v]]

Register(v) ==
    /\ standby' = [standby EXCEPT ![PcpuOf[v]] = @ \cup {v}]
    /\ state'   = [state EXCEPT ![v] = "detached"]
    /\ UNCHANGED <<inflight, policy>>

\* A registered vCPU that is not SCHED_DETACHED is refused with 254: the
\* step then changes nothing.
CanAttachTwice(v) == Registered(v) /\ state[v] # "freed"  \* faulty: no 254
CanAttach(v) == Registered(v) /\ state[v] = "detached"

\* sched_rr_vcpu_attach.  Faulty variant: LIST_ADD for LIST_ADDTAIL.
EnqueuedAtHead(q, v) == <<v>> \o q
Enqueued(q, v) == Append(q, v)

Attach(v) ==
    IF CanAttach(v)
    THEN /\ state'    = [state EXCEPT ![v] = "waiting"]
         /\ runqueue' = [runqueue EXCEPT ![PcpuOf[v]] = Enqueued(@, v)]
         /\ inflight' = [inflight EXCEPT ![PcpuOf[v]] = @ \cup {v}]
         /\ UNCHANGED <<standby, current>>
    ELSE UNCHANGED <<entries, policy>>

\* Executed by pCPU x: get_current_vcpu() is that of x, while the policy
\* data is that of the vCPU's home.  The RR policy clears sd->current
\* whichever vCPU leaves, and entry->state keeps its value.
DetachedViewKept(x, v) == current_vcpuid       \* faulty: never invalidated
DetachedView(x, v) ==
    IF current_vcpu[x] = v THEN [current_vcpuid EXCEPT ![PcpuOf[v]] = None]
    ELSE current_vcpuid

Detach(x, v) ==
    LET p == PcpuOf[v]
    IN  /\ Registered(v)
        /\ current'  = [current EXCEPT ![p] = None]
        /\ runqueue' = [runqueue EXCEPT ![p] = Unlink(@, v)]
        /\ inflight' = [inflight EXCEPT ![p] = @ \ {v}]
        /\ current_vcpuid' = DetachedView(x, v)
        /\ UNCHANGED <<standby, state, current_vcpu>>

\* For every vCPU of a VM that vm_delete removes.
Unregister(S) ==
    /\ \A v \in S : Registered(v)
    /\ standby' = [p \in Pcpus |-> standby[p] \ S]
    /\ state'   = [v \in Vcpus |-> IF v \in S THEN "freed" ELSE state[v]]
    /\ UNCHANGED <<inflight, policy>>

----------------------------------------------------------------------------
(* The callers.                                                            *)

Init ==
    /\ standby  = [p \in Pcpus |-> {}]
    /\ inflight = [p \in Pcpus |-> {}]
    /\ state    = [v \in Vcpus |-> "none"]
    /\ runqueue = [p \in Pcpus |-> <<>>]
    /\ current  = [p \in Pcpus |-> None]
    /\ current_vcpuid = [p \in Pcpus |-> None]
    /\ current_vcpu   = [p \in Pcpus |-> None]
    /\ mode   = [p \in Pcpus |-> "start"]
    /\ todo   = [p \in Pcpus |-> {}]
    /\ hw     = [p \in Pcpus |-> None]
    /\ stage2 = [p \in Pcpus |-> None]
    /\ mem    = [v \in Vcpus |-> "fresh"]

\* The vCPUs of the VM that runs on pCPU x (get_current_vm()).
Siblings(x) == {v \in Vcpus : VmOf[v] = VmOf[current_vcpu[x]]}

\* vcpu_init: arch_regs_init and registration.
VcpuInit(v) ==
    /\ state[v] = "none"
    /\ Register(v)
    /\ UNCHANGED <<view, context>>

\* vcpu_start, from vm_start at boot.
BootStart(v) ==
    /\ v \in Boot
    /\ CanAttach(v)
    /\ Attach(v)
    /\ UNCHANGED <<view, context>>

\* start_hypervisor sets smp_pen once every VM is initialised and started.
SmpPen == \A v \in Vcpus : /\ state[v] # "none"
                           /\ v \in Boot => state[v] # "detached"

\* sched_start: do_schedule is retried until the runqueue holds a vCPU, the
\* scheduling timer is registered and the first switch has no previous vCPU.
SchedStart(p) ==
    /\ mode[p] = "start"
    /\ SmpPen
    /\ Pick(p)
    /\ PerformSwitch(p, Head(Requeued(p)))
    /\ UNCHANGED <<standby, inflight, todo>>

\* do_schedule, the scheduling timer's callback.  With nothing to run the
\* policy returns VCPUID_INVALID and the call changes nothing.
DoSchedule(p) ==
    /\ mode[p] \in {"guest", "hyp"}
    /\ Pick(p)
    /\ PerformSwitch(p, Head(Requeued(p)))
    /\ UNCHANGED <<standby, inflight, todo>>

\* The guest executes: what was last saved for it is out of date.
GuestRun(p) ==
    /\ mode[p] = "guest"
    /\ mem[hw[p]] # "stale"
    /\ mem' = [mem EXCEPT ![hw[p]] = "stale"]
    /\ UNCHANGED <<entries, policy, view, mode, todo, hw, stage2>>

\* emulate_psci_cpu_on trapped on pCPU x for a vCPU of the VM running there:
\* the entry point is written to the saved context, then the vCPU attached.
CpuOn(x, v) ==
    /\ mode[x] = "guest"
    /\ v \in Siblings(x)
    /\ Registered(v)
    /\ mem' = [mem EXCEPT ![v] = IF CanAttach(v) THEN "fresh" ELSE "foreign"]
    /\ Attach(v)
    /\ UNCHANGED <<view, mode, todo, hw, stage2>>

\* kmus_start(normal, kmus) called on pCPU x by the normal VM running there:
\* vm_suspend begins with vm_save, which turns stage 2 translation off.
VmSuspend(x) ==
    /\ mode[x] = "guest"
    /\ Backup # {} /\ Siblings(x) \cap Backup = {}
    /\ mode'   = [mode EXCEPT ![x] = "suspend"]
    /\ todo'   = [todo EXCEPT ![x] = Siblings(x)]
    /\ stage2' = [stage2 EXCEPT ![x] = None]
    /\ UNCHANGED <<entries, policy, view, hw, mem>>

\* vcpu_suspend: vcpu_save with the registers of pCPU x, then detach.  The
\* loop of vm_suspend goes by index; any order is allowed here.
VcpuSuspend(x, v) ==
    /\ mode[x] = "suspend"
    /\ v \in todo[x]
    /\ mem' = [mem EXCEPT ![v] = Saved(x, v)]
    /\ Detach(x, v)
    /\ todo' = [todo EXCEPT ![x] = @ \ {v}]
    /\ mode' = [mode EXCEPT ![x] = IF todo'[x] = {} THEN "backup" ELSE "suspend"]
    /\ UNCHANGED <<hw, stage2>>

\* Faulty variant: the type is not changed, so that vcpu_start skips it.
BackupNotStarted(x, b) ==
    /\ mode[x] = "backup"
    /\ b \in Backup
    /\ mode' = [mode EXCEPT ![x] = "delete"]
    /\ UNCHANGED <<entries, policy, view, todo, hw, stage2, mem>>

\* kmus_start makes the backup VM's vCPU 0 a VCPU_NORMAL and calls vm_start.
BackupStart(x, b) ==
    /\ mode[x] = "backup"
    /\ b \in Backup
    /\ Attach(b)
    /\ mode' = [mode EXCEPT ![x] = "delete"]
    /\ UNCHANGED <<view, todo, hw, stage2, mem>>

\* vm_delete of the suspended VM; kmus_start then enables interrupts and
\* spins, and the registers of the pCPU are no vCPU's any more.
VmDelete(x) ==
    /\ mode[x] = "delete"
    /\ Unregister(Siblings(x))
    /\ mode' = [mode EXCEPT ![x] = "hyp"]
    /\ hw'   = [hw EXCEPT ![x] = None]
    /\ UNCHANGED <<view, todo, stage2, mem>>

\* What pCPU p does on its own.
Cpu(p) ==
    \/ SchedStart(p) \/ DoSchedule(p) \/ GuestRun(p)
    \/ \E v \in Vcpus : VcpuSuspend(p, v) \/ BackupStart(p, v)
    \/ VmDelete(p)

\* The use PSCI and kmus_start are written for: a vCPU is switched on once,
\* and the VM that is suspended has one vCPU (nr_vcpus of vm_conf is 1).
Next ==
    \/ \E v \in Vcpus : VcpuInit(v) \/ BootStart(v)
    \/ \E p \in Pcpus :
          \/ Cpu(p)
          \/ \E v \in Vcpus : CanAttach(v) /\ CpuOn(p, v)
          \/ VmSuspend(p) /\ Siblings(p) = {current_vcpu[p]}

Spec == Init /\ [][Next]_vars

\* Boot runs to its end, sched_start polls, the scheduling timer keeps
\* interrupting, and kmus_start, once called, goes on.
Fairness ==
    /\ \A v \in Vcpus : WF_vars(VcpuInit(v)) /\ WF_vars(BootStart(v))
    /\ \A p \in Pcpus :
          /\ WF_vars(SchedStart(p)) /\ WF_vars(DoSchedule(p))
          /\ WF_vars(\E v \in Vcpus : VcpuSuspend(p, v) \/ BackupStart(p, v))
          /\ WF_vars(VmDelete(p))

FairSpec == Spec /\ Fairness

\* What the source accepts beyond that use: vm_suspend of a VM with several
\* vCPUs.
NextSuspendSmp == Next \/ \E p \in Pcpus : VmSuspend(p)
SpecSuspendSmp == Init /\ [][NextSuspendSmp]_vars /\ Fairness
----------------------------------------------------------------------------
(* Correctness.                                                            *)

OrNone(S) == S \cup {None}

\* Every variable keeps its type; a runqueue only holds vCPUs of the
\* configuration.
TypeOK ==
    /\ standby  \in [Pcpus -> SUBSET Vcpus]
    /\ inflight \in [Pcpus -> SUBSET Vcpus]
    /\ state    \in [Vcpus -> States]
    /\ runqueue \in [Pcpus -> Seq(Vcpus)]
    /\ current  \in [Pcpus -> OrNone(Vcpus)]
    /\ current_vcpuid \in [Pcpus -> OrNone(Vcpus)]
    /\ current_vcpu   \in [Pcpus -> OrNone(Vcpus)]
    /\ mode   \in [Pcpus -> Modes]
    /\ todo   \in [Pcpus -> SUBSET Vcpus]
    /\ hw     \in [Pcpus -> OrNone(Vcpus)]
    /\ stage2 \in [Pcpus -> OrNone(VMs)]
    /\ mem    \in [Vcpus -> Contexts]

Injective(q) == \A i, j \in 1 .. Len(q) : q[i] = q[j] => i = j

\* No vCPU is lost and none is queued twice: what is attached to a pCPU is
\* exactly its runqueue and its current entry, once (attach, detach and
\* do_schedule move entries between three lists with no common check).
NoneLost ==
    \A p \in Pcpus :
        /\ Injective(runqueue[p])
        /\ current[p] \notin Range(runqueue[p])
        /\ inflight[p] = Range(runqueue[p]) \cup ({current[p]} \ {None})

\* While a guest executes, the policy's current entry, current_vcpuid,
\* current_vcpu, the registers and the stage 2 tables of the pCPU all belong
\* to one vCPU (do_context_switch skips vm_restore between vCPUs of a VM, so
\* it relies on what earlier switches and suspends left).
OneGuest ==
    \A p \in Pcpus : mode[p] = "guest" =>
        /\ hw[p] # None
        /\ current[p] = hw[p]
        /\ current_vcpuid[p] = hw[p]
        /\ current_vcpu[p] = hw[p]
        /\ stage2[p] = VmOf[hw[p]]
        /\ state[hw[p]] = "running"

\* A vCPU that no pCPU holds has an intact context in memory, so that it
\* resumes where it stopped or starts at its entry point: vcpu_save is called
\* exactly when the registers are its own, and nobody writes it afterwards.
SavedContext ==
    \A v \in Vcpus : hw[PcpuOf[v]] # v => mem[v] = "fresh"

\* Once vcpu_delete has freed a vCPU (vcpu.c:130), no list has it, no pCPU
\* executes it and no later switch saves through a view of it.  One reference
\* stays: current_vcpu and current_vm (scheduler.c:98) of the pCPU that is in
\* the while(1) of kmus_start, until its next switch.
DeletedIsGone ==
    \A v \in Vcpus : state[v] = "freed" =>
        /\ v \notin standby[PcpuOf[v]]
        /\ \A p \in Pcpus : /\ v \notin inflight[p]
                            /\ v \notin Range(runqueue[p])
                            /\ v \notin {current[p], current_vcpuid[p], hw[p]}
                            /\ current_vcpu[p] = v => mode[p] = "hyp" /\ p = PcpuOf[v]

\* Round robin: a queued vCPU never moves back and is never overtaken; in
\* each step it stays at its place, advances, or gets the processor.
NoOvertaking ==
    [][\A p \in Pcpus : \A i \in 1 .. Len(runqueue[p]) :
          LET v == runqueue[p][i]
          IN  \/ current'[p] = v
              \/ \E j \in 1 .. i : j <= Len(runqueue'[p]) /\ runqueue'[p][j] = v]_vars

\* A vCPU that waits in a runqueue is eventually executed.
WaitingRuns ==
    \A v \in Vcpus : v \in Range(runqueue[PcpuOf[v]]) ~> hw[PcpuOf[v]] = v

\* Once kmus_start has begun to suspend the normal VM, a backup VM ends up
\* executing: the suspended VM's pCPU does not have to run for that.
BackupTakesOver ==
    \A p \in Pcpus : mode[p] = "suspend" ~> \E b \in Backup : hw[PcpuOf[b]] = b

\* "stop the VM" (core/kmus.c:45): after vm_suspend no other pCPU executes a
\* vCPU of the suspended VM.
StopsTheVm ==
    \A x \in Pcpus : mode[x] \in {"backup", "delete"} =>
        \A p \in Pcpus \ {x} : hw[p] \notin Siblings(x)

----------------------------------------------------------------------------
(* What the scheduler promises to the rest of the hypervisor.              *)

place == [v \in Vcpus |->
            IF v \in inflight[PcpuOf[v]]
            THEN IF current[PcpuOf[v]] = v THEN "on" ELSE "ready"
            ELSE IF state[v] \in {"none", "detached"} THEN "off" ELSE "gone"]

Service == INSTANCE VcpuService WITH place <- place

\* The scheduler implements the service of module VcpuService, its fairness
\* included.
ImplementsService == Service!Spec
=============================================================================
