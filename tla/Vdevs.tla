--------------------------------- MODULE Vdevs ---------------------------------
(***************************************************************************)
(* What becomes of a load or store by a guest: the stage 2 tables send it  *)
(* to memory, or it traps (arch/arm/traps.c, fault.c) and the dispatcher   *)
(* looks for a virtual device (core/vdev.c).  Here are the devices with    *)
(* registers that only the guest sees: vdev_sysreg.c, vdev_sp804.c and     *)
(* vdev_sample.c, one register of each; VGicd and Console have the others. *)
(*                                                                         *)
(* An access is one of a page, since no page has two devices.  VMs have    *)
(* one vCPU, as vm_conf has it, so that SYS_FLAGSSET starts no other.      *)
(***************************************************************************)
EXTENDS Stage2

CONSTANTS
    Devices,  \* the modules in vdev_list
    PageOf,   \* the page of module->base
    Values,   \* what guests write,
    Written,  \* and which of it each VM writes to each page
    Junk,     \* what malloc returns, and what memory holds at first
    Nothing   \* no value

ASSUME VdevsAssumption ==
    /\ PageOf \in [Devices -> Pages]
    /\ \A d, e \in Devices : PageOf[d] = PageOf[e] => d = e
    \* The shared memory is not where a VM has something else.
    /\ \A v \in Vms : \A i \in 1 .. Len(Mmap[v]), j \in 1 .. Len(Shm) :
          Mmap[v][i].ipa # Shm[j]
    /\ \A v \in Vms, p \in Pages : Written[v][p] \subseteq Values
    /\ 0 \notin Values /\ Junk \notin Values /\ Nothing \notin Values

VARIABLES
    regs,      \* the register in instance->pdata, of each VM and device
    phys,      \* the physical pages that guests reach directly
    hung,      \* the VMs whose pCPU is in the while (1) of do_hyp_trap
    wrote,     \* history: what a VM, or the one it is a copy of, last wrote
    vdevCopied \* history: vdev_copy has been called

vdevVars == <<regs, phys, hung, wrote, vdevCopied>>

Frames ==
    UNION {{Entries[v][i].pa : i \in {j \in 1 .. Len(Entries[v]) : Entries[v][j].af = 1}} :
              v \in Vms}

\* vdev_create for each VM: only the instance of sysreg is cleared.
VdevInit ==
    /\ regs = [v \in Vms |-> [d \in Devices |-> IF d = "sysreg" THEN 0 ELSE Junk]]
    /\ phys = [f \in Frames |-> Junk]
    /\ hung = {} /\ vdevCopied = FALSE
    /\ wrote = [v \in Vms |-> [p \in Pages |-> Nothing]]

----------------------------------------------------------------------------
(* Loads and stores.                                                       *)

\* The access flag fault of an emulated page is handled by vdev_handler.
Emulated(v, p) == LET w == Walk(v, p) IN w # Unmapped /\ w.af = 0
Direct(v, p)   == LET w == Walk(v, p) IN w # Unmapped /\ w.af = 1

\* The instances of VM v at page p, of which there is at most one.
InstanceAt(p) == {d \in Devices : PageOf[d] = p}

\* The pages on which a load should give what was stored: those of a device,
\* and those whose frame no other page of a guest has.
OwnFrame(v, p) ==
    /\ Direct(v, p)
    /\ \A w \in Vms : \A i \in 1 .. Len(Entries[w]) :
          Entries[w][i].af = 1 /\ Entries[w][i].pa = Walk(v, p).pa =>
              w = v /\ Entries[w][i].ipa = p
Backed(v, p) == OwnFrame(v, p) \/ (Emulated(v, p) /\ InstanceAt(p) # {})

\* The VM whose list of instances is searched: get_current_vm.  Faulty
\* variant: that of the first VM in vm_list.
FirstVm(v) == 0
CurrentVm(v) == v

\* A store.  One that no page or no device takes is skipped, like one that
\* raises a translation fault: handle_data_abort returns 0.
Store(v, p, value) ==
    /\ Booted /\ v \notin hung
    /\ \/ /\ Direct(v, p)
          /\ phys' = [phys EXCEPT ![Walk(v, p).pa] = value]
          /\ UNCHANGED regs
       \/ /\ Emulated(v, p)
          /\ regs' = [regs EXCEPT ![CurrentVm(v)] =
                        [d \in Devices |-> IF d \in InstanceAt(p) THEN value ELSE @[d]]]
          /\ UNCHANGED phys
       \/ /\ Walk(v, p) = Unmapped
          /\ UNCHANGED <<regs, phys>>
    /\ wrote' = IF Backed(v, p) THEN [wrote EXCEPT ![v][p] = value] ELSE wrote
    /\ UNCHANGED <<hung, vdevCopied>>

\* What a load gives: Nothing, if the register of the guest keeps its value.
Load(v, p) ==
    IF Direct(v, p) THEN phys[Walk(v, p).pa]
    ELSE IF Emulated(v, p) /\ InstanceAt(p) # {}
    THEN LET d == CHOOSE e \in InstanceAt(p) : TRUE IN regs[CurrentVm(v)][d]
    ELSE Nothing

\* A trap that do_hyp_trap has no case for, or whose handler fails: HVC, CP14,
\* a CP15 register that is not emulated, a permission or alignment fault.
TrapError(v) ==
    /\ Booted
    /\ hung' = hung \cup {v}
    /\ UNCHANGED <<regs, phys, wrote, vdevCopied>>

\* vdev_copy from VM v to VM b.  vtimer_copy has its arguments to memcpy the
\* wrong way round, vdev_sample has no copy.
InstancesCopied(v, b) ==
    [regs EXCEPT
        ![b] = [d \in Devices |-> IF d = "sysreg" THEN regs[v][d] ELSE @[d]],
        ![v] = [d \in Devices |-> IF d = "sp804" THEN regs[b][d] ELSE @[d]]]

VdevCopy(v, b) ==
    /\ Booted /\ v # b /\ v \notin hung
    /\ regs' = InstancesCopied(v, b)
    /\ vdevCopied' = TRUE
    /\ wrote' = [wrote EXCEPT ![b] =
                   [p \in Pages |-> IF InstanceAt(p) \in {{"sysreg"}, {"sp804"}}
                                    THEN wrote[v][p] ELSE @[p]]]
    /\ UNCHANGED <<phys, hung>>

VdevNext ==
    \/ \E v \in Vms, p \in Pages : \E value \in Written[v][p] : Store(v, p, value)
    \/ \E v \in Vms : TrapError(v)
    \/ \E v, b \in Vms : VdevCopy(v, b)

----------------------------------------------------------------------------
(* Correctness.                                                            *)

\* A guest finds what it has written last, in its memory and in its virtual
\* devices, whatever another VM writes to the same addresses, and so does its
\* backup.  The exception is the timer after a snapshot, which overwrites
\* that of the VM it is taken of (vdev.c:28, vdev_sp804.c:65).
ReadsOwnWrites ==
    \A v \in Vms, p \in Pages :
        wrote[v][p] # Nothing =>
            \/ Load(v, p) = wrote[v][p]
            \/ vdevCopied /\ InstanceAt(p) = {"sp804"}
=============================================================================
