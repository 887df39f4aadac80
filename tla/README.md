# A TLA+ verification of k-hypervisor

k-hypervisor is a bare-metal type-1 hypervisor for ARMv7 with virtualization
extensions. It partitions the physical CPUs (pCPUs) among virtual machines,
schedules their vCPUs, multiplexes timers and interrupts, emulates devices, and
can keep a backup VM that takes over from a failing one ("kmus"). It takes no
lock anywhere: correctness rests on handlers running with interrupts masked, on
lists that several modules edit, and on saved state that must match what the
hardware holds. This directory models those parts in TLA+, checks them with TLC
and proves with TLAPS, for every value of the constants, every safety property
the passing runs check and the safety part of each refinement. Liveness is
model-checked.

Paths below are relative to `src/`. `PROJECT.json` names, for each definition,
the lines it was translated from.

## 1. Inventory

| Component | State | Operations | What is hard |
|---|---|---|---|
| Scheduler core (`core/sched/scheduler.c`), round robin (`rr.c`), switch (`core/vm/context_switch.c`) | per pCPU: `standby_entries`, `inflight_entries`, policy data (`runqueue`, `current`), `current_vcpuid`, `current_vcpu`; per entry `state` | register, attach, detach, unregister, `sched_start`, `do_schedule`, `do_context_switch` | the same vCPU is in three lists edited by different functions; remote attach and detach; what a switch may skip |
| Linked list (`include/lib/list.h`) | `next`, `prev` of every node | `LIST_ADDTAIL`, `LIST_DELINIT` | stores of two pCPUs interleave |
| Real-time policies (`rt-rm.c`, `rt-edf.c`) | `period_cntdn`, `budget_cntdn`, `current`, `runqueue` | attach, detach, `do_schedule` | reload, search and count-down in one loop; words that wrap; `while (1)` |
| PSCI CPU_ON (`arch/arm/psci.c`), fail-over (`core/kmus.c`) | none of its own | writes the entry point and attaches; suspend, start backup, delete | acts on vCPUs of other pCPUs; runs in the context it is deleting |
| VM/vCPU life cycle (`core/vm/vm.c`, `vcpu.c`, `core/main.c`) | `vm_list`, `vcpu_list`, `state`, saved registers and LRs, `smp_pen` | create, init, start, suspend, delete, copy, save, restore | dangling references; partial failure; boot barrier |
| Software timers (`core/timer.c`, `drivers/generic_timer.c`) | `active_timers`, `inactive_timers`, `expiration`, `state`, comparator | register, set, activate, deactivate, IRQ, maintenance | one comparator shared by the scheduler and all guests of a pCPU |
| Virtual timer (`drivers/vdev/vdev_timer.c`) | `p_ctl`, `p_cval`, `p_ct_offset` per vCPU | trapped reads and writes of CNTP_*, expiry callback | masks and deadlines that pass in the wrong order |
| Interrupts (`drivers/gic-v2.c`, `core/vm/virq_map.c`, `arch/arm/irq.c`) | LRs, `pending_irqs`, `map`, active state of each SPI | `do_irq`, `virq_inject`, maintenance ISR, pending injection, save and restore | limited LRs and queue; completion deferred across switches |
| Virtual distributor (`drivers/vdev/vdev_gicd.c`) | banked registers, `map` | register reads and writes, SGIs | which bits of a write are new; wrong index arithmetic |
| Device dispatch, traps, UART, sysreg, other devices (`core/vdev.c`, `arch/arm/traps.c`, `fault.c`, `drivers/vdev/*`) | instance list and registers per VM, console owner | access by address; SYS_FLAGSSET | owner changes while interrupts are in flight; one VM writes the device's mask for all |
| Snapshot and DMA (`core/kmus.c`, `core/vm/vmem.c`, `drivers/dma/sun4i-dma.c`) | transfer queue, copied memory | `kmus_snapshot`, `vm_copy`, DMA interrupt | copying goes on in the background, the next snapshot or the fail-over comes meanwhile |
| Page tables (`arch/arm/paging.c`, `lpae.c`) | stage 1 and 2 tables, VTTBR | add mapping, walk | index arithmetic, invalid entries; an SMC adds to them at run time |
| OP-TEE mediator (`arch/arm/optee.c`) | `threads[]`: RPC, message, `is_sleep` | SMC, return from RPC, wait queue | a wake before the sleep |

How they interact: the Hyp timer interrupt calls `timer_irq_handler`, which
calls `do_schedule` (the scheduling timer's callback) and
`vdev_timer_handler` (each vtimer's). `do_schedule` picks a vCPU through the
policy and switches: `vcpu_save`/`vcpu_restore` move registers and LRs,
`vm_save`/`vm_restore` the stage 2 tables. Interrupts and device emulation
inject through `virq_inject`, which looks at `current_vcpuid` to choose between
an LR and the queue; `vcpu_restore` drains the queue. PSCI, SYS_FLAGSSET,
`kmus_start` and the DMA interrupt call the scheduler's attach and detach, in
general for vCPUs of other pCPUs.

The components of `PROJECT.json` say what is modelled and why the rest is not;
"hazards" lists what is hard to test, each at its line, with the property that
covers it or a note.

## 2. Modules

### Scheduler, VcpuService (run `Scheduler`, proofs in `SchedulerProofs`)

`Scheduler` has the lists, the round-robin policy, the two views of the current
vCPU (`current_vcpuid`, `current_vcpu`), and the hardware they must agree with:
`hw` (whose registers and LRs the pCPU holds), `stage2` (whose tables are live)
and `mem` (is the saved context of a vCPU intact). Actions are the handlers:
`VcpuInit`, `BootStart`, `SchedStart`, `DoSchedule`, `CpuOn`, and the calls of
`kmus_start` one by one (`VmSuspend`, `VcpuSuspend`, `BackupStart`, `VmDelete`),
between which other pCPUs take steps. `GuestRun` is the guest, which makes its saved
copy stale. `next_vcpuid` lives inside one call and is not a variable.

`VcpuService` is what scheduling promises without saying how: a vCPU is off,
ready, on its pCPU or gone; one per pCPU is on; a ready one is eventually on; a
retired one never returns. `Scheduler` implements it with `place` as refinement
mapping, fairness included (`ImplementsService`).

* `NoneLost`: attached = runqueue plus current, nothing twice.
* `OneGuest`: while a guest executes, policy, views, registers, stage 2 tables
  and entry state all name the same vCPU. `do_context_switch` skips `vm_restore`
  within a VM and saves nothing when there is no previous vCPU, so this depends
  on the whole history of switches and suspends.
* `SavedContext`: a vCPU no pCPU holds has an intact context.
* `DeletedIsGone`: no list, policy entry or register bank holds a freed vCPU, and
  no later switch saves through a reference to it. One reference stays:
  `current_vcpu` and `current_vm` (`scheduler.c:98`) of the pCPU that is in the
  `while (1)` of `kmus_start`, until it switches to the backup.
* `NoOvertaking`, `WaitingRuns`, `BackupTakesOver`: fairness of the round robin,
  and the backup VM really executes after a fail-over.

`SpecSuspendSmp` adds what the source accepts beyond intended use: suspending a
VM with several vCPUs. It breaks a comment of the source, see section 5.

### RunqueueList (runs `RunqueueSerial`, `RunqueueRace`, proofs in `RunqueueProofs`)

`list.h` store by store. Each `LIST_ADDTAIL` and `LIST_DELINIT` is a sequence of
single-word stores with a program counter per pCPU; the callers are attach,
detach, and the requeue and pick of `sched_rr_do_schedule`. `queue` is the
abstract queue. `ListValidate` is `list_validate` of the source, `IsTheQueue`
relates the ring to the abstract queue, `WaitingRuns` that every queued vCPU is
served. They hold when calls do not overlap (`SpecSerial`); with overlap
`ListValidate` fails. This is the basis of the atomicity assumption of
`Scheduler`, and its limit.

### RtPolicies (runs `RtPolicies`, `RtEdf`, proofs in `RtProofs`)

One model of both policies; they differ in the key. `do_schedule` keeps the
source's order: expired entries are reloaded, the search sees the reloaded values
and the periods before the decrement, the comparison with the current entry sees
them after it. The search (`Found`) goes through the list entry by entry, because
what the EDF policy finds depends on the order: it compares `min_period` with
`period_cntdn` and stores `period` (`rt-edf.c:156-158`). Subtraction wraps at
`MaxWord`. `Hang` is the `while (1)` or the NULL dereference.

* `GuaranteeKept`: a vCPU that response-time analysis accepts is never reported as
  a deadline miss, whatever is attached and detached when. Under rate monotonic
  its rivals are the vCPUs with a period as short as its own; under the EDF policy
  they are all the others, as any of them may be chosen first. More than that
  EDF does not give: with the slices (3, 1), (4, 2), (6, 1), whose utilisation is
  one, there is an order of attaches in which the third misses a deadline. The
  analysis is stated for periods that the policy can count (`Configured`: not zero,
  which wraps, and not the largest word, which the search never finds), its sum as
  a fold over the vCPUs that ask for the processor (`Demanding`).
* `IdleSuffices`: "We use idle guest" (`rt-rm.c:194`): with one vCPU whose budget
  is its period attached, the policy never hangs.
* `DetachedRunsOut`: a detached current vCPU may go on, for no more than its budget.
* `ShortestLeftFound`: what the comment at the EDF search says. Violated, section 5.

### TimerManager (runs `TimerManager`, `TimerStorm`, proofs in `TimerProofs`)

Timers of one pCPU on one comparator, with the scheduling timer and one vtimer
per vCPU. Times are kept as differences to now, saturated once past, so time is
unbounded and the state finite. Guests write CVAL/TVAL (past values too), read
CVAL (which re-arms), write CTL and take interrupts.

* `NeverSleptThrough`: an armed timer is on the scanned list, the hardware timer
  is on, and the comparator is not later.
* `WholeSlice`: vtimer interrupts do not end a slice early.
* `SchedulingGoesOn`, `VtimerFires`: liveness of both users.

### VGic (run `VGic`, proofs in `VGicProofs`)

LRs with their four states (empty, pending, active, and "done": EOIed, waiting
for the maintenance interrupt), the queue of each vCPU, the active state of
physical interrupts, and the switch that saves, restores and drains.

* `NoStray`: no guest gets the interrupt of another.
* `ActiveIsOwed`: an active SPI, which the GIC masks, is owed a deactivation by a
  vCPU that holds it, or the injection was refused for lack of room.
* `OneCopy`: never two LRs with one virtual ID, for device interrupts.
* `SwitchKeeps`: a switch neither loses nor duplicates, at any state of an LR.
* `SpiServed`: an enabled device is served eventually, however often its interrupt
  is overtaken, unless it was refused for lack of room or stays in the queue at
  one switch after another because the LRs are full each time (`LeftBehind`).

### VmSnapshot, BackgroundCopy (runs `VmSnapshot`, `SnapshotFailOver`, proofs in `SnapshotProofs`)

`kmus_snapshot` copies a VM into its backup while the VM goes on: the LRs and
the interrupt map at once, the memory by a chain of DMA transfers, each started
by the end interrupt of the one before. Contents are version numbers. `Chain`
has the arithmetic of `chain_enqueue`; `DmaMove` is the engine, unit by unit;
`DmaIrq` takes the next transfer or registers and attaches vCPU 0 again. The call
is two steps, `Snapshot` up to the enqueued chain (`busy`) and `Started`: interrupts
are masked in between, but the engine goes on with an earlier snapshot, since
the chain has 65536 entries. Neither it nor the fail-over has a guard about the
channel: both may come in the middle of a transfer, or between its end and its
interrupt.

Interrupts of the VM go on meanwhile, to the VM and, once it is RUNNING and has
the map, to the backup's queue. `Enable` is `set_enable`; what the VM enables after
the last snapshot is not in the map of the backup (`backupMap`, `vcpu.c:178`).

* `CopyBounds`: what the transfers have passed is neither older than the
  snapshot nor newer than the VM's memory. If the end interrupt of an earlier
  snapshot was pending when the chain was started (`stale`), the rest of its first
  transfer is replaced and never moved (`lost`), see section 5; nothing else is
  lost.
* `ActiveIsOwed`: an interrupt active at or after the fail-over is one the backup
  will end, if the VM had it enabled at the last snapshot - unless it was in
  `pending_irqs` of the VM then, which `vcpu_copy` leaves out (`missed`). What is in
  neither the map of the backup nor anybody's LR stays active for ever.
* `NoGhostAfterCopy`: after a fail-over that came when nothing was being copied
  (not `early`), no scheduler entry of the freed vCPU is attached. `NoGhost` is the
  same for any fail-over, and violated, section 5.
* `ImplementsBackgroundCopy`: the whole is `BackgroundCopy`, "each unit copied, in
  any order, while the VM writes, but for some of the first", with `Todo` as
  refinement mapping; its fairness says that every copy ends.

### GuestAccess (run `GuestAccess`, proofs in `GuestProofs`): what a guest can do to the hypervisor

`GuestAccess` composes five modules. pCPU 0 writes the stage 2 tables of all VMs
(`Boot`). Then, while an SMC may add to them (`SmcMaps`), each action is one trap
of `do_hyp_trap` or one access that does not trap: `MemoryAccess`, `GicdAccess`
and `UartAccess` happen if the walk of the tables just written sends the guest
there; `TimerAccess` is CP15, `Smc` the OP-TEE mediator. The devices share the
tables and nothing else, and no property is about two of them, so a behaviour has
one `driver`, chosen in `Init` among `Driven`: all interleavings of the VMs on
each device are covered, and the state space is the sum and not the product of the
devices'.

**Stage2, IpaMap (proofs in `Stage2Proofs`).** `mem` is `__VM_PGTABLE` word by
word. `Create` is `paging_create`, `MapEntry` one iteration of
`paging_add_ipa_mapping`, which stores to the three addresses `write_pgentry`
computes: at boot for the memory map of each VM (`MapPage`), and at run time for
the memory shared with OP-TEE, the whole of it for each VM that asks (`MapShm`,
`optee.c:62`), while the guests of other pCPUs use the tables. `Walk` is the MMU,
without a TLB. `ImplementsIpaMap`: through `Walk` the words are a function from
pages to translations that each step changes at one page of one VM - although a
store makes a level 2 and a level 3 table valid that nothing has cleared.

**Vdevs.** Dispatch of a load or store by `handle_data_abort` and `vdev_handler`,
the instances `vdev_create` makes and `vdev_copy` copies, and the `while (1)` of
`do_hyp_trap` (`hung`). `ReadsOwnWrites`: a guest finds what it wrote last, in memory
and in devices, whatever the other VM does at the same addresses. The exception
it names is a defect: `vtimer_copy` has the arguments of `memcpy` the wrong way
round (`vdev_sp804.c:65`).

**VGicd.** The map of virtual to physical interrupts as `set_enable` fills it, the
accumulating ISENABLER, ICENABLER that has no effect, `vcpu_copy` and
`vgicd_copy`. `EnabledIsRouted`: what a guest reads as enabled is
enabled in the physical distributor and delivered to the vCPU that is asked,
under that number, and is the line of the guest's device. It names two
exceptions, again what the code loses: an SPI first enabled from a vCPU other
than 0 (`elsewhere`), and after a snapshot the line, since the backup gets the
UART interrupt of the VM it copies.

**VTimer.** Counter, offset, CNTP_CVAL and the armed deadline modulo `Long`,
CNTP_TVAL modulo `Word`. `TvalDeadline`: an interrupt asked for by TVAL comes when it
is due, whatever the offset and however often the guest reads its registers,
which re-arms the timer; and TVAL counts down to it. CNTP_CVAL has no such
property: a guest that takes its time from CNTPCT, which adds the offset where
the rest subtracts it (`vdev_timer.c:141`), asks for one time and gets another.

**Console.** The UART all VMs share where CONFIG_VSERIAL is 0: FIFO, receive
interrupt, the owner that a hot key changes in the middle of a guest's loop.
Every VM's writes of UARTMSC and UARTICR reach the one device
(`vdev_pl01x.c:187`, `:192`): `rxOn` and `raised` are its mask and status, and any VM
may change them at any time. `TypedIsRead`: what is typed while the UART may
interrupt is read, unless some VM masks or clears the interrupt before it is
taken; once it is taken, masking it stops nobody. Who reads is not promised: a VM
that has just lost the console goes on emptying the FIFO.

**OpteeRpc.** The secure threads, shared by all VMs and pCPUs, and a secure world
(external) of one mutex with its wait queue. The SMC is a step of its own, since
other pCPUs are in the mediator meanwhile. `MsgIsThere`: the handler looks only
into a message that is there. `NoEarlyReturn`: no thread returns from its sleep
before it is woken. `WokenReturns`: a woken one does return, unless the wake was
handled before the sleep it answers (`overtaken`): then `is_sleep` is set last and
the guest polls for ever.

## 3. Runs and bounds

| Run | Checks | Instance | Why it is enough |
|---|---|---|---|
| `Scheduler` | list, view and context invariants, liveness, refinement | 2 pCPUs; VM A with two vCPUs on the first pCPU and one on the second, VM B beside it, backup VMs on each pCPU | has every kind of switch: first, same VM, other VM, after a detach, to a backup; remote CPU_ON; two possible backups. `SchedulerProofs` covers all of it but liveness for all sizes |
| `SchedulerSuspendSmp` | expects a violation | as `Scheduler` | |
| `RunqueueSerial` | list shape, content, service | 3 nodes, home pCPU and one other | unlinking first, middle and last |
| `RunqueueRace` | expects a violation | same | two overlapping insertions suffice |
| `RtPolicies` | guarantee, idle guest, detach | 3 vCPUs, any choice of 5 slices each, words up to 6, symmetry over vCPUs | zero, half, non-harmonic and full budgets; wrap-around is reached. Only invariants and step properties without named vCPUs are checked, and a sum does not depend on the order of a fold, so symmetry is sound |
| `RtEdf` | expects a violation | same, no symmetry | |
| `TimerManager` | comparator, slices, liveness | scheduler and 2 vtimers, slice 2, delays up to 1 | a vtimer may be before, with or after the other and the slice |
| `TimerStorm` | expects a violation | same, delays up to 2 | |
| `VGic` | all of it | 2 pCPUs, 3 vCPUs (2 VMs), 1 LR each, queue of 2, one SPI; up to 3 software interrupts held at once by the first vCPU, 1 by that of the other VM beside it, none by the third, which sends to the first from the other pCPU | LR and queue of the first vCPU fill up, injections are refused, and the SPI is overtaken in the queue and by what goes into a freed LR; switches between VMs, and remote injection. `SpiServed` fails without either of its exceptions, so both occur |
| `VmSnapshot` | memory, entries, interrupts, refinement | 3 transfers of one unit, each unit written once, 3 snapshots, the SPI and a software interrupt | a snapshot and the fail-over meet an earlier snapshot before, in, between and after its transfers, with and without a pending end interrupt; every unit is written before or after it is copied; the SPI is enabled before, between and after snapshots, and is pending, in the LR, queued or active at each of them. A transfer that is replaced in the middle of its units is left to `SnapshotProofs` |
| `SnapshotFailOver` | expects a violation | 4 units in transfers of 2, 1 snapshot | |
| `GuestAccess` | tables, memory, distributor, timer, console, OP-TEE | 2 VMs; tables of 2 x 2 x 2 pages, 5 of them mapped at boot and one shared with OP-TEE by SMC; a value of its own for each VM and page that is stored to, two for a device and a page of memory; 2 vCPUs per VM, 3 interrupts (banked, preset, plain); counter up to 9, TVAL modulo 8; FIFO of 2, 4 characters; 3 secure threads of 2 VMs on 2 pCPUs | every index of a table takes all its values, and pages are left unmapped in a table with others; memory is used before, between and after the stores of the SMC, and a value found at the wrong page or VM is recognised; the offset and the wrap of TVAL are reached; the hot key goes round, and both VMs mask, clear and let through the interrupt at any moment; a sleeper, a holder and a waker, with a free pCPU for the wake to overtake |

Deadlock is checked except in `RunqueueSerial`, `RtPolicies`, `RtEdf` and
`GuestAccess`: with all vCPUs detached and nothing to call the first may
stop, the policies stop in their `while (1)`, and guests in `do_hyp_trap`'s `while
(1)` or with a bounded counter at its end.

Bounds in the models: `SoftBound` (software interrupts each vCPU holds at once),
`MaxDelay` (longest delay a guest programs), `MaxWord` (in place of 2^32 - 1),
`ran` of TimerManager counts no further than `Slice + 1`; `MaxWrites` and
`MaxSnapshots` in VmSnapshot; `MaxCount` (where the counter stops) in VTimer, whose
`Long` and `Word` stand for 2^64 and 2^32; `Written` (what each VM stores where) in
Vdevs, any subset of `Values` in the proofs; `FifoSize` and `MaxTyped` in Console.

Every property of a passing run has a mutant of the code (a dropped NULL check, a
swapped order, an unbounded decrement...) that breaks it; they are the "Faulty
variant" operators beside the definitions.

## 4. Fairness

* Scheduler: boot runs to its end; `sched_start` polls; the scheduling timer
  keeps interrupting (weak fairness of `DoSchedule`) - this is what
  `SchedulingGoesOn` of TimerManager shows; the calls of `kmus_start` go on.
  None for guests or CPU_ON.
* RunqueueList: a call that has begun goes on; the home pCPU keeps scheduling.
* TimerManager: time passes; the pending interrupt, level sensitive and masked
  only inside handlers, is taken. None for guests.
* VGic: physical interrupts are taken and every vCPU is switched to (weak).
  Guests answer interrupts, and the maintenance interrupt is taken, under strong
  fairness: a vCPU runs for whole slices (`WholeSlice`) again and again, and the
  switches in between disable these actions for a while.
* RtPolicies: none; its properties are safety.
* VmSnapshot: the engine moves what it is programmed to move, its end interrupt
  is taken, and `kmus_snapshot` ends.
* GuestAccess: for the console, the UART interrupt is taken while it is raised and
  not masked, and a guest that has it serves it; guests need not ever unmask it;
  for the mediator, handlers and the secure world go on (weak), and a guest thread
  returns from its RPC again and again (strong: meanwhile all pCPUs may be inside
  other handlers). None for the rest.

## 5. Findings

With a run that shows the disagreement:

* **Remote suspend does not stop the vCPU** (`core/sched/scheduler.c:314`, run
  `SchedulerSuspendSmp`): only lists are edited, and with an empty runqueue
  `do_schedule` does not switch.
* **Unlocked runqueue** (`core/sched/rr.c:77`, run `RunqueueRace`): two
  insertions at once violate the list's own `list_validate`.
* **The EDF search does not find the earliest deadline** (`core/sched/rt-edf.c:157`,
  run `RtEdf`): "find the entry with budget left and shortest period left" (155),
  but what is left of one period is compared with the whole of another.
* **Timer storm** (`core/timer.c:262`, run `TimerStorm`): an expired one-shot
  timer stays on the active list with expiration 0 and becomes the "nearest".
* **The end of a copy schedules a freed vCPU** (`drivers/dma/sun4i-dma.c:88`, run
  `SnapshotFailOver`): after a fail-over in the middle of a snapshot the last end
  interrupt registers and attaches vCPU 0, which `vm_delete` has freed.

Read off the source while modelling, each kept out of a property by an exception
that names it, or noted at its hazard:

* CPU_ON for a vCPU that waits overwrites its pc before `sched_vcpu_attach` refuses
  it as "already inflight" (`arch/arm/psci.c:54`).
* The maintenance interrupt does not inject what is queued, as
  `tests/tests_gic_timer.c:121` has it; the queue waits for the next switch.
* `vtimer_copy` copies in the wrong direction (`vdev_sp804.c:65`).
* A snapshot may lose its first transfer, although `vmem_copy` is to "copy all of
  the physical memory" (`core/vm/vmem.c:101`): an end interrupt that is pending
  from an earlier snapshot is taken for the end of that transfer, and the second is
  programmed over it (`drivers/dma/sun4i-dma.c:80`; `lost` in `CopyBounds`).
* The backup's map has the UART line of the other VM (`core/vm/vcpu.c:180`), and not
  what the VM has enabled since the last snapshot: such an interrupt stays active
  after the fail-over, and masked (`core/vm/virq_map.c:83`).
* A VM that masks or clears the UART interrupt does so for all of them
  (`drivers/vdev/vdev_pl01x.c:187`).
* "All but self" of an SGI leaves out the vCPU with the number of the pCPU
  (`drivers/vdev/vdev_gicd.c:219`), the sender only where the two are the same.
* A wake that overtakes its sleep is lost (`arch/arm/optee.c:106`).
* CNTPCT and CNTP_CVAL disagree by twice the offset (`vdev_timer.c:141`).

## 6. Proofs

Each is for every value of the constants that satisfies the named assumption of
its module (`SchedulerAssumption`, `RtAssumption`, `Stage2Assumption`...), unless a
further hypothesis is stated. No set is assumed finite except where the source
has an array of that size, and the vCPUs that `RtProofs` sums over. Every proof
has the same outline: an invariant that implies the property and is kept by every
step, one lemma per action.

`SchedulerProofs`, for any pCPUs, vCPUs, VMs and map of vCPUs to pCPUs:

* `TypeCorrect`: `Spec => []TypeOK`.
* `NoVcpuLost`: `Spec => []NoneLost`. `NoneLost` alone is not inductive: a
  detach clears `current` whoever leaves. The invariant `ListInv` adds that
  attached vCPUs are at home (`AttachedAtHome`), that the policy's current entry
  agrees with the view (`CurrentAgrees`), that what `vm_suspend` still has to
  visit is the vCPU that called it (`SuspendsItself`) and that what it has
  visited is off the lists (`SuspendedIsOff`).
* `OneGuestAtATime`: `Spec => []OneGuest`, and `NoDanglingVcpu`:
  `Spec => []DeletedIsGone`, from `GuestInv` = `ListInv` with `IdAgrees`,
  `HwAgrees`, `GuestRuns` (view, registers and tables while a guest executes)
  and `FreedIsOff` (a freed vCPU is in no list). The skipped `vm_restore` is
  sound because a pCPU with a valid `current_vcpuid` has the tables of that
  vCPU's VM live, and after `vm_suspend` `current_vcpuid` is invalid.
* `ContextsAreKept`: `Spec => []SavedContext`, from `SavedInv` = `GuestInv` with
  `SavedContext` and `SuspendedIsSaved`. The last is needed because `vm_delete`
  makes the pCPU forget whose registers it holds: what it forgets must have been
  saved when the VM was suspended.
* `QueueIsFair`: `Spec => NoOvertaking`. Each action appends to a queue, takes its
  head, or leaves it; that a place in it never moves back follows from
  `GuestInv`, by which what leaves a queue was not waiting in it.
* `ServiceIsSafe`: from an initial state of `VcpuService`, every step of `Scheduler`
  is a step of it under the mapping `place`, or a stutter. With the fairness that
  the run `Scheduler` checks this is `ImplementsService`.

`RunqueueProofs`, for any vCPUs and pCPUs whose calls do not overlap:

* `ListIsValid`: `SpecSerial => []ListValidate`, and `ListIsTheQueue`:
  `SpecSerial => []IsTheQueue`. `Scheduler` takes the runqueue for a sequence and
  each list operation for one step; these two theorems are the reason that it may.
  No induction along the links is needed: `Forward` and `Backward` say which
  position of the queue each link leads to (`Pos`), and `Written` says, for each
  store, which one link is still missing. `Moves` says that what is inserted
  waits nowhere and that what is removed is the first entry or none, and
  `Fresh` that a vCPU marked detached really is nowhere, which is what
  `sched_vcpu_attach` relies on when it tests the state alone. Without the
  exclusion of overlapping calls `ListStep` fails, as `RunqueueRace` shows why.
* `ListIsAFifo`: the steps, as those two are the states. One store of each call
  changes the queue: an insertion appends an attached vCPU that was not in it
  (`Enters`), a removal takes off the first, which is then the one that runs, or
  none (`Leaves`).

`RtProofs`, for any finite set of vCPUs, any slices and word size:

* `TypeCorrect`: `Spec => []TypeOK`. `Found` is a recursive function; `FoundIs` shows
  that it exists, by the least-element principle on the length of the list, and
  `BestIsFound` that the search ends with an entry that has budget left and,
  under rate monotonic, the shortest period.
* `IdleKeepsItGoing`: `Spec => IdleSuffices`, from `IdleInv`: an attached
  full-budget entry always has at least as much budget left as there is of its
  period, so it is eligible whenever the policy looks.
* `DetachedDoesNotReturn`: `Spec => DetachedRunsOut`: the search only finds
  entries of the list, and only those are given a new budget.
* `ShortestNeverMisses`: under rate monotonic the vCPU with the strictly shortest
  period is never in `missed`, whatever is attached and detached. `ShortestInv`
  says that what is left of its budget fits in what is left of its period: as
  long as it has budget, it is what the search finds and what preempts
  (`ShortestRuns`). With equal periods the first of the list runs, and it is
  false; what is true then is the next one.
* `GuaranteeHolds`: `Spec => []GuaranteeKept`, under both policies and with vCPUs
  attached and detached at any tick. Neither what is left of v's budget nor what
  is left of its period says how much the others may still take, so the property
  is far from inductive. The two invariants it follows from, with `TypeOK`:
  - `Bounded`: nobody has more than a whole budget or period left, and only who
    asks for the processor is ever in `missed`. With it `ShortestPeriodRuns` shows
    that under rate monotonic what runs has the shortest period of all that have
    budget left, although `do_schedule` compares with the current entry after the
    search, and that entry may be off the list. Under EDF nothing is said of what
    runs but that it has budget left (`ChosenRuns`).
  - `WindowInv`: for every r that response-time analysis accepts there is a window
    of s <= r ticks in which v and its rivals have no more than s ticks of `Work`
    left, and which ends before v's period does if v has budget left. `Work` counts
    what is left of a budget and all that the period will release in the window,
    and for a vCPU that has not been attached all that it could; so an attach adds
    nothing (`WorkElsewhere`). A tick takes one from s and one from the work
    (`WorkTick`), since one of them runs while any has budget left (`RivalRuns`);
    when none has, a new window of r ticks opens (`WindowOpens`), and it is the
    inequality of the analysis that says it is long enough (`WholeWindow`).

  The sums are those of `SumFunction` of the community modules, a fold over a set:
  what it computes is proved, not assumed. `FoldExists` builds, by the
  least-element principle on the sizes of subsets (`PickInduction`), the function
  that the fold's CHOOSE refers to, `SumIs` says that the fold is this function,
  and `SumGrows`, `SumMonotone` and `SumCovers` are the facts that `WindowInv`
  needs. This is why the set of vCPUs is assumed finite (`RtAssumption`); a
  hypervisor has finitely many.

`TimerProofs`, for any vtimers, any slice and delays:

* `TimersTyped`, `NoTimerLost`: `Spec => []NeverSleptThrough`, `SliceIsWhole`:
  `Spec => WholeSlice`, and `TimerIsNotEarly`: a guest is given a timer interrupt
  only when its time has passed and the timer is enabled and not masked. `Inv` adds
  to the property that no timer is set for the value which the source uses as
  infinity (`BeforeNever`; a search that ends with it would stop the comparator),
  that what has run of a slice and what is left add up to it (`SliceIsKept`), and
  that what is armed for a guest is its CVAL (`VtimerFollowsCval`).

`VGicProofs`, for any pCPUs, vCPUs, LRs and queue entries:

* `VGicTyped`, `NothingStrays`: `Spec => []NoStray`, `DeactivationIsOwed`:
  `Spec => []ActiveIsOwed`, `AtMostOneCopy`: `Spec => []OneCopy`. They are inductive
  together: a second copy of an SPI is impossible because the GIC masks an active
  one (`HeldIsActive`), which is why only its owner's vCPU ever holds it
  (`OneOwner`).
* `SwitchIsLossless`: `Spec => SwitchKeeps`. `gic_inject_pending_irqs` moves queue
  entries into free LRs in order; the number of entries moved is the smaller of
  the two, and the n-th entry goes to the n-th free LR, a bijection (`RankStep`,
  `RankOrder`, `RankOnto`). That it keeps the number of copies of each interrupt
  is a fact about cardinalities (`MoveKeeps`).

`SnapshotProofs`, for any memory, any number of snapshots and any writes:

* `FreedStaysFreed`: `Spec => []NoGhostAfterCopy`, and `NoOrphanedInterrupt`:
  `Spec => []ActiveIsOwed`, from `FailOverInv`: after a fail-over no copy is under way
  unless it was then (`QuietAfter`), while the VM lives its first entry is the
  attached one, however many the ends of copies have added (`FirstIsAttached`),
  and who holds the interrupt before the fail-over (`HeldByVm`) and would hold it
  after one, if the map has it (`OwedByBackup`).
* `SnapshotTyped`, `CopyIsBounded`: `[]CopyBounds`, and `SnapshotIsSafe`, the safety
  part of `ImplementsBackgroundCopy`, for a memory that is a whole number of
  transfers (`WholeChunks`), and with the next snapshot at any point of the one
  before. `CopyInv` says that the channel and the queue hold disjoint parts of
  the memory once the chain has been started (`Separate`), and that what has been
  lost is of the first transfer (`LostIsFirst`): a transfer that is replaced is
  either empty, its end interrupt being its own, or the first (`EndMeansDone`).
  That `chain_enqueue` cuts the memory into exactly those parts is `ChainCovers`,
  by arithmetic on quotients.
* `WholeChunks` holds of the VM the source copies (256 MiB, in transfers of 4 KiB) but
  is not checked by the source, and it is needed: `TailIsForgotten` proves that
  otherwise the last unit is never copied, since `sun4i-dma.c:67-69` takes the
  length of the last transfer for its offset.

`Stage2Proofs`, for any number of VMs, any entries per table and any memory maps,
from `Stage2Assumption`: the offsets and sizes with which `vmem_create` and
`paging_create` cut `__VM_PGTABLE` keep the tables apart.

* `TablesImplementMap`: `S2Spec => ImplementsIpaMap`, and `VmsAreIsolated`: no VM
  is ever translated to a page other than those of its own map and, once it has
  asked for them, those shared with OP-TEE. The words of
  the tables are disjoint slices (`Apart`, arithmetic on quotients and
  remainders), and `IInv` says that wherever the walk can go the links are those
  of `paging_create` and that a valid last entry has valid entries above it. So
  the walk of a page ends at the address `write_pgentry` computes (`WalkIs`), and
  a store there changes one translation.
* `MappedIsReached`: a page that has been mapped, at boot or by an SMC, is
  translated for good.

`GuestProofs`, for any VMs, vCPUs, devices, secure threads, maps and presets:

* `PartsCompose`: a behaviour of `GuestAccess` is one of each of `S2Spec`, `GicdSpec`
  and `OpteeSpec`, so that what is proved of a part holds of the whole. The steps of
  stage 2 are those of boot and those of an SMC (`SmcMaps`).
* `EnabledInterruptsAreRouted`: `GicdSpec => []EnabledIsRouted`. By itself the
  property is not inductive: `set_enable` writes a new entry of the map, which
  could overwrite that of another interrupt. `RouteInv` adds that the two
  directions agree (`MapAgrees`), that a pirq with the number of a virq is that
  virq's (`OwnNumber`, an assumption on the presets and kept by `set_enable`),
  that what is on has a pirq which is on (`OnIsOn`), and that before a snapshot
  the pirq is the device's own line (`OwnLine`).
* `ConsoleGoesOn`: while a character waits and the interrupt is raised and not
  masked, SPI 37 is active or can be taken for a VM that exists; and while it is
  active a VM that has it can go on (`SomebodyReads`): the safety part of
  `TypedIsRead`. `ConsoleInv` says that an active SPI is always with some VM,
  whichever of them loses the console, reads another's characters, ends the
  interrupt or writes the mask of the device.
* `DeadlineIsKept`: `Spec => []TvalDeadline`, from `DeadlineInv`: what is armed is
  CVAL less the offset, modulo `Long`. That it comes out as the TVAL the guest
  wrote is arithmetic in two word sizes, where `Word` divides `Long`.
* `WritesAreKept`: `Spec => []ReadsOwnWrites` under `SysregTraps`, that no map gives a
  VM the page of the system registers (`platform/rtsm/guest.c:8`). `WrittenInv`
  says where what was last written is (`IsSomewhere`): in a frame that only its VM
  can reach, by `VmsAreIsolated`; in the instance of a device that this VM reaches
  for good, by `MappedIsReached`; or in the sp804 that `vtimer_copy` overwrote.
* `MessageIsThere`: `OpteeSpec => []MsgIsThere`, from `InCall`, which lists what a
  call can be: place, state in the secure world, last result, RPC and message.
* `NoSleeperReturnsEarly`: `OpteeSpec => NoEarlyReturn`. `Waits` says that who waits
  in the queue is asleep or about to be; `WakeOnItsWay`, that a waker in its
  handler names a thread that has been woken and has not returned, so that the
  flag which the handler clears is never that of a later sleep.

Assumptions of the proofs are those of the models: a handler is atomic with
respect to other pCPUs (in `OpteeRpc`, up to its SMC and after it), a vCPU is
switched on once, and a suspended VM has one vCPU (`nr_vcpus` of every `vm_conf`
is 1). `RunqueueRace` and `SchedulerSuspendSmp` show what becomes of the first and
the last. CPU_ON of a vCPU that is already on is left out because
`arch/arm/psci.c:54` then overwrites the pc of a saved context, which no property
of the model survives unrestricted.

Model-checked only is liveness (`WaitingRuns`, `BackupTakesOver`,
`SchedulingGoesOn`, `VtimerFires`, `SpiServed`, `TypedIsRead`, `WokenReturns`),
which is out of the prover's reach, and with it the fairness in the refinements
of `VcpuService` and `BackgroundCopy`.

## 7. What is abstracted, and what is not modelled

* `Scheduler` has no time: slices end when `DoSchedule` occurs. TimerManager has
  the clock and no vCPUs; `runnable` stands for the scheduler.
* `VGic` uses one number for virq and pirq and one owner per SPI, enabled from
  vCPU 0; `VGicd` has the map and no LRs. Handlers are atomic
  across pCPUs, so queue slots that two pCPUs overwrite are not modelled. A guest
  may send an SGI to any vCPU of its VM (`SoftInject`); which of them a target
  filter names is left out: it is a function of the word written.
* `VmSnapshot` has one VM and its backup, and one vCPU of each, as
  the `VM_KMUS` entry of `core/vm_config.c` sets up.
* `Vdevs` has one register per device; which offsets a device decodes is left
  out, and so are registers that ignore writes. `VGicd` has the registers that do
  something; the rest keep a word that nothing but the guest reads (the index of
  GICD_ICFGR leaves its array, `drivers/vdev/vdev_gicd.c:354`).
* `VTimer` counts in ticks: the conversion to ns rounds, CNTV_* arms nothing,
  and the periodic mode (CONFIG_VTIMER_PERIODIC) is off by default.
* `Console` is the configuration with CONFIG_VSERIAL 0; with 1 a VM has its own
  buffer and nothing is shared.
* Of the UART's registers that pass through, only what decides about the receive
  interrupt is modelled (UARTMSC, UARTICR): `UARTCR`, `UARTLCR_H` and the others, with
  which a VM may as well turn the device off, and transmit interrupts are left
  out; so is the interrupt after the owner has been deleted (`vm_find` gives NULL).
* `Stage2` has no TLB: the source invalidates none after the stores at run time.
  Two first calls of `handle_optee_get_shm_config` at once, which share a static
  structure, are left out (a hazard without a property).
* `smp_pen` is a barrier in `Scheduler`; the memory ordering of the plain variable
  behind it is not modelled. `vm_create`'s failure paths leave a VM out of
  `vm_list`; boot runs once and they are left out.
* Stage 1 is written by the same `write_pgentry`, for the hypervisor alone: before
  it runs, and once more when it maps the memory shared with OP-TEE for itself
  (`optee.c:53`). The C library, board tables, serial drivers and boot tags carry
  no logic of the hypervisor. Register save and restore is straight-line code,
  modelled as one value.

The repository is mostly other people's code: a vendored kconfig (some two fifths
of the C), a C library, drivers and tables of boards, and tests. The share of
lines that definitions are mapped to is small for that reason. `TypeOK` of
`RunqueueList` and `TimerManager` document the types of their variables and are
used by no run.

## 8. Plan

The components the source has logic in are modelled, and the safety properties
that are checked are proved. What is left depends on the source:

1. `Scheduler` with interleaved attaches, once the source takes a lock: the list
   would then be `SpecSerial` by construction, and `ListIsAFifo` the reason that
   one step stands for a call.
2. `Scheduler` with the real-time policies in place of the round robin:
   `GuaranteeHolds` is about one pCPU and the policy alone, whose `current` the
   views of the core must agree with.
3. `GuaranteeKept` for EDF with total utilisation at most one, once
   `rt-edf.c:157` keeps what is left of the period it has found.
4. CPU_ON of a vCPU that is on already, once `arch/arm/psci.c:54` tests before it
   writes.
