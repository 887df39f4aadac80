------------------------------ MODULE VmSnapshot ------------------------------
(***************************************************************************)
(* kmus_snapshot copies a VM into its backup: the registers, the list      *)
(* registers and the virtual interrupt map at once, the memory in the      *)
(* background, one DMA transfer after the other, each started by the end   *)
(* interrupt of the one before.  kmus_start makes the backup take over.    *)
(* (core/kmus.c, core/vm/vm.c, vcpu.c, vmem.c, drivers/dma/sun4i-dma.c)    *)
(*                                                                         *)
(* All handlers run on pCPU 0, which is where the end interrupt is routed  *)
(* and where vCPU 0, the only one of the copied VM, lives; a handler is    *)
(* atomic but for the DMA engine, which goes on while the long chain of    *)
(* transfers is enqueued with interrupts masked.  Contents are version     *)
(* numbers.  The VM has one LR free for what is modelled here, and one     *)
(* device interrupt, Spi, which it may enable at any time, beside the      *)
(* software interrupt Soft.                                                *)
(***************************************************************************)
EXTENDS Integers, Sequences, FiniteSets

CONSTANTS
    Total,        \* vmem.dram.size
    Chunk,        \* SZ_4K, the bytes of one transfer
    Spi, Soft, None,
    Irqs,         \* the interrupts of the VM, of Spi and Soft
    MaxWrites,    \* bound: how often the VM writes each unit
    MaxSnapshots  \* bound: calls of kmus_snapshot

ASSUME VmSnapshotAssumption ==
    /\ Total \in Nat \ {0} /\ Chunk \in Nat \ {0}
    /\ Chunk <= Total   \* the first transfer is a full one (vmem.c:110)
    /\ Spi # Soft /\ None \notin {Spi, Soft} /\ Irqs \subseteq {Spi, Soft}
    /\ MaxWrites \in Nat /\ MaxSnapshots \in Nat

VARIABLES
    \* Memory and the DMA channel.
    mem,       \* version of each unit of the VM's memory
    copy,      \* version of each unit that the backup's memory holds
    snap,      \* history: the versions when the last snapshot was taken
    taken,     \* history: number of snapshots
    queue,     \* trans_queue
    chan,      \* the units the programmed transfer still has to move
    endIrq,    \* the end interrupt of the channel is pending
    busy,      \* kmus_snapshot has enqueued the chain, not started it yet
    stale,     \* history: endIrq was pending when the chain was started
    lost,      \* history: what this snapshot did not move, and never will
    \* Scheduler entries and VMs.
    entries,   \* states of the entries for vCPU 0 in standby_entries, in order
    vmState,   \* state of the VM and its backup
    early,     \* history: the fail-over came while memory was being copied
    \* Interrupts.
    lr,        \* the LR of the vCPU that pCPU 0 runs
    pend,      \* pending_irqs of the copied vCPU
    backupLr,  \* the LR saved in the backup's vCPU
    backupPend,\* its pending_irqs
    vmMap,     \* the virtual interrupt map of the VM has Spi
    backupMap, \* that of the backup: "copied" from the VM's, its "own", "no"
    active,    \* Spi is active in the distributor, and therefore masked
    missed     \* history: Spi was in pend, not in lr, at the last snapshot

memVars == <<mem, copy, snap, taken, queue, chan, endIrq, busy, stale, lost>>
vmVars  == <<entries, vmState, early>>
mapVars == <<vmMap, backupMap>>
irqVars == <<lr, pend, backupLr, backupPend, mapVars, active, missed>>
vars == <<memVars, vmVars, irqVars>>

Units == 0 .. Total - 1
Unwritten == -1     \* what the memory of the backup holds before any copy

Init ==
    /\ mem = [u \in Units |-> 0] /\ snap = mem /\ taken = 0
    /\ copy = [u \in Units |-> Unwritten]
    /\ queue = <<>> /\ chan = {} /\ endIrq = FALSE
    /\ busy = FALSE /\ stale = FALSE /\ lost = {}
    /\ entries = <<"attached">>
    /\ vmState = [normal |-> "running", backup |-> "halted"] /\ early = FALSE
    /\ lr = None /\ pend = {} /\ backupLr = None /\ backupPend = {}
    /\ vmMap = FALSE /\ backupMap = "no" /\ active = FALSE /\ missed = FALSE

----------------------------------------------------------------------------
(* The copy of the memory.                                                 *)

\* A queued transfer, and the units it moves.  Faulty variant: one too many.
Transfer(from, bc) == [from |-> from, bc |-> bc]
MovesBeyond(t) == t.from .. t.from + t.bc
Moves(t) == t.from .. t.from + t.bc - 1

\* chain_enqueue: full chunks, then the rest - whose offset is t_bc, its own
\* length, and not t_weight.  Faulty variant: the loop tests t_bc > bc.
Rest == Total % Chunk
FullFrom(n) == [i \in 1 .. n |-> Transfer((i - 1) * Chunk, Chunk)]
ChainShort == FullFrom((Total - 1) \div Chunk)
Chain ==
    FullFrom(Total \div Chunk) \o (IF Rest > 0 THEN <<Transfer(Rest, Rest)>> ELSE <<>>)

\* dma_transfer: whatever the channel was doing, it now does this.
Program(t) == chan' = Moves(t)

\* The VM writes.
Write(u) ==
    /\ ~ busy /\ vmState.normal = "running"
    /\ mem[u] < MaxWrites
    /\ mem' = [mem EXCEPT ![u] = @ + 1]
    /\ UNCHANGED <<copy, snap, taken, queue, chan, endIrq, busy, stale, lost>>
    /\ UNCHANGED <<vmVars, irqVars>>

\* The engine moves one unit, and raises its end interrupt with the last.
DmaMove(u) ==
    /\ u \in chan
    /\ copy' = [copy EXCEPT ![u] = mem[u]]
    /\ chan' = chan \ {u}
    /\ endIrq' = (endIrq \/ chan' = {})
    /\ UNCHANGED <<mem, snap, taken, queue, busy, stale, lost, vmVars, irqVars>>

\* vmem_copy: InitQueue forgets what is left of an earlier snapshot, whose
\* transfer goes on, and the chain is enqueued.
CopyMemory ==
    /\ snap' = mem
    /\ queue' = Chain
    /\ busy' = TRUE /\ lost' = {}

\* vcpu_copy, after kmus_snapshot has saved the LRs of the pCPU into the vCPU
\* of the VM; pending_irqs is not copied.
CopyVcpu ==
    /\ backupLr' = lr
    /\ missed' = (Spi \in pend)
    /\ backupMap' = IF vmMap THEN "copied" ELSE "no"

\* kmus_snapshot, as far as the chain is enqueued.
Snapshot ==
    /\ ~ busy /\ vmState.normal = "running"
    /\ taken < MaxSnapshots
    /\ taken' = taken + 1
    /\ CopyVcpu
    /\ CopyMemory
    /\ UNCHANGED <<mem, copy, chan, endIrq, stale, vmVars>>
    /\ UNCHANGED <<lr, pend, backupPend, vmMap, active>>

\* vm_copy, in the end: the backup becomes RUNNING like the VM.
CopyVm == vmState' = [vmState EXCEPT !.backup = "running"]

\* The rest of it: the first transfer is started, whatever the channel and its
\* interrupt are doing, the others wait for its end.
Started ==
    /\ busy
    /\ busy' = FALSE /\ stale' = endIrq
    /\ queue' = Tail(queue) /\ Program(Head(queue))
    /\ CopyVm
    /\ UNCHANGED <<mem, copy, snap, taken, endIrq, lost, entries, early, irqVars>>

----------------------------------------------------------------------------
(* Scheduler entries of vCPU 0.  find_entry takes the first of them.       *)

\* sched_vcpu_attach refuses an entry that is not detached.  Faulty variant:
\* the entry just registered is the one that is attached.
AttachedNew(e) == [e EXCEPT ![Len(e)] = "attached"]
Attached(e) == IF e[1] = "detached" THEN [e EXCEPT ![1] = "attached"] ELSE e

\* dma_irq_handler.  It starts the next transfer, although the one before may
\* go on when the interrupt is that of an earlier snapshot.  At the end of the
\* last transfer it registers vCPU 0 with pCPU 0, which adds an entry, and
\* attaches the first entry it finds.
\* Faulty variant: it looks for more work only after the second transfer.
NextTransferLate == Len(queue) > 1
NextTransfer == queue # <<>>
DmaIrq ==
    /\ ~ busy /\ endIrq
    /\ endIrq' = FALSE
    /\ IF NextTransfer
       THEN /\ queue' = Tail(queue) /\ Program(Head(queue))
            /\ lost' = lost \cup chan
            /\ UNCHANGED entries
       ELSE /\ entries' = Attached(Append(entries, "detached"))
            /\ UNCHANGED <<queue, chan, lost>>
    /\ UNCHANGED <<mem, copy, snap, taken, busy, stale, vmState, early, irqVars>>

\* kmus_start: vm_suspend detaches the first entry, vm_start attaches the
\* backup, vm_delete unlinks the first entry and frees the VM.  The LR of the
\* pCPU is overwritten at the next switch with what the backup has saved.
Copying == chan # {} \/ endIrq \/ queue # <<>>
FailOver ==
    /\ ~ busy /\ vmState.normal = "running"
    /\ early' = Copying
    /\ vmState' = [normal |-> "deleted", backup |-> "running"]
    /\ entries' = Tail(entries)
    /\ lr' = backupLr /\ pend' = {}
    /\ UNCHANGED <<memVars, backupLr, backupPend, mapVars, active, missed>>

----------------------------------------------------------------------------
(* Interrupts of the VM, and of the backup once it has taken over.         *)

TookOver == vmState.normal = "deleted"

\* virq_inject for the current vCPU: the LR if it is free, else the queue.
Into(irq) ==
    IF lr = None THEN lr' = irq /\ UNCHANGED <<pend, backupPend>>
    ELSE /\ pend' = IF TookOver THEN pend ELSE pend \cup {irq}
         /\ backupPend' = IF TookOver THEN backupPend \cup {irq} ELSE backupPend
         /\ UNCHANGED lr

SoftIrq ==
    /\ ~ busy /\ Soft \in Irqs
    /\ Soft \notin {lr} \cup pend \cup backupPend
    /\ Into(Soft)
    /\ UNCHANGED <<memVars, vmVars, backupLr, mapVars, active, missed>>

\* set_enable: the interrupt is entered in the map of the VM that executes,
\* for good, since set_clear leaves it there.
Enable ==
    /\ ~ busy /\ Spi \in Irqs
    /\ IF TookOver
       THEN /\ backupMap' = IF backupMap = "no" THEN "own" ELSE backupMap
            /\ UNCHANGED vmMap
       ELSE vmMap' = TRUE /\ UNCHANGED backupMap
    /\ UNCHANGED <<memVars, vmVars, lr, pend, backupLr, backupPend, active, missed>>

\* is_guest_spi gives the interrupt, once enabled, to vcpu[0] of every VM that
\* is RUNNING and has it in its map.  If none has, it stays active.  Faulty
\* variant: only to the vCPU that is executing.
ToBackupRunning == TookOver
ToBackup == vmState.backup = "running" /\ backupMap # "no"
SpiIrq ==
    /\ ~ busy /\ ~ active /\ (vmMap \/ backupMap # "no")
    /\ active' = TRUE
    /\ IF TookOver
       THEN IF ToBackup THEN Into(Spi) ELSE UNCHANGED <<lr, pend, backupPend>>
       ELSE /\ lr' = IF lr = None THEN Spi ELSE lr
            /\ pend' = IF lr = None THEN pend ELSE pend \cup {Spi}
            /\ backupPend' = IF ToBackup THEN backupPend \cup {Spi} ELSE backupPend
    /\ missed' = FALSE
    /\ UNCHANGED <<memVars, vmVars, backupLr, mapVars>>

\* The guest ends the interrupt, the maintenance interrupt deactivates it.
Complete ==
    /\ ~ busy /\ lr # None
    /\ active' = (active /\ lr # Spi)
    /\ lr' = None
    /\ UNCHANGED <<memVars, vmVars, pend, backupLr, backupPend, mapVars, missed>>

\* The next switch to the current vCPU moves a queued interrupt into the LR.
Drain ==
    /\ ~ busy /\ lr = None
    /\ \E irq \in IF TookOver THEN backupPend ELSE pend :
          /\ lr' = irq
          /\ pend' = IF TookOver THEN pend ELSE pend \ {irq}
          /\ backupPend' = IF TookOver THEN backupPend \ {irq} ELSE backupPend
    /\ UNCHANGED <<memVars, vmVars, backupLr, mapVars, active, missed>>

----------------------------------------------------------------------------

Next ==
    \/ Snapshot \/ Started \/ FailOver \/ DmaIrq
    \/ \E u \in Units : Write(u) \/ DmaMove(u)
    \/ SoftIrq \/ Enable \/ SpiIrq \/ Complete \/ Drain

\* The engine goes on, its interrupt is taken, and kmus_snapshot ends.
Fairness ==
    /\ WF_vars(\E u \in Units : DmaMove(u))
    /\ WF_vars(DmaIrq) /\ WF_vars(Started)

Spec == Init /\ [][Next]_vars /\ Fairness

----------------------------------------------------------------------------
(* Correctness.                                                            *)

\* The units that the last snapshot has not moved yet.
Todo == chan \cup UNION {Moves(queue[i]) : i \in DOMAIN queue}

\* Every variable keeps its type: transfers stay inside the memory of the VM,
\* and there is an entry for every registration that is still on the list.
TypeOK ==
    /\ mem \in [Units -> 0 .. MaxWrites] /\ snap \in [Units -> 0 .. MaxWrites]
    /\ copy \in [Units -> 0 .. MaxWrites \cup {Unwritten}]
    /\ taken \in 0 .. MaxSnapshots
    /\ chan \subseteq Units /\ Todo \subseteq Units /\ lost \subseteq Units
    /\ {endIrq, busy, stale, early} \subseteq BOOLEAN
    /\ entries \in Seq({"attached", "detached"})
    /\ vmState.normal \in {"running", "deleted"}
    /\ vmState.backup \in {"halted", "running"}
    /\ {lr, backupLr} \subseteq Irqs \cup {None} /\ pend \cup backupPend \subseteq Irqs
    /\ vmMap \in BOOLEAN /\ backupMap \in {"no", "copied", "own"}
    /\ active \in BOOLEAN /\ missed \in BOOLEAN

\* A unit that the transfers of a snapshot have passed is neither older than
\* that snapshot nor newer than the VM's memory: if the VM does not write, the
\* backup is an exact copy.  A snapshot may overlap the one before; if the end
\* interrupt of that one was pending when its first transfer was started, the
\* rest of this transfer may be lost, and nothing else (vmem.c:104).
CopyBounds ==
    taken > 0 =>
        /\ \A u \in Units \ Todo : copy[u] <= mem[u] /\ (u \notin lost => snap[u] <= copy[u])
        /\ lost \subseteq Moves(Head(Chain)) /\ (lost # {} => stale)

\* vCPU 0 is freed with its VM: nothing that the end of a copy does, early or
\* late, may give it to the scheduler afterwards, which would look it up and
\* find NULL ("register to scheduler again, when every process is finished",
\* drivers/dma/sun4i-dma.c:87).
NoGhost ==
    TookOver => \A i \in DOMAIN entries : entries[i] = "detached"

\* It is so when the fail-over came when the copies had ended, although every
\* one of them has left an entry of vCPU 0 behind.
NoGhostAfterCopy == early \/ NoGhost

\* An interrupt that is active when the backup takes over, or becomes active
\* later, will be ended by the backup: it has it in its LR or its queue, if
\* the VM had enabled it when the last snapshot was taken, unless it was in
\* pending_irqs of the VM then.
ActiveIsOwed ==
    TookOver /\ backupMap = "copied" /\ active =>
        missed \/ Spi \in {lr} \cup backupPend

\* The snapshot is the background copy it promises to be, but for the first
\* transfer, and ends.
Promise ==
    INSTANCE BackgroundCopy WITH todo <- Todo, First <- Moves(Head(Chain))
ImplementsBackgroundCopy == Promise!Spec
=============================================================================
