-------------------------------- MODULE VGic --------------------------------
(***************************************************************************)
(* Virtual interrupts: from a device or a software source to the list      *)
(* registers (LRs) of the pCPU a vCPU runs on, through pending_irqs when   *)
(* the vCPU is not current where the interrupt is injected or no LR is     *)
(* free, and back through the maintenance interrupt to the deactivation of *)
(* the physical interrupt (drivers/gic-v2.c, core/vm/virq_map.c,           *)
(* arch/arm/irq.c, drivers/vdev/vdev_gicd.c, vcpu_save and vcpu_restore).  *)
(*                                                                         *)
(* A handler of one pCPU is atomic with respect to those of the others.    *)
(* Every entry of the code has hw = 0 and asks for an EOI maintenance      *)
(* interrupt.  virq and pirq have the same number, as set_enable maps them.*)
(***************************************************************************)
EXTENDS Integers, FiniteSets

CONSTANTS
    Pcpus,
    Boot,       \* the pCPU that GICD_ITARGETSR routes every SPI to
    Vcpus,
    PcpuOf,     \* the pCPU whose scheduler runs the vCPU
    VmOf,
    First,      \* vm->vcpu[0] of each VM
    Spis,       \* the physical interrupts that are passed to a guest
    Softs,      \* what software injects: SGIs and the vtimer's vIRQ
    NumLr,      \* GICv2.num_lr
    MaxPending, \* VIRQ_MAX_ENTRIES
    SoftBound,  \* bound: software interrupts each vCPU holds at once
    None

ASSUME VGicAssumption ==
    /\ Boot \in Pcpus /\ PcpuOf \in [Vcpus -> Pcpus] /\ First \subseteq Vcpus
    /\ \A v, w \in First : VmOf[v] = VmOf[w] => v = w
    /\ Spis \cap Softs = {} /\ None \notin Vcpus \cup Spis \cup Softs
    /\ NumLr \in Nat \ {0} /\ MaxPending \in Nat
    /\ SoftBound \in [Vcpus -> Nat]

VARIABLES
    cur,        \* current_vcpuid of each pCPU
    lr,         \* the LRs of each pCPU
    saved,      \* vcpu->lr
    pend,       \* vcpu->pending_irqs
    mapped,     \* the SPIs in vcpu->map, which are then enabled in the GIC
    line,       \* the SPIs whose device asserts its line
    spiActive,  \* the SPIs that are active in the distributor
    lost        \* <<vCPU, irq>>: virq_inject found no room and returned false

places == <<lr, saved, pend>>
vars == <<cur, places, mapped, line, spiActive, lost>>

Irqs  == Spis \cup Softs
Slots == 0 .. NumLr - 1
Queue == 0 .. MaxPending - 1

\* An LR or a queue entry; "to" is the vCPU it was made for.  "done" is an
\* LR the guest has EOIed: invalid, with its bit in EISR and not in ELSR.
Entries == [irq : Irqs, to : Vcpus, state : {"pending", "active", "done"}]
Entry(v, irq) == [irq |-> irq, to |-> v, state |-> "pending"]
NoEntry == [irq |-> None, to |-> None, state |-> "empty"]

Init ==
    /\ cur   = [p \in Pcpus |-> None]
    /\ lr    = [p \in Pcpus |-> [s \in Slots |-> NoEntry]]
    /\ saved = [v \in Vcpus |-> [s \in Slots |-> NoEntry]]
    /\ pend  = [v \in Vcpus |-> [i \in Queue |-> NoEntry]]
    /\ mapped = [v \in Vcpus |-> {}]
    /\ line = {} /\ spiActive = {} /\ lost = {}

----------------------------------------------------------------------------
(* Injection.                                                              *)

Free(a) == {i \in DOMAIN a : a[i] = NoEntry}
Used(a) == DOMAIN a \ Free(a)

\* gic_find_free_slot, and the search for the first free queue entry.  Faulty
\* variant: the entry is written where an unsuccessful search ends.
Lowest(S) == CHOOSE i \in S : \A j \in S : i <= j
PutPastEnd(a, e) ==
    [i \in DOMAIN a \cup {Lowest(Free(a) \cup {Cardinality(DOMAIN a)})} |->
        IF i \in DOMAIN a \ Free(a) THEN a[i]
        ELSE IF i = Lowest(Free(a) \cup {Cardinality(DOMAIN a)}) THEN e ELSE NoEntry]
Put(a, e) == IF Free(a) = {} THEN a ELSE [a EXCEPT ![Lowest(Free(a))] = e]

\* virq_inject for every vCPU of T, executed on pCPU p: an LR if the vCPU is
\* current here and one is free, else the queue, else the interrupt is lost.
Direct(p, T) == T \cap (IF Free(lr[p]) = {} THEN {} ELSE {cur[p]})
Inject(p, T, irq) ==
    LET queued == T \ Direct(p, T)
    IN  /\ lr' = [lr EXCEPT ![p] = IF Direct(p, T) = {} THEN @
                                   ELSE Put(@, Entry(cur[p], irq))]
        /\ pend' = [v \in Vcpus |-> IF v \in queued THEN Put(pend[v], Entry(v, irq))
                                    ELSE pend[v]]
        /\ lost' = lost \cup {<<v, irq>> : v \in {u \in queued : Free(pend[u]) = {}}}
        /\ UNCHANGED <<cur, saved, mapped>>

Held(v, a) == {i \in DOMAIN a : a[i].to = v}
CountOf(v, irq, a) == Cardinality({i \in Held(v, a) : a[i].irq = irq})

\* How often v holds irq: in the LRs where it runs, else saved; and queued.
\* An LR that the guest has EOIed still counts.
Copies(v, irq) ==
    CountOf(v, irq, pend[v])
    + (IF cur[PcpuOf[v]] = v THEN CountOf(v, irq, lr[PcpuOf[v]])
                             ELSE CountOf(v, irq, saved[v]))

\* handler_SGIR for a vCPU of the VM that runs on p, or the vtimer of a vCPU
\* homed on p.
SoftInject(p, v, irq) ==
    /\ cur[p] # None
    /\ \/ VmOf[v] = VmOf[cur[p]]
       \/ PcpuOf[v] = p
    /\ Copies(v, irq) < SoftBound[v]
    /\ Inject(p, {v}, irq)
    /\ UNCHANGED <<line, spiActive>>

\* is_guest_spi: vcpu[0] of every VM that has the SPI in its map.
Targets(spi) == {v \in First : spi \in mapped[v]}

\* do_irq: acknowledge, EOI (a priority drop), handler.  The handler returns
\* VM_IRQ, so that the interrupt stays active.  Faulty variant: deactivated.
DeactivatedAtOnce(spi) == spiActive
LeftActive(spi) == spiActive \cup {spi}

DoIrq(spi) ==
    /\ spi \in line \ spiActive
    /\ \E v \in Vcpus : spi \in mapped[v]
    /\ spiActive' = LeftActive(spi)
    /\ Inject(Boot, Targets(spi), spi)
    /\ UNCHANGED line

----------------------------------------------------------------------------
(* The guest, and completion.                                              *)

\* The guest that runs on p writes GICD_ISENABLER for an SPI: set_enable
\* enters it in both directions of vcpu->map and enables it in the GIC.
\* Writing GICD_ICENABLER does neither remove it nor disable it.
GuestEnable(p, spi) ==
    /\ cur[p] \in First
    /\ \A v \in Vcpus : spi \notin mapped[v]        \* a device has one owner
    /\ mapped' = [mapped EXCEPT ![cur[p]] = @ \cup {spi}]
    /\ UNCHANGED <<cur, places, line, spiActive, lost>>

\* The guest acknowledges a virtual interrupt ...
GuestAck(p, s) ==
    /\ lr[p][s].state = "pending"
    /\ lr' = [lr EXCEPT ![p][s].state = "active"]
    /\ UNCHANGED <<cur, saved, pend, mapped, line, spiActive, lost>>

\* ... serves the device, and ends it.
GuestEoi(p, s) ==
    /\ lr[p][s].state = "active"
    /\ lr' = [lr EXCEPT ![p][s].state = "done"]
    /\ line' = line \ {lr[p][s].irq}
    /\ UNCHANGED <<cur, saved, pend, mapped, spiActive, lost>>

Done(p) == {s \in Slots : lr[p][s].state = "done"}

Completed(p) == {lr[p][s].irq : s \in Done(p)}

\* gic_isr_maintenance_irq: every EOIed LR is emptied, and the pirq the
\* current vCPU maps it to is deactivated.
Maintenance(p) ==
    /\ Done(p) # {}
    /\ lr' = [lr EXCEPT ![p] = [s \in Slots |-> IF s \in Done(p) THEN NoEntry ELSE lr[p][s]]]
    /\ spiActive' = spiActive \ (Completed(p) \cap mapped[cur[p]])
    /\ UNCHANGED <<cur, saved, pend, mapped, line, lost>>

----------------------------------------------------------------------------
(* The context switch.                                                     *)

Rank(S, i) == Cardinality({j \in S : j < i})

\* gic_inject_pending_irqs: queue entries move to the free LRs in order until
\* no LR is free.  Faulty variant: the loop does not stop there, and the
\* entries that find no LR are cleared all the same.
DrainedAll(q, l) == [i \in Queue |-> NoEntry]
Drained(q, l) ==
    [i \in Queue |-> IF i \in Used(q) /\ Rank(Used(q), i) < Cardinality(Free(l))
                     THEN NoEntry ELSE q[i]]
Filled(q, l) ==
    [s \in Slots |->
        IF s \in Free(l) /\ Rank(Free(l), s) < Cardinality(Used(q))
        THEN q[CHOOSE i \in Used(q) : Rank(Used(q), i) = Rank(Free(l), s)]
        ELSE l[s]]

\* vcpu_save.  Faulty variant: an LR in EISR is taken for an empty one.
SavedValid(p) == [s \in Slots |-> IF s \in Done(p) THEN NoEntry ELSE lr[p][s]]
SavedLr(p) == lr[p]

\* vcpu_restore writes every LR.  Faulty variant: those the vCPU uses.
RestoredUsed(p, a) == [s \in Slots |-> IF a[s] = NoEntry THEN lr[p][s] ELSE a[s]]
Restored(p, a) == a

\* do_context_switch on p: vcpu_save of the current vCPU, if there is one,
\* and vcpu_restore of v, which may be the same.
Switch(p, v) ==
    /\ PcpuOf[v] = p
    /\ saved' = IF cur[p] = None THEN saved ELSE [saved EXCEPT ![cur[p]] = SavedLr(p)]
    /\ LET l == Restored(p, saved'[v])
       IN  /\ lr'   = [lr EXCEPT ![p] = Filled(pend[v], l)]
           /\ pend' = [pend EXCEPT ![v] = Drained(@, l)]
    /\ cur' = [cur EXCEPT ![p] = v]
    /\ UNCHANGED <<mapped, line, spiActive, lost>>

Raise(spi) ==
    /\ spi \notin line
    /\ line' = line \cup {spi}
    /\ UNCHANGED <<cur, places, mapped, spiActive, lost>>

Soft == \E p \in Pcpus, v \in Vcpus, irq \in Softs : SoftInject(p, v, irq)

Next ==
    \/ Soft
    \/ \E spi \in Spis : Raise(spi) \/ DoIrq(spi)
    \/ \E p \in Pcpus :
          \/ Maintenance(p)
          \/ \E spi \in Spis : GuestEnable(p, spi)
          \/ \E s \in Slots : GuestAck(p, s) \/ GuestEoi(p, s)
          \/ \E v \in Vcpus : Switch(p, v)

Runs(v) == cur[PcpuOf[v]] = v

\* Physical interrupts are taken, every vCPU is switched to again and again,
\* and each guest, which then runs for a whole slice, answers its interrupts.
Spec ==
    /\ Init /\ [][Next]_vars
    /\ \A spi \in Spis : WF_vars(DoIrq(spi))
    /\ \A v \in Vcpus :
          /\ WF_vars(Switch(PcpuOf[v], v))
          /\ SF_vars(Runs(v) /\ Maintenance(PcpuOf[v]))
          /\ \A s \in Slots : /\ SF_vars(Runs(v) /\ GuestAck(PcpuOf[v], s))
                              /\ SF_vars(Runs(v) /\ GuestEoi(PcpuOf[v], s))

----------------------------------------------------------------------------
(* Correctness.                                                            *)

\* Every variable keeps its type; no pCPU runs the vCPU of another one.
TypeOK ==
    /\ cur   \in [Pcpus -> Vcpus \cup {None}]
    /\ \A p \in Pcpus : cur[p] = None \/ PcpuOf[cur[p]] = p
    /\ lr    \in [Pcpus -> [Slots -> Entries \cup {NoEntry}]]
    /\ saved \in [Vcpus -> [Slots -> Entries \cup {NoEntry}]]
    /\ pend  \in [Vcpus -> [Queue -> Entries \cup {NoEntry}]]
    /\ mapped \in [Vcpus -> SUBSET Spis]
    /\ line \subseteq Spis /\ spiActive \subseteq Spis
    /\ lost \subseteq Vcpus \X Irqs

\* No guest gets the interrupt of another: what is in the LRs of a pCPU was
\* made for the vCPU it runs, what is saved or queued for a vCPU was made
\* for it.
NoStray ==
    /\ \A p \in Pcpus, s \in Slots : lr[p][s].to \in {None, cur[p]}
    /\ \A v \in Vcpus :
          /\ \A s \in Slots : saved[v][s].to \in {None, v}
          /\ \A i \in Queue : pend[v][i].to \in {None, v}

\* An SPI that is active, and therefore masked, is owed a deactivation by
\* some vCPU that holds it, unless the injection found no room.
ActiveIsOwed ==
    \A spi \in spiActive : \E v \in Vcpus :
        /\ spi \in mapped[v]
        /\ Copies(v, spi) > 0 \/ <<v, spi>> \in lost

\* A vCPU holds an SPI once at most: the architecture leaves the behaviour of
\* two LRs with one virtual ID undefined.
OneCopy == \A v \in Vcpus, spi \in Spis : Copies(v, spi) <= 1

\* A context switch neither loses nor duplicates an interrupt of any vCPU,
\* wherever it was and whether or not it fits into the LRs.
SwitchKeeps ==
    [][(\E p \in Pcpus, v \in Vcpus : Switch(p, v)) =>
          \A v \in Vcpus, irq \in Irqs : Copies(v, irq)' = Copies(v, irq)]_vars

Queued(v, irq) == \E i \in Queue : pend[v][i] = Entry(v, irq)

\* A switch to a vCPU leaves its SPI in the queue, as the LRs are full.
LeftBehind(spi) ==
    \E v \in Vcpus : /\ Switch(PcpuOf[v], v)
                     /\ Queued(v, spi) /\ Queued(v, spi)'

\* A device whose line is up and whose SPI a guest has enabled is served, in
\* whatever order it was overtaken, unless the interrupt was dropped for want
\* of room (gic-v2.c:325), or finds the LRs full at one switch after another:
\* an LR that a maintenance interrupt frees goes to what is injected next,
\* not to the queue (gic-v2.c:68), and to the lowest entry at a switch.
SpiServed ==
    \A spi \in Spis :
        \/ []<><<LeftBehind(spi)>>_vars
        \/ (spi \in line /\ \E v \in Vcpus : spi \in mapped[v])
              ~> (spi \notin line \/ \E v \in Vcpus : <<v, spi>> \in lost)
=============================================================================
