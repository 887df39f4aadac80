-------------------------------- MODULE VGicd --------------------------------
(***************************************************************************)
(* The distributor a guest sees (drivers/vdev/vdev_gicd.c) and the map of  *)
(* virtual to physical interrupts it fills (core/vm/virq_map.c).  The map  *)
(* belongs to a vCPU, the registers for SPIs to the VM, and the interrupt  *)
(* of a device is given to whom the map of the VM's vCPU 0 says.           *)
(*                                                                         *)
(* vCPUs are pairs <<vmid, index>>.  VM 1 is the backup of VM 0, with as   *)
(* many vCPUs, and runs only after it has taken over.  The registers that  *)
(* keep a word nobody but the guest looks at are left out, and GICD_SGIR:  *)
(* it keeps nothing here, and VGic has the injection.                      *)
(***************************************************************************)
EXTENDS Integers, FiniteSets

CONSTANTS
    NumVcpus,   \* vm->num_vcpus
    Virqs,      \* the interrupts in the guest's device tree
    Banked,     \* those below 32, of which each vCPU has its own
    Preset,     \* vcpu_init's SET_VIRQMAP: for each VM, pairs <<pirq, virq>>
    Invalid     \* VIRQ_INVALID, PIRQ_INVALID

Cores == {0, 1} \X (0 .. NumVcpus - 1)
\* The pirq of a virq that no preset names has the same number.
Lines == Virqs \cup {pair[1] : pair \in Preset[0] \cup Preset[1]}

ASSUME VGicdAssumption ==
    /\ NumVcpus \in Nat \ {0}
    /\ Banked \subseteq Virqs /\ Invalid \notin Lines
    /\ \A v \in {0, 1} : \A a \in Preset[v] :
          /\ a[2] \in Virqs
          /\ a[1] \in Virqs => a[1] = a[2]      \* no other virq has its number
          /\ \A b \in Preset[v] : a[1] = b[1] \/ a[2] = b[2] => a = b

VARIABLES
    executing, \* the VM that runs, on all its vCPUs
    virqOf,    \* vcpu->map[pirq].virq
    pirqOf,    \* vcpu->map[virq].pirq
    isen,      \* GICD_ISENABLER: per VM for SPIs, per vCPU for the banked ones
    gicOn,     \* the interrupts enabled in the physical distributor
    copied,    \* history: vm_copy has been called
    elsewhere  \* history: <<VM, SPI>> first enabled from a vCPU that is not 0

gicdVars == <<executing, virqOf, pirqOf, isen, gicOn, copied, elsewhere>>

\* The register that holds the enable bit of irq for vCPU c.
Shared == -1
Bank(c, irq) == IF irq \in Banked THEN c ELSE <<c[1], Shared>>
Banks == Cores \cup {<<v, Shared>> : v \in {0, 1}}

GicdInit ==
    /\ executing = 0
    /\ virqOf = [c \in Cores |-> [q \in Lines |->
           IF \E a \in Preset[c[1]] : a[1] = q
           THEN (CHOOSE a \in Preset[c[1]] : a[1] = q)[2] ELSE Invalid]]
    /\ pirqOf = [c \in Cores |-> [q \in Lines |->
           IF \E a \in Preset[c[1]] : a[2] = q
           THEN (CHOOSE a \in Preset[c[1]] : a[2] = q)[1] ELSE Invalid]]
    /\ isen = [b \in Banks |-> {}]
    /\ gicOn = {} /\ copied = FALSE /\ elsewhere = {}

----------------------------------------------------------------------------
(* Writes to the distributor by vCPU c.                                    *)

\* set_enable for one bit: the pirq is what the map says, else the number of
\* the virq itself.  Faulty variant: always the latter.
SameNumber(c, irq) == irq
PirqFor(c, irq) == IF pirqOf[c][irq] = Invalid THEN irq ELSE pirqOf[c][irq]

\* The handler ORs into the register and gives set_enable the bits that it
\* has changed: a bit that is set already does nothing.
Enable(c, irq) ==
    /\ c[1] = executing
    /\ LET b == Bank(c, irq)
           q == PirqFor(c, irq)
       IN  /\ isen' = [isen EXCEPT ![b] = @ \cup {irq}]
           /\ IF irq \in isen[b] THEN UNCHANGED <<virqOf, pirqOf, gicOn, elsewhere>>
              ELSE /\ pirqOf' = [pirqOf EXCEPT ![c][irq] = q]
                   /\ virqOf' = [virqOf EXCEPT ![c][q] = irq]
                   /\ gicOn' = gicOn \cup {q}
                   /\ elsewhere' = IF c[2] # 0 /\ irq \notin Banked
                                   THEN elsewhere \cup {<<c[1], irq>>} ELSE elsewhere
    /\ UNCHANGED <<executing, copied>>

\* A write to ICENABLER: set_clear marks the two entries of the map as
\* disabled, which nothing reads.  Neither their other fields nor the physical
\* distributor change, and ISENABLER keeps the bit.
Disable(c, irq) ==
    /\ c[1] = executing
    /\ UNCHANGED gicdVars

----------------------------------------------------------------------------
(* Snapshot and fail-over.                                                 *)

\* vcpu_copy copies the map.
MapCopied(m) == [c \in Cores |-> m[<<0, c[2]>>]]

\* vm_copy: vcpu_copy for each vCPU and vgicd_copy.
CopyGicd ==
    /\ executing = 0
    /\ virqOf' = MapCopied(virqOf) /\ pirqOf' = MapCopied(pirqOf)
    /\ isen' = [b \in Banks |-> isen[<<0, b[2]>>]]
    /\ elsewhere' = {<<v, e[2]>> : v \in {0, 1}, e \in {x \in elsewhere : x[1] = 0}}
    /\ copied' = TRUE
    /\ UNCHANGED <<executing, gicOn>>

BackupRuns ==
    /\ executing = 0 /\ executing' = 1
    /\ UNCHANGED <<virqOf, pirqOf, isen, gicOn, copied, elsewhere>>

GicdNext ==
    \/ \E c \in Cores, irq \in Virqs : Enable(c, irq) \/ Disable(c, irq)
    \/ CopyGicd \/ BackupRuns
GicdSpec == GicdInit /\ [][GicdNext]_gicdVars

----------------------------------------------------------------------------
(* Correctness.                                                            *)

\* is_guest_spi and is_guest_ppi: what vCPU c is given for the pirq q.
Delivers(c, q) == virqOf[c][q]

\* Who is asked for irq on behalf of c: c itself if it is banked, else vCPU 0.
Asked(c, irq) == IF irq \in Banked THEN c ELSE <<c[1], 0>>

\* The line of the device that the memory map of VM v has at the place where
\* the guest expects the one with virq irq.
Wired(v, irq) ==
    IF \E a \in Preset[v] : a[2] = irq
    THEN (CHOOSE a \in Preset[v] : a[2] = irq)[1] ELSE irq

\* What a guest reads as enabled; of the SPIs, what vCPU 0 was the first to
\* enable: the maps of the others are never consulted.
On(c, irq) == irq \in isen[Bank(c, irq)] /\ <<c[1], irq>> \notin elsewhere

\* What a guest reads as enabled reaches it, whatever was disabled, enabled
\* again, enabled by two vCPUs or copied to the backup before: the physical
\* interrupt behind it is enabled and delivered under that number, and, if
\* there was no snapshot, is that of its own device (vdev_gicd.c:268, :281).
EnabledIsRouted ==
    \A c \in Cores, irq \in Virqs : On(c, irq) =>
        LET q == pirqOf[Asked(c, irq)][irq]
        IN  /\ q \in gicOn /\ Delivers(Asked(c, irq), q) = irq
            /\ copied \/ q = Wired(c[1], irq)
=============================================================================
