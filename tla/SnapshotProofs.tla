--------------------------- MODULE SnapshotProofs ---------------------------
(***************************************************************************)
(* Proofs about the snapshot of a VM and the fail-over to its backup: the  *)
(* freed vCPU is not scheduled again if nothing was being copied, no       *)
(* active interrupt that the backup knows is orphaned, the backup is a     *)
(* copy between the snapshot and now, and the DMA transfers are the        *)
(* background copy they promise to be.                                     *)
(***************************************************************************)
EXTENDS VmSnapshot, SequenceTheorems, TLAPS

(* The fail-over: scheduler entries and interrupts.                        *)

FailOverTypes ==
    /\ entries \in Seq({"attached", "detached"})
    /\ vmState \in [normal : {"running", "deleted"}, backup : {"halted", "running"}]
    /\ early \in BOOLEAN /\ taken \in Nat
    /\ lr \in Irqs \cup {None} /\ backupLr \in Irqs \cup {None}
    /\ pend \subseteq Irqs /\ backupPend \subseteq Irqs
    /\ vmMap \in BOOLEAN /\ backupMap \in {"no", "copied", "own"}
    /\ vmMap \/ backupMap # "no" => Spi \in Irqs
    /\ active \in BOOLEAN /\ missed \in BOOLEAN

\* While the VM lives its vCPU is attached by its first entry, and by no
\* other: the entries that the ends of the copies add stay detached.
FirstIsAttached ==
    ~ TookOver => /\ entries # <<>>
                  /\ \A i \in DOMAIN entries :
                        entries[i] = IF i = 1 THEN "attached" ELSE "detached"

\* No copy is under way once the backup has taken over, unless it was then.
QuietAfter == TookOver => ~ busy /\ (early \/ ~ Copying)

\* The backup is RUNNING, for is_guest_spi, when it has taken over, and when a
\* snapshot that has given it the map has ended.
BackupRuns ==
    TookOver \/ (backupMap # "no" /\ ~ busy) => vmState.backup = "running"

\* What the VM that lives owes to the distributor.
HeldByVm == ~ TookOver /\ active => Spi \in {lr} \cup pend

\* What the backup would owe if it took over now.
OwedByBackup ==
    ~ TookOver /\ backupMap = "copied" /\ active =>
        missed \/ Spi \in {backupLr} \cup backupPend

FailOverInv ==
    /\ FailOverTypes
    /\ FirstIsAttached
    /\ NoGhostAfterCopy
    /\ QuietAfter
    /\ BackupRuns
    /\ HeldByVm
    /\ OwedByBackup
    /\ ActiveIsOwed

\* dma_irq_handler at the end of the last transfer: the vCPU is registered
\* once more, and the attach finds the entry that is attached already.
LEMMA RegisterKeeps ==
    ASSUME FailOverTypes, FirstIsAttached, ~ TookOver
    PROVE  LET e == Attached(Append(entries, "detached"))
           IN  /\ e \in Seq({"attached", "detached"}) /\ e # <<>>
               /\ \A i \in DOMAIN e : e[i] = IF i = 1 THEN "attached" ELSE "detached"
<1> DEFINE a == Append(entries, "detached")
           n == Len(entries)
<1>1. /\ entries \in Seq({"attached", "detached"}) /\ n \in Nat /\ n >= 1
      /\ \A i \in 1 .. n : entries[i] = IF i = 1 THEN "attached" ELSE "detached"
    BY DEF FailOverTypes, FirstIsAttached
<1>2. /\ a \in Seq({"attached", "detached"}) /\ Len(a) = n + 1
      /\ \A i \in 1 .. n + 1 : a[i] = IF i <= n THEN entries[i] ELSE "detached"
    BY <1>1
<1> HIDE DEF a, n
<1>3. a[1] = "attached"
    BY <1>1, <1>2
<1>4. Attached(a) = a
    BY <1>3 DEF Attached
<1>5. \A i \in 1 .. n + 1 : a[i] = IF i = 1 THEN "attached" ELSE "detached"
    BY <1>1, <1>2
<1>6. DOMAIN a = 1 .. n + 1 /\ a # <<>>
    BY <1>1, <1>2
<1> QED
    BY <1>2, <1>4, <1>5, <1>6 DEF a

\* kmus_start.
LEMMA FailOverStep == FailOverInv /\ FailOver => FailOverInv'
<1> SUFFICES ASSUME FailOverInv, FailOver PROVE FailOverInv'
    OBVIOUS
<1>1. /\ vmState.normal = "running" /\ ~ TookOver /\ ~ busy
      /\ vmState' = [normal |-> "deleted", backup |-> "running"]
      /\ early' = Copying
      /\ entries' = Tail(entries) /\ lr' = backupLr /\ pend' = {}
      /\ UNCHANGED <<memVars, backupLr, backupPend, mapVars, active, missed>>
    BY DEF FailOver, TookOver
<1>2. /\ entries \in Seq({"attached", "detached"}) /\ entries # <<>>
      /\ \A i \in DOMAIN entries : entries[i] = IF i = 1 THEN "attached" ELSE "detached"
    BY <1>1 DEF FailOverInv, FailOverTypes, FirstIsAttached
<1>3. /\ entries' \in Seq({"attached", "detached"})
      /\ \A i \in DOMAIN entries' : entries'[i] = "detached"
    BY <1>1, <1>2
<1>4. TookOver'
    BY <1>1 DEF TookOver
<1>5. FailOverTypes'
    BY <1>1, <1>3 DEF FailOverInv, FailOverTypes, memVars, mapVars, Copying
<1>6. NoGhostAfterCopy' /\ FirstIsAttached' /\ HeldByVm' /\ OwedByBackup'
    BY <1>3, <1>4 DEF NoGhostAfterCopy, NoGhost, FirstIsAttached, HeldByVm, OwedByBackup
<1>7. QuietAfter'
    BY <1>1 DEF QuietAfter, Copying, memVars
<1>8. BackupRuns'
    BY <1>1 DEF BackupRuns
<1>9. ActiveIsOwed'
    BY <1>1 DEF FailOverInv, OwedByBackup, ActiveIsOwed, mapVars
<1> QED
    BY <1>5, <1>6, <1>7, <1>8, <1>9 DEF FailOverInv

\* kmus_snapshot: what the VM holds in its LR is copied, what it holds in
\* its queue is missed.
LEMMA SnapshotStep == FailOverInv /\ Snapshot => FailOverInv'
<1> SUFFICES ASSUME FailOverInv, Snapshot PROVE FailOverInv'
    OBVIOUS
<1>1. /\ ~ TookOver /\ ~ TookOver' /\ busy'
      /\ taken' = taken + 1 /\ backupLr' = lr /\ missed' = (Spi \in pend)
      /\ backupMap' = IF vmMap THEN "copied" ELSE "no"
      /\ UNCHANGED <<vmState, entries, early, lr, pend, backupPend, vmMap, active>>
    BY DEF Snapshot, CopyMemory, CopyVcpu, TookOver, vmVars
<1>2. FailOverTypes'
    BY <1>1 DEF FailOverInv, FailOverTypes
<1>3. FirstIsAttached' /\ HeldByVm'
    BY <1>1 DEF FailOverInv, FirstIsAttached, HeldByVm
<1>4. NoGhostAfterCopy' /\ QuietAfter' /\ ActiveIsOwed' /\ BackupRuns'
    BY <1>1 DEF NoGhostAfterCopy, NoGhost, QuietAfter, ActiveIsOwed, BackupRuns
<1>5. OwedByBackup'
    <2>1. active => Spi \in {lr} \cup pend
        BY <1>1 DEF FailOverInv, HeldByVm
    <2> QED
        BY <1>1, <2>1 DEF OwedByBackup
<1> QED
    BY <1>2, <1>3, <1>4, <1>5 DEF FailOverInv

\* The rest of kmus_snapshot: the backup is RUNNING.
LEMMA StartedStep == FailOverInv /\ Started => FailOverInv'
<1> SUFFICES ASSUME FailOverInv, Started PROVE FailOverInv'
    OBVIOUS
<1>1. /\ busy /\ vmState' = [vmState EXCEPT !.backup = "running"]
      /\ UNCHANGED <<taken, entries, early, irqVars>>
    BY DEF Started, CopyVm
<1>2. /\ vmState' \in [normal : {"running", "deleted"}, backup : {"halted", "running"}]
      /\ vmState'.normal = vmState.normal /\ vmState'.backup = "running"
    BY <1>1 DEF FailOverInv, FailOverTypes
<1>3. ~ TookOver /\ ~ TookOver'
    BY <1>1, <1>2 DEF TookOver, FailOverInv, QuietAfter
<1>4. FailOverTypes'
    BY <1>1, <1>2 DEF FailOverInv, FailOverTypes, irqVars, mapVars
<1>5. FirstIsAttached' /\ HeldByVm' /\ OwedByBackup'
    BY <1>1, <1>3 DEF FailOverInv, FirstIsAttached, HeldByVm, OwedByBackup, irqVars, mapVars
<1>6. NoGhostAfterCopy' /\ QuietAfter' /\ ActiveIsOwed' /\ BackupRuns'
    BY <1>2, <1>3 DEF NoGhostAfterCopy, NoGhost, QuietAfter, ActiveIsOwed, BackupRuns
<1> QED
    BY <1>4, <1>5, <1>6 DEF FailOverInv

\* dma_irq_handler.
LEMMA DmaIrqStep == FailOverInv /\ DmaIrq => FailOverInv'
<1> SUFFICES ASSUME FailOverInv, DmaIrq PROVE FailOverInv'
    OBVIOUS
<1>1. /\ endIrq /\ busy' = busy
      /\ UNCHANGED <<taken, vmState, early, lr, pend, backupLr, backupPend>>
      /\ UNCHANGED <<vmMap, backupMap, active, missed>>
    BY DEF DmaIrq, irqVars, mapVars
<1>2. TookOver' = TookOver
    BY <1>1 DEF TookOver
<1>3. TookOver => early
    BY <1>1 DEF FailOverInv, QuietAfter, Copying
<1>4. /\ entries' \in Seq({"attached", "detached"})
      /\ ~ TookOver => /\ entries' # <<>>
                       /\ \A i \in DOMAIN entries' :
                             entries'[i] = IF i = 1 THEN "attached" ELSE "detached"
    <2>1. CASE NextTransfer
        BY <1>2, <2>1 DEF DmaIrq, FailOverInv, FailOverTypes, FirstIsAttached
    <2>2. CASE ~ NextTransfer
        <3>1. entries' = Attached(Append(entries, "detached"))
            BY <2>2 DEF DmaIrq
        <3>2. \A e \in Seq({"attached", "detached"}) :
                 Attached(Append(e, "detached")) \in Seq({"attached", "detached"})
            <4> SUFFICES ASSUME NEW e \in Seq({"attached", "detached"})
                         PROVE  Attached(Append(e, "detached")) \in Seq({"attached", "detached"})
                OBVIOUS
            <4> DEFINE a == Append(e, "detached")
            <4>1. a \in Seq({"attached", "detached"})
                OBVIOUS
            <4> HIDE DEF a
            <4>2. [a EXCEPT ![1] = "attached"] \in Seq({"attached", "detached"})
                <5>1. 1 \in 1 .. Len(a)
                    BY DEF a
                <5> QED
                    BY <4>1, <5>1, ExceptSeq
            <4> QED
                BY <4>1, <4>2 DEF Attached, a
        <3>3. entries \in Seq({"attached", "detached"})
            BY DEF FailOverInv, FailOverTypes
        <3> QED
            BY <3>1, <3>2, <3>3, RegisterKeeps DEF FailOverInv
    <2> QED
        BY <2>1, <2>2
<1>5. FailOverTypes'
    BY <1>1, <1>4 DEF FailOverInv, FailOverTypes
<1>6. FirstIsAttached'
    BY <1>2, <1>4 DEF FirstIsAttached
<1>7. NoGhostAfterCopy' /\ QuietAfter'
    BY <1>1, <1>2, <1>3 DEF FailOverInv, NoGhostAfterCopy, NoGhost, QuietAfter
<1>8. BackupRuns' /\ HeldByVm' /\ OwedByBackup' /\ ActiveIsOwed'
    BY <1>1, <1>2 DEF FailOverInv, BackupRuns, HeldByVm, OwedByBackup, ActiveIsOwed
<1> QED
    BY <1>5, <1>6, <1>7, <1>8 DEF FailOverInv

\* The interrupts of the VM and of its backup.
LEMMA IrqStep ==
    FailOverInv /\ (SoftIrq \/ SpiIrq \/ Complete \/ Drain) => FailOverInv'
<1> SUFFICES ASSUME FailOverInv, SoftIrq \/ SpiIrq \/ Complete \/ Drain
             PROVE  FailOverInv'
    OBVIOUS
<1>0. Spi # Soft /\ Spi # None /\ Soft # None
    BY VmSnapshotAssumption
<1>1. UNCHANGED <<memVars, vmVars, backupLr, mapVars>>
    BY DEF SoftIrq, SpiIrq, Complete, Drain
<1>2. /\ UNCHANGED <<entries, vmState, early, taken, chan, endIrq, queue, busy>>
      /\ UNCHANGED <<backupLr, vmMap, backupMap>>
    BY <1>1 DEF memVars, vmVars, mapVars
<1>3. TookOver' = TookOver /\ Copying' = Copying
    BY <1>2 DEF TookOver, Copying
<1>4. FailOverTypes'
    <2> USE DEF FailOverInv, FailOverTypes
    <2>1. CASE SoftIrq
        BY <1>2, <2>1 DEF SoftIrq, Into
    <2>2. CASE SpiIrq
        <3>1. Spi \in Irqs
            BY <2>2 DEF SpiIrq
        <3> QED
            BY <1>2, <2>2, <3>1 DEF SpiIrq, Into
    <2>3. CASE Complete
        BY <1>2, <2>3 DEF Complete
    <2>4. CASE Drain
        BY <1>2, <2>4 DEF Drain
    <2> QED
        BY <2>1, <2>2, <2>3, <2>4
<1>5. FirstIsAttached' /\ NoGhostAfterCopy' /\ QuietAfter' /\ BackupRuns'
    BY <1>2, <1>3 DEF FailOverInv, FirstIsAttached, NoGhostAfterCopy, NoGhost, QuietAfter,
                      BackupRuns
<1>6. HeldByVm'
    <2> SUFFICES ASSUME ~ TookOver, active' PROVE Spi \in {lr'} \cup pend'
        BY <1>3 DEF HeldByVm
    <2>0. active => Spi \in {lr} \cup pend
        BY DEF FailOverInv, HeldByVm
    <2>1. CASE SoftIrq
        BY <1>0, <2>0, <2>1 DEF SoftIrq, Into
    <2>2. CASE SpiIrq
        BY <1>0, <2>2 DEF SpiIrq
    <2>3. CASE Complete
        BY <1>0, <2>0, <2>3 DEF Complete
    <2>4. CASE Drain
        BY <1>0, <2>0, <2>4 DEF Drain
    <2> QED
        BY <2>1, <2>2, <2>3, <2>4
<1>7. OwedByBackup'
    <2> SUFFICES ASSUME ~ TookOver, backupMap = "copied", active'
                 PROVE  missed' \/ Spi \in {backupLr} \cup backupPend'
        BY <1>2, <1>3 DEF OwedByBackup
    <2>0. active => missed \/ Spi \in {backupLr} \cup backupPend
        BY DEF FailOverInv, OwedByBackup
    <2>1. CASE SoftIrq
        BY <2>0, <2>1 DEF SoftIrq, Into
    <2>2. CASE SpiIrq
        BY <2>2 DEF SpiIrq, ToBackup, FailOverInv, BackupRuns
    <2>3. CASE Complete
        BY <2>0, <2>3 DEF Complete
    <2>4. CASE Drain
        BY <2>0, <2>4 DEF Drain
    <2> QED
        BY <2>1, <2>2, <2>3, <2>4
<1>8. ActiveIsOwed'
    <2> SUFFICES ASSUME TookOver, backupMap = "copied", active'
                 PROVE  missed' \/ Spi \in {lr'} \cup backupPend'
        BY <1>2, <1>3 DEF ActiveIsOwed
    <2>0. active => missed \/ Spi \in {lr} \cup backupPend
        BY DEF FailOverInv, ActiveIsOwed
    <2>1. CASE SoftIrq
        BY <1>0, <2>0, <2>1 DEF SoftIrq, Into
    <2>2. CASE SpiIrq
        BY <1>0, <2>2 DEF SpiIrq, Into, ToBackup, FailOverInv, BackupRuns
    <2>3. CASE Complete
        BY <1>0, <2>0, <2>3 DEF Complete
    <2>4. CASE Drain
        BY <1>0, <2>0, <2>4 DEF Drain
    <2> QED
        BY <2>1, <2>2, <2>3, <2>4
<1> QED
    BY <1>4, <1>5, <1>6, <1>7, <1>8 DEF FailOverInv

\* Enabling the interrupt: the backup that does so by itself owes nothing for
\* what was active before.
LEMMA EnableStep == FailOverInv /\ Enable => FailOverInv'
<1> SUFFICES ASSUME FailOverInv, Enable PROVE FailOverInv'
    OBVIOUS
<1>1. /\ UNCHANGED <<memVars, vmVars, lr, pend, backupLr, backupPend, active, missed>>
      /\ vmMap' \in {vmMap, TRUE} /\ backupMap' \in {backupMap, "own"}
      /\ backupMap' # backupMap => TookOver
      /\ Spi \in Irqs
    BY DEF Enable
<1>2. TookOver' = TookOver /\ Copying' = Copying
    BY <1>1 DEF TookOver, Copying, memVars, vmVars
<1>3. FailOverTypes'
    BY <1>1 DEF FailOverInv, FailOverTypes, memVars, vmVars
<1>4. FirstIsAttached' /\ NoGhostAfterCopy' /\ QuietAfter' /\ BackupRuns' /\ HeldByVm'
    BY <1>1, <1>2 DEF FailOverInv, FirstIsAttached, NoGhostAfterCopy, NoGhost, QuietAfter,
                      BackupRuns, HeldByVm, memVars, vmVars
<1>5. OwedByBackup' /\ ActiveIsOwed'
    BY <1>1, <1>2 DEF FailOverInv, OwedByBackup, ActiveIsOwed
<1> QED
    BY <1>3, <1>4, <1>5 DEF FailOverInv

\* The memory traffic does not touch any of this.
LEMMA TrafficStep ==
    ASSUME FailOverInv, UNCHANGED <<taken, busy, vmVars, irqVars>>,
           TookOver => early \/ Copying' = Copying
    PROVE  FailOverInv'
<1>1. TookOver' = TookOver
    BY DEF TookOver, vmVars
<1>2. FailOverTypes' /\ FirstIsAttached' /\ NoGhostAfterCopy' /\ BackupRuns'
    BY <1>1 DEF FailOverInv, FailOverTypes, FirstIsAttached, NoGhostAfterCopy, NoGhost,
                BackupRuns, vmVars, irqVars, mapVars
<1>3. HeldByVm' /\ OwedByBackup' /\ ActiveIsOwed'
    BY <1>1 DEF FailOverInv, HeldByVm, OwedByBackup, ActiveIsOwed, irqVars, mapVars
<1>4. QuietAfter'
    BY <1>1 DEF FailOverInv, QuietAfter, vmVars
<1> QED
    BY <1>2, <1>3, <1>4 DEF FailOverInv

\* FailOverInv is inductive.
LEMMA FailOverInductive == FailOverInv /\ [Next]_vars => FailOverInv'
<1> SUFFICES ASSUME FailOverInv, [Next]_vars PROVE FailOverInv'
    OBVIOUS
<1>1. CASE Snapshot
    BY <1>1, SnapshotStep
<1>2. CASE FailOver
    BY <1>2, FailOverStep
<1>3. ASSUME NEW u \in Units, Write(u) PROVE FailOverInv'
    BY <1>3, TrafficStep DEF Write, Copying
<1>4. ASSUME NEW u \in Units, DmaMove(u) PROVE FailOverInv'
    <2>1. TookOver => early
        BY <1>4 DEF DmaMove, FailOverInv, QuietAfter, Copying
    <2> QED
        BY <1>4, <2>1, TrafficStep DEF DmaMove
<1>5. CASE DmaIrq
    BY <1>5, DmaIrqStep
<1>6. CASE SoftIrq \/ SpiIrq \/ Complete \/ Drain
    BY <1>6, IrqStep
<1>7. CASE Enable
    BY <1>7, EnableStep
<1>8. CASE Started
    BY <1>8, StartedStep
<1>9. CASE UNCHANGED vars
    BY <1>9, TrafficStep DEF vars, memVars, Copying
<1> QED
    BY <1>1, <1>2, <1>3, <1>4, <1>5, <1>6, <1>7, <1>8, <1>9 DEF Next

\* Init establishes FailOverInv.
LEMMA FailOverInit == Init => FailOverInv
<1> SUFFICES ASSUME Init PROVE FailOverInv
    OBVIOUS
<1>1. ~ TookOver /\ entries = <<"attached">> /\ backupMap = "no" /\ ~ active
    BY DEF Init, TookOver
<1>2. FailOverTypes
    <2>1. <<"attached">> \in Seq({"attached", "detached"})
        OBVIOUS
    <2>2. vmState \in [normal : {"running", "deleted"}, backup : {"halted", "running"}]
        BY DEF Init
    <2>3. /\ taken \in Nat /\ early \in BOOLEAN
          /\ lr \in Irqs \cup {None} /\ backupLr \in Irqs \cup {None}
          /\ pend \subseteq Irqs /\ backupPend \subseteq Irqs
          /\ vmMap \in BOOLEAN /\ backupMap \in {"no", "copied", "own"}
          /\ vmMap \/ backupMap # "no" => Spi \in Irqs
          /\ active \in BOOLEAN /\ missed \in BOOLEAN
        BY DEF Init
    <2> QED
        BY <1>1, <2>1, <2>2, <2>3 DEF FailOverTypes
<1>3. FirstIsAttached
    BY <1>1 DEF FirstIsAttached
<1>4. /\ NoGhostAfterCopy /\ QuietAfter /\ BackupRuns
      /\ HeldByVm /\ OwedByBackup /\ ActiveIsOwed
    BY <1>1 DEF NoGhostAfterCopy, NoGhost, QuietAfter, BackupRuns, HeldByVm, OwedByBackup,
                ActiveIsOwed
<1> QED
    BY <1>2, <1>3, <1>4 DEF FailOverInv

\* FailOverInv holds in every reachable state.
LEMMA FailOverInvariant == Spec => []FailOverInv
<1>1. Spec => Init /\ [][Next]_vars
    BY PTL DEF Spec
<1> QED
    BY <1>1, FailOverInit, FailOverInductive, PTL

\* After kmus_start nothing gives the freed vCPU 0 back to the scheduler, if
\* it was called when no copy was under way (sun4i-dma.c:88).
THEOREM FreedStaysFreed == Spec => []NoGhostAfterCopy
<1>1. FailOverInv => NoGhostAfterCopy
    BY DEF FailOverInv
<1> QED
    BY <1>1, FailOverInvariant, PTL

\* The backup that took over will end every interrupt that is active, of those
\* the VM had enabled when the last snapshot copied its map, unless it was in
\* pending_irqs when vcpu_copy copied the LRs alone (vcpu.c:168).
THEOREM NoOrphanedInterrupt == Spec => []ActiveIsOwed
<1>1. FailOverInv => ActiveIsOwed
    BY DEF FailOverInv
<1> QED
    BY <1>1, FailOverInvariant, PTL

----------------------------------------------------------------------------
(* The transfers of a copy.                                                *)

\* The memory is a whole number of transfers, as the 256M of vm_conf are
\* (core/vm_config.c).  Else the last transfer of chain_enqueue goes to the
\* wrong place: see TailIsForgotten.
WholeChunks == Rest = 0

Transfers == [from : Nat, bc : Nat]

\* What the transfers of a queue move.
Flat(q) == UNION {Moves(q[i]) : i \in DOMAIN q}

\* No two transfers of a queue move the same unit.
Apart(q) == \A i, j \in DOMAIN q : i # j => Moves(q[i]) \cap Moves(q[j]) = {}

\* Products keep the order.
LEMMA TimesMonotone ==
    ASSUME NEW a \in Nat, NEW b \in Nat, NEW c \in Nat, a <= b
    PROVE  a * c <= b * c
<1>1. b * c = a * c + (b - a) * c
    OBVIOUS
<1>2. (b - a) * c >= 0 /\ a * c \in Nat /\ b * c \in Nat
    OBVIOUS
<1> QED
    BY <1>1, <1>2

\* What \div and % say of the size of the memory.
LEMMA Division ==
    /\ Total \div Chunk \in Nat /\ Rest \in 0 .. Chunk - 1
    /\ Total = (Total \div Chunk) * Chunk + Rest
    /\ \A u \in Nat : u \div Chunk \in Nat
                      /\ (u \div Chunk) * Chunk <= u
                      /\ u < (u \div Chunk) * Chunk + Chunk
<1>0. Chunk \in Nat \ {0} /\ Total \in Nat
    BY VmSnapshotAssumption
<1>1. \A u \in Nat : /\ u \div Chunk \in Nat /\ u % Chunk \in 0 .. Chunk - 1
                     /\ u = Chunk * (u \div Chunk) + (u % Chunk)
    BY <1>0
<1>2. \A x \in Nat : Chunk * x = x * Chunk
    BY <1>0
<1>3. ASSUME NEW u \in Nat
      PROVE  /\ u = (u \div Chunk) * Chunk + (u % Chunk)
             /\ (u \div Chunk) * Chunk \in Nat
    BY <1>0, <1>1, <1>2
<1>4. ASSUME NEW u \in Nat
      PROVE  (u \div Chunk) * Chunk <= u /\ u < (u \div Chunk) * Chunk + Chunk
    BY <1>0, <1>1, <1>3
<1> QED
    BY <1>0, <1>1, <1>3, <1>4 DEF Rest

\* The full chunks of chain_enqueue: one after the other, none twice.
LEMMA FullChunks ==
    ASSUME NEW n \in Nat
    PROVE  /\ FullFrom(n) \in Seq(Transfers) /\ Len(FullFrom(n)) = n
           /\ DOMAIN FullFrom(n) = 1 .. n
           /\ \A i \in 1 .. n :
                 Moves(FullFrom(n)[i]) = (i - 1) * Chunk .. i * Chunk - 1
           /\ \A i \in 1 .. n : (i - 1) * Chunk \in Nat /\ i * Chunk \in Nat
           /\ Apart(FullFrom(n))
<1> DEFINE q == FullFrom(n)
<1>0. Chunk \in Nat \ {0}
    BY VmSnapshotAssumption
<1>1. \A i \in 1 .. n : /\ (i - 1) * Chunk \in Nat /\ i * Chunk \in Nat
                        /\ i * Chunk = (i - 1) * Chunk + Chunk
    BY <1>0
<1>2. \A i \in 1 .. n : Transfer((i - 1) * Chunk, Chunk) \in Transfers
    BY <1>0, <1>1 DEF Transfer, Transfers
<1>3. q = [i \in 1 .. n |-> Transfer((i - 1) * Chunk, Chunk)]
    BY DEF FullFrom
<1>4. q \in Seq(Transfers) /\ Len(q) = n /\ DOMAIN q = 1 .. n
    BY <1>2, <1>3
<1>5. ASSUME NEW i \in 1 .. n PROVE Moves(q[i]) = (i - 1) * Chunk .. i * Chunk - 1
    <2>1. q[i] = Transfer((i - 1) * Chunk, Chunk)
        BY <1>3
    <2> HIDE DEF q
    <2>2. q[i].from = (i - 1) * Chunk /\ q[i].bc = Chunk
        BY <2>1 DEF Transfer
    <2>3. (i - 1) * Chunk + Chunk - 1 = i * Chunk - 1
        <3> DEFINE a == (i - 1) * Chunk
                   b == i * Chunk
        <3>1. a \in Nat /\ b \in Nat /\ b = a + Chunk
            BY <1>1
        <3> HIDE DEF a, b
        <3>2. a + Chunk - 1 = b - 1
            BY <1>0, <3>1
        <3> QED
            BY <3>2 DEF a, b
    <2>4. Moves(q[i]) = (i - 1) * Chunk .. (i - 1) * Chunk + Chunk - 1
        BY <2>2, Zenon DEF Moves
    <2> QED
        BY <2>3, <2>4, Zenon
<1> HIDE DEF q
<1>6. ASSUME NEW i \in 1 .. n, NEW j \in 1 .. n, i < j
      PROVE  Moves(q[i]) \cap Moves(q[j]) = {}
    <2>1. i * Chunk <= (j - 1) * Chunk
        <3>1. i \in Nat /\ j - 1 \in Nat /\ i <= j - 1
            BY <1>6
        <3> QED
            BY <1>0, <3>1, TimesMonotone
    <2>2. Moves(q[i]) = (i - 1) * Chunk .. i * Chunk - 1
        BY <1>5
    <2>3. Moves(q[j]) = (j - 1) * Chunk .. j * Chunk - 1
        BY <1>5
    <2>4. /\ i * Chunk \in Int /\ (j - 1) * Chunk \in Int
          /\ (i - 1) * Chunk \in Int /\ j * Chunk \in Int
        BY <1>1
    <2> QED
        BY <2>1, <2>2, <2>3, <2>4
<1>7. Apart(q)
    <2> SUFFICES ASSUME NEW i \in 1 .. n, NEW j \in 1 .. n, i # j
                 PROVE  Moves(q[i]) \cap Moves(q[j]) = {}
        BY <1>4 DEF Apart
    <2>1. i < j \/ j < i
        OBVIOUS
    <2> QED
        BY <1>6, <2>1
<1> QED
    BY <1>1, <1>4, <1>5, <1>7 DEF q

\* The transfers of a copy move every unit of the memory, each once.
LEMMA ChainCovers ==
    ASSUME WholeChunks
    PROVE  /\ Chain \in Seq(Transfers) /\ Chain # <<>>
           /\ Flat(Chain) = Units /\ Apart(Chain)
<1> DEFINE n == Total \div Chunk
<1>0. Chunk \in Nat \ {0} /\ Total \in Nat \ {0} /\ Rest = 0
    BY VmSnapshotAssumption DEF WholeChunks
<1>1. n \in Nat /\ Total = n * Chunk
    BY <1>0, Division
<1>2. n # 0
    BY <1>0, <1>1
<1>3. Chain = FullFrom(n)
    <2>1. FullFrom(n) \in Seq(Transfers)
        BY <1>1, FullChunks
    <2>2. Chain = FullFrom(n) \o <<>>
        BY <1>0 DEF Chain
    <2> HIDE DEF n
    <2> QED
        BY <2>1, <2>2
<1> HIDE DEF n
<1>4. /\ Chain \in Seq(Transfers) /\ Len(Chain) = n /\ DOMAIN Chain = 1 .. n
      /\ \A i \in 1 .. n : Moves(Chain[i]) = (i - 1) * Chunk .. i * Chunk - 1
      /\ \A i \in 1 .. n : (i - 1) * Chunk \in Nat /\ i * Chunk \in Nat
      /\ Apart(Chain)
    BY <1>1, <1>3, FullChunks
<1>5. Chain # <<>>
    BY <1>2, <1>4
<1>6. ASSUME NEW i \in 1 .. n, NEW u \in Moves(Chain[i]) PROVE u \in Units
    <2>1. i * Chunk <= n * Chunk
        BY <1>0, <1>1, TimesMonotone
    <2>2. u \in (i - 1) * Chunk .. i * Chunk - 1
        BY <1>4
    <2>3. (i - 1) * Chunk \in Nat /\ i * Chunk \in Nat
        BY <1>4
    <2> QED
        BY <1>0, <1>1, <2>1, <2>2, <2>3 DEF Units
<1>7. ASSUME NEW u \in Units PROVE \E i \in 1 .. n : u \in Moves(Chain[i])
    <2> DEFINE k == u \div Chunk
    <2>1. u \in Nat /\ u < Total
        BY <1>0 DEF Units
    <2>2. k \in Nat /\ k * Chunk <= u /\ u < k * Chunk + Chunk
        BY <2>1, Division
    <2> HIDE DEF k
    <2>3. k < n
        <3>1. ASSUME n <= k PROVE FALSE
            <4>1. n * Chunk <= k * Chunk
                BY <1>0, <1>1, <2>2, <3>1, TimesMonotone
            <4>2. k * Chunk \in Nat
                BY <1>0, <2>2
            <4> QED
                BY <1>0, <1>1, <2>1, <2>2, <4>1, <4>2
        <3> QED
            BY <1>1, <2>2, <3>1
    <2>4. PICK i \in 1 .. n : i = k + 1
        BY <1>1, <2>2, <2>3
    <2>5. Moves(Chain[i]) = (i - 1) * Chunk .. i * Chunk - 1
        BY <1>4
    <2> DEFINE a == (i - 1) * Chunk
               b == i * Chunk
    <2>6. a <= u /\ u < b
        <3>1. i - 1 = k
            BY <2>2, <2>4
        <3>2. a = k * Chunk
            BY <3>1
        <3>3. b = k * Chunk + Chunk
            BY <1>0, <2>2, <2>4
        <3> HIDE DEF a, b
        <3> QED
            BY <2>2, <3>2, <3>3
    <2>7. a \in Nat /\ b \in Nat
        BY <1>4
    <2>8. Moves(Chain[i]) = a .. b - 1
        BY <2>5
    <2> HIDE DEF a, b
    <2> QED
        BY <2>1, <2>6, <2>7, <2>8
<1>8. Flat(Chain) = Units
    BY <1>4, <1>6, <1>7 DEF Flat
<1> QED
    BY <1>4, <1>5, <1>8

\* What is left of a queue after its first transfer.
LEMMA HeadTail ==
    ASSUME NEW q \in Seq(Transfers), q # <<>>
    PROVE  /\ Tail(q) \in Seq(Transfers)
           /\ Flat(q) = Moves(Head(q)) \cup Flat(Tail(q))
           /\ Apart(q) => /\ Apart(Tail(q))
                          /\ Moves(Head(q)) \cap Flat(Tail(q)) = {}
<1> DEFINE n == Len(q)
           t == Tail(q)
<1>1. n \in Nat /\ n >= 1 /\ DOMAIN q = 1 .. n /\ Head(q) = q[1]
    OBVIOUS
<1>2. t \in Seq(Transfers) /\ DOMAIN t = 1 .. n - 1 /\ \A i \in 1 .. n - 1 : t[i] = q[i + 1]
    OBVIOUS
<1> HIDE DEF n, t
<1>3. \A i \in 1 .. n - 1 : i + 1 \in 1 .. n /\ i + 1 # 1
    BY <1>1
<1>4. \A i \in 1 .. n : i = 1 \/ (i - 1 \in 1 .. n - 1 /\ t[i - 1] = q[i])
    <2> TAKE i \in 1 .. n
    <2>1. i # 1 => i - 1 \in 1 .. n - 1 /\ (i - 1) + 1 = i
        BY <1>1
    <2>2. i # 1 => t[i - 1] = q[(i - 1) + 1]
        BY <1>2, <2>1
    <2> QED
        BY <2>1, <2>2
<1>5. ASSUME NEW u PROVE u \in Flat(q) <=> u \in Moves(Head(q)) \/ u \in Flat(t)
    <2>1. u \in Flat(q) <=> \E i \in 1 .. n : u \in Moves(q[i])
        BY <1>1 DEF Flat
    <2>2. u \in Flat(t) <=> \E i \in 1 .. n - 1 : u \in Moves(t[i])
        BY <1>2 DEF Flat
    <2>3. ASSUME NEW i \in 1 .. n, u \in Moves(q[i])
          PROVE  u \in Moves(Head(q)) \/ u \in Flat(t)
        BY <1>1, <1>4, <2>2, <2>3
    <2>4. ASSUME NEW i \in 1 .. n - 1, u \in Moves(t[i]) PROVE u \in Flat(q)
        BY <1>2, <1>3, <2>1, <2>4
    <2>5. u \in Moves(Head(q)) => u \in Flat(q)
        BY <1>1, <2>1
    <2> QED
        BY <2>1, <2>2, <2>3, <2>4, <2>5
<1>6. ASSUME Apart(q) PROVE Apart(t) /\ Moves(Head(q)) \cap Flat(t) = {}
    <2>1. ASSUME NEW i \in 1 .. n - 1, NEW j \in 1 .. n - 1, i # j
          PROVE  Moves(t[i]) \cap Moves(t[j]) = {}
        <3>1. i + 1 \in 1 .. n /\ j + 1 \in 1 .. n /\ i + 1 # j + 1
            BY <1>3, <2>1
        <3>2. Moves(q[i + 1]) \cap Moves(q[j + 1]) = {}
            BY <1>1, <1>6, <3>1 DEF Apart
        <3> QED
            BY <1>2, <3>2
    <2>2. ASSUME NEW i \in 1 .. n - 1 PROVE Moves(q[1]) \cap Moves(t[i]) = {}
        <3>1. i + 1 \in 1 .. n /\ i + 1 # 1 /\ 1 \in 1 .. n
            BY <1>1, <1>3
        <3>2. Moves(q[1]) \cap Moves(q[i + 1]) = {}
            BY <1>1, <1>6, <3>1 DEF Apart
        <3> QED
            BY <1>2, <3>2
    <2>3. Apart(t)
        BY <1>2, <2>1 DEF Apart
    <2>4. Moves(Head(q)) \cap Flat(t) = {}
        BY <1>1, <1>2, <2>2 DEF Flat
    <2> QED
        BY <2>3, <2>4
<1> QED
    BY <1>2, <1>5, <1>6 DEF t

----------------------------------------------------------------------------
(* The background copy.                                                    *)

\* The units that a snapshot copies first.
First == Moves(Head(Chain))

CopyTypes ==
    /\ mem \in [Units -> 0 .. MaxWrites] /\ snap \in [Units -> 0 .. MaxWrites]
    /\ copy \in [Units -> 0 .. MaxWrites \cup {Unwritten}]
    /\ taken \in 0 .. MaxSnapshots
    /\ queue \in Seq(Transfers) /\ Todo \subseteq Units
    /\ endIrq \in BOOLEAN /\ busy \in BOOLEAN /\ stale \in BOOLEAN

\* The end interrupt means that the channel has moved everything, or else it
\* was pending already when the first transfer was started, which goes on.
EndMeansDone ==
    endIrq /\ ~ busy =>
        \/ chan = {}
        \/ queue = Tail(Chain) /\ chan \subseteq First /\ lost = {} /\ stale

\* In the middle of kmus_snapshot everything is still queued.
AllQueued == busy => queue = Chain /\ lost = {}

\* No unit is moved twice.
Separate == Apart(queue) /\ (busy \/ chan \cap Flat(queue) = {})

\* Versions only grow.
SnapIsPast == \A u \in Units : snap[u] <= mem[u]
CopyIsPast == \A u \in Units : copy[u] <= mem[u]

\* What the transfers have passed and not lost is as new as the snapshot.
CopyIsNew == taken > 0 => \A u \in Units \ (Todo \cup lost) : snap[u] <= copy[u]

\* Only the first transfer is ever lost, and only to a stale interrupt.
LostIsFirst == lost \subseteq First /\ (lost # {} => stale)

CopyInv ==
    /\ CopyTypes
    /\ EndMeansDone
    /\ AllQueued
    /\ Separate
    /\ SnapIsPast
    /\ CopyIsPast
    /\ CopyIsNew
    /\ LostIsFirst

\* The step of the background copy.
PromiseStep == [Promise!Next]_<<mem, copy, Todo, lost>>

\* What is left to do, in terms of the queue.
LEMMA TodoIs == Todo = chan \cup Flat(queue)
BY DEF Todo, Flat

LEMMA CopyFacts ==
    ASSUME CopyInv
    PROVE  /\ MaxWrites \in Nat /\ MaxSnapshots \in Nat
           /\ mem \in [Units -> 0 .. MaxWrites] /\ snap \in [Units -> 0 .. MaxWrites]
           /\ copy \in [Units -> 0 .. MaxWrites \cup {Unwritten}]
           /\ taken \in 0 .. MaxSnapshots /\ endIrq \in BOOLEAN
           /\ queue \in Seq(Transfers) /\ Todo \subseteq Units
           /\ busy \in BOOLEAN /\ stale \in BOOLEAN
BY VmSnapshotAssumption DEF CopyInv, CopyTypes

\* A snapshot begins: everything is to be copied.
LEMMA TakeStep == WholeChunks /\ CopyInv /\ Snapshot => CopyInv' /\ PromiseStep
<1> SUFFICES ASSUME WholeChunks, CopyInv, Snapshot PROVE CopyInv' /\ PromiseStep
    OBVIOUS
<1>1. /\ taken' = taken + 1 /\ taken < MaxSnapshots
      /\ snap' = mem /\ queue' = Chain /\ busy' = TRUE /\ lost' = {}
      /\ UNCHANGED <<mem, copy, chan, endIrq, stale>>
    BY DEF Snapshot, CopyMemory
<1>2. chan \subseteq Units
    BY TodoIs, CopyFacts
<1>3. Chain \in Seq(Transfers) /\ Apart(Chain) /\ Todo' = Units
    BY <1>1, <1>2, ChainCovers DEF Todo, Flat
<1>4. CopyTypes'
    BY <1>1, <1>3, CopyFacts DEF CopyTypes
<1>5. EndMeansDone' /\ AllQueued' /\ Separate' /\ LostIsFirst' /\ CopyIsNew'
    BY <1>1, <1>3 DEF EndMeansDone, AllQueued, Separate, LostIsFirst, CopyIsNew
<1>6. SnapIsPast' /\ CopyIsPast'
    BY <1>1, CopyFacts DEF CopyInv, SnapIsPast, CopyIsPast
<1>7. Promise!Take
    BY <1>1, <1>3 DEF Promise!Take
<1> QED
    BY <1>4, <1>5, <1>6, <1>7 DEF CopyInv, PromiseStep, Promise!Next

\* The first transfer is started.
LEMMA FirstStep == WholeChunks /\ CopyInv /\ Started => CopyInv' /\ PromiseStep
<1> SUFFICES ASSUME WholeChunks, CopyInv, Started PROVE CopyInv' /\ PromiseStep
    OBVIOUS
<1>1. /\ queue = Chain /\ lost = {} /\ busy' = FALSE /\ stale' = endIrq
      /\ queue' = Tail(Chain) /\ chan' = First
      /\ UNCHANGED <<mem, copy, snap, taken, endIrq, lost>>
    BY DEF Started, CopyInv, AllQueued, Program, First
<1>2. chan \subseteq Units
    BY TodoIs, CopyFacts
<1>3. /\ Todo = Units
      /\ queue' \in Seq(Transfers) /\ Apart(queue') /\ chan' \cap Flat(queue') = {}
      /\ Todo' = Units
    <2>1. /\ Chain \in Seq(Transfers) /\ Chain # <<>>
          /\ Flat(Chain) = Units /\ Apart(Chain)
        BY ChainCovers
    <2>2. /\ Tail(Chain) \in Seq(Transfers) /\ Apart(Tail(Chain))
          /\ First \cup Flat(Tail(Chain)) = Units /\ First \cap Flat(Tail(Chain)) = {}
        BY <2>1, HeadTail DEF First
    <2>3. Todo = chan \cup Flat(queue) /\ Todo' = chan' \cup Flat(queue')
        BY TodoIs DEF Todo, Flat
    <2> QED
        BY <1>1, <1>2, <2>1, <2>2, <2>3
<1>4. CopyTypes'
    BY <1>1, <1>3, CopyFacts DEF CopyTypes
<1>5. EndMeansDone' /\ AllQueued' /\ Separate' /\ LostIsFirst' /\ CopyIsNew'
    BY <1>1, <1>3 DEF EndMeansDone, AllQueued, Separate, LostIsFirst, CopyIsNew
<1>6. SnapIsPast' /\ CopyIsPast'
    BY <1>1 DEF CopyInv, SnapIsPast, CopyIsPast
<1>7. PromiseStep
    BY <1>1, <1>3 DEF PromiseStep
<1> QED
    BY <1>4, <1>5, <1>6, <1>7 DEF CopyInv

\* The VM writes.
LEMMA WriteStep ==
    ASSUME CopyInv, NEW u \in Units, Write(u)
    PROVE  CopyInv' /\ PromiseStep
<1>1. /\ mem[u] < MaxWrites /\ mem' = [mem EXCEPT ![u] = @ + 1]
      /\ UNCHANGED <<copy, snap, taken, queue, chan, endIrq, busy, stale, lost>>
    BY DEF Write
<1>2. Todo' = Todo
    BY <1>1 DEF Todo
<1>3. /\ mem' \in [Units -> 0 .. MaxWrites]
      /\ \A x \in Units : mem'[x] >= mem[x]
    BY <1>1, CopyFacts
<1>4. CopyTypes'
    BY <1>1, <1>2, <1>3, CopyFacts DEF CopyTypes
<1>5. EndMeansDone' /\ AllQueued' /\ Separate' /\ LostIsFirst' /\ CopyIsNew'
    BY <1>1, <1>2 DEF CopyInv, EndMeansDone, AllQueued, Separate, LostIsFirst, CopyIsNew
<1>6. SnapIsPast' /\ CopyIsPast'
    <2> SUFFICES ASSUME NEW x \in Units PROVE snap[x] <= mem'[x] /\ copy[x] <= mem'[x]
        BY <1>1 DEF SnapIsPast, CopyIsPast
    <2>1. snap[x] <= mem[x] /\ copy[x] <= mem[x] /\ mem[x] <= mem'[x]
        BY <1>3 DEF CopyInv, SnapIsPast, CopyIsPast
    <2>2. snap[x] \in Int /\ copy[x] \in Int /\ mem[x] \in Int /\ mem'[x] \in Int
        BY <1>3, CopyFacts DEF Unwritten
    <2> QED
        BY <2>1, <2>2
<1>7. Promise!Write(u)
    BY <1>1, <1>2 DEF Promise!Write
<1> QED
    BY <1>4, <1>5, <1>6, <1>7 DEF CopyInv, PromiseStep, Promise!Next

\* The engine moves a unit, for this snapshot or still for the one before.
LEMMA MoveStep ==
    ASSUME WholeChunks, CopyInv, NEW u \in Units, DmaMove(u)
    PROVE  CopyInv' /\ PromiseStep
<1>1. /\ u \in chan /\ copy' = [copy EXCEPT ![u] = mem[u]]
      /\ chan' = chan \ {u} /\ endIrq' = (endIrq \/ chan' = {})
      /\ UNCHANGED <<mem, snap, taken, queue, busy, stale, lost>>
    BY DEF DmaMove
<1>2. Todo = chan \cup Flat(queue) /\ Todo' = chan' \cup Flat(queue)
    BY <1>1, TodoIs DEF Todo, Flat
<1>3. /\ u \in Todo
      /\ busy => Todo' = Todo /\ Todo = Units
      /\ ~ busy => Todo' = Todo \ {u}
    <2>1. CASE busy
        <3>1. Flat(queue) = Units
            BY <2>1, ChainCovers DEF CopyInv, AllQueued
        <3> QED
            BY <1>1, <1>2, <2>1, <3>1, CopyFacts
    <2>2. CASE ~ busy
        BY <1>1, <1>2, <2>2 DEF CopyInv, Separate
    <2> QED
        BY <2>1, <2>2
<1>4. /\ copy' \in [Units -> 0 .. MaxWrites \cup {Unwritten}]
      /\ copy'[u] = mem[u] /\ \A x \in Units : x # u => copy'[x] = copy[x]
    BY <1>1, CopyFacts
<1>5. CopyTypes'
    BY <1>1, <1>3, <1>4, CopyFacts DEF CopyTypes
<1>6. EndMeansDone' /\ AllQueued' /\ Separate' /\ LostIsFirst' /\ SnapIsPast'
    BY <1>1 DEF CopyInv, EndMeansDone, AllQueued, Separate, LostIsFirst, SnapIsPast
<1>7. CopyIsPast'
    <2> SUFFICES ASSUME NEW x \in Units PROVE copy'[x] <= mem[x]
        BY <1>1 DEF CopyIsPast
    <2>1. mem[x] \in Int
        BY CopyFacts
    <2> QED
        BY <1>4, <2>1 DEF CopyInv, CopyIsPast
<1>8. CopyIsNew'
    <2> SUFFICES ASSUME taken > 0, NEW x \in Units \ (Todo' \cup lost)
                 PROVE  snap[x] <= copy'[x]
        BY <1>1 DEF CopyIsNew
    <2>1. CASE x = u
        BY <1>4, <2>1 DEF CopyInv, SnapIsPast
    <2>2. CASE x # u
        BY <1>3, <1>4, <2>2 DEF CopyInv, CopyIsNew
    <2> QED
        BY <2>1, <2>2
<1>9. Promise!Copy(u) \/ Promise!CopyTwice(u)
    BY <1>1, <1>3, CopyFacts DEF Promise!Copy, Promise!CopyTwice
<1> QED
    BY <1>5, <1>6, <1>7, <1>8, <1>9 DEF CopyInv, PromiseStep, Promise!Next

\* The end interrupt: the next transfer is started, and what the channel had
\* not moved is lost.
LEMMA EndStep == WholeChunks /\ CopyInv /\ DmaIrq => CopyInv' /\ PromiseStep
<1> SUFFICES ASSUME WholeChunks, CopyInv, DmaIrq PROVE CopyInv' /\ PromiseStep
    OBVIOUS
<1>1. /\ ~ busy /\ endIrq /\ endIrq' = FALSE
      /\ UNCHANGED <<mem, copy, snap, taken, busy, stale>>
    BY DEF DmaIrq
<1>2. CASE NextTransfer
    <2>1. /\ queue # <<>> /\ queue' = Tail(queue) /\ chan' = Moves(Head(queue))
          /\ lost' = lost \cup chan
        BY <1>2 DEF DmaIrq, NextTransfer, Program
    <2>2. /\ chan = {} \/ (chan \subseteq First /\ lost = {} /\ stale)
          /\ Apart(queue) /\ chan \cap Flat(queue) = {}
        BY <1>1 DEF CopyInv, EndMeansDone, Separate
    <2>3. /\ queue' \in Seq(Transfers) /\ Apart(queue')
          /\ chan' \cap Flat(queue') = {} /\ chan' \cup Flat(queue') = Flat(queue)
        BY <2>1, <2>2, CopyFacts, HeadTail
    <2>4. Todo = chan \cup Flat(queue) /\ Todo' = Flat(queue)
        BY <2>3, TodoIs DEF Todo, Flat
    <2>5. Todo' = Todo \ chan /\ chan \subseteq Todo
        BY <2>2, <2>4
    <2>6. CopyTypes'
        BY <1>1, <2>3, <2>5, CopyFacts DEF CopyTypes
    <2>7. EndMeansDone' /\ AllQueued' /\ Separate' /\ SnapIsPast' /\ CopyIsPast'
        BY <1>1, <2>3 DEF CopyInv, EndMeansDone, AllQueued, Separate, SnapIsPast, CopyIsPast
    <2>8. CopyIsNew' /\ LostIsFirst'
        BY <1>1, <2>1, <2>2, <2>5 DEF CopyInv, CopyIsNew, LostIsFirst
    <2>9. PromiseStep
        <3>1. CASE chan = {}
            <4>1. UNCHANGED <<mem, copy, Todo, lost>>
                BY <1>1, <2>1, <2>5, <3>1
            <4> QED
                BY <4>1 DEF PromiseStep
        <3>2. CASE chan # {}
            <4>1. lost = {} /\ lost' = chan /\ chan \in SUBSET (First \cap Todo)
                BY <2>1, <2>2, <2>5, <3>2
            <4>2. Promise!Lose
                BY <1>1, <2>5, <4>1 DEF Promise!Lose, First
            <4> QED
                BY <4>2 DEF PromiseStep, Promise!Next
        <3> QED
            BY <3>1, <3>2
    <2> QED
        BY <2>6, <2>7, <2>8, <2>9 DEF CopyInv
<1>3. CASE ~ NextTransfer
    <2>1. UNCHANGED <<queue, chan, lost>>
        BY <1>3 DEF DmaIrq
    <2>2. Todo' = Todo
        BY <2>1 DEF Todo
    <2>3. CopyTypes'
        BY <1>1, <2>1, <2>2, CopyFacts DEF CopyTypes
    <2>4. EndMeansDone' /\ AllQueued' /\ Separate' /\ SnapIsPast' /\ CopyIsPast'
        BY <1>1, <2>1 DEF CopyInv, EndMeansDone, AllQueued, Separate, SnapIsPast, CopyIsPast
    <2>5. CopyIsNew' /\ LostIsFirst' /\ PromiseStep
        BY <1>1, <2>1, <2>2 DEF CopyInv, CopyIsNew, LostIsFirst, PromiseStep
    <2> QED
        BY <2>3, <2>4, <2>5 DEF CopyInv
<1> QED
    BY <1>2, <1>3

\* Every step keeps the invariant, and is a step of the background copy.
LEMMA CopyStep ==
    ASSUME WholeChunks, CopyInv, [Next]_vars
    PROVE  CopyInv' /\ PromiseStep
<1>1. ASSUME UNCHANGED memVars PROVE CopyInv' /\ PromiseStep
    <2>1. UNCHANGED <<mem, copy, snap, taken, queue, chan, endIrq, busy, stale, lost>>
        BY <1>1 DEF memVars
    <2>2. Todo' = Todo
        BY <2>1 DEF Todo
    <2>3. CopyTypes'
        BY <2>1, <2>2, CopyFacts DEF CopyTypes
    <2>4. EndMeansDone' /\ AllQueued' /\ Separate' /\ SnapIsPast' /\ CopyIsPast'
        BY <2>1 DEF CopyInv, EndMeansDone, AllQueued, Separate, SnapIsPast, CopyIsPast
    <2>5. CopyIsNew' /\ LostIsFirst' /\ PromiseStep
        BY <2>1, <2>2 DEF CopyInv, CopyIsNew, LostIsFirst, PromiseStep
    <2> QED
        BY <2>3, <2>4, <2>5 DEF CopyInv
<1>2. CASE FailOver \/ SoftIrq \/ Enable \/ SpiIrq \/ Complete \/ Drain \/ UNCHANGED vars
    BY <1>1, <1>2 DEF FailOver, SoftIrq, Enable, SpiIrq, Complete, Drain, vars
<1> QED
    BY <1>2, TakeStep, FirstStep, WriteStep, MoveStep, EndStep DEF Next

\* The initial states.
LEMMA CopyInit == Init => CopyInv /\ Promise!Init
<1> SUFFICES ASSUME Init PROVE CopyInv /\ Promise!Init
    OBVIOUS
<1>0. MaxWrites \in Nat /\ MaxSnapshots \in Nat
    BY VmSnapshotAssumption
<1>1. /\ mem = [u \in Units |-> 0] /\ snap = mem /\ taken = 0
      /\ copy = [u \in Units |-> Unwritten] /\ queue = <<>> /\ chan = {} /\ ~ endIrq
      /\ endIrq \in BOOLEAN /\ busy = FALSE /\ stale = FALSE /\ lost = {}
    BY DEF Init
<1>2. Todo = {}
    BY <1>1, TodoIs DEF Flat
<1>3. CopyTypes
    <2>1. mem \in [Units -> 0 .. MaxWrites] /\ snap \in [Units -> 0 .. MaxWrites]
        BY <1>0, <1>1
    <2>2. copy \in [Units -> 0 .. MaxWrites \cup {Unwritten}]
        BY <1>1
    <2>3. taken \in 0 .. MaxSnapshots
        BY <1>0, <1>1
    <2>4. queue \in Seq(Transfers)
        BY <1>1
    <2>5. endIrq \in BOOLEAN /\ busy \in BOOLEAN /\ stale \in BOOLEAN /\ Todo \subseteq Units
        BY <1>1, <1>2
    <2> QED
        BY <2>1, <2>2, <2>3, <2>4, <2>5 DEF CopyTypes
<1>4. EndMeansDone /\ AllQueued /\ CopyIsNew /\ LostIsFirst
    BY <1>1 DEF EndMeansDone, AllQueued, CopyIsNew, LostIsFirst
<1>7. SnapIsPast /\ CopyIsPast
    <2>1. \A u \in Units : mem[u] = 0 /\ snap[u] = 0 /\ copy[u] = -1
        BY <1>1 DEF Unwritten
    <2> QED
        BY <2>1 DEF SnapIsPast, CopyIsPast
<1>5. Separate
    BY <1>1 DEF Separate, Apart, Flat
<1>6. Promise!Init
    BY <1>1, <1>2 DEF Promise!Init
<1> QED
    BY <1>3, <1>4, <1>5, <1>6, <1>7 DEF CopyInv

\* CopyInv holds in every reachable state.
LEMMA CopyInvariant == WholeChunks => (Spec => []CopyInv)
<1> SUFFICES ASSUME WholeChunks PROVE Spec => []CopyInv
    OBVIOUS
<1>1. Spec => Init /\ [][Next]_vars
    BY PTL DEF Spec
<1>2. CopyInv /\ [Next]_vars => CopyInv'
    BY CopyStep
<1> QED
    BY <1>1, <1>2, CopyInit, PTL

\* Every variable keeps its type; no transfer leaves the memory of the VM.
THEOREM SnapshotTyped == WholeChunks => (Spec => []TypeOK)
<1> SUFFICES ASSUME WholeChunks PROVE Spec => []TypeOK
    OBVIOUS
<1>1. CopyInv /\ FailOverInv => TypeOK
    <2> SUFFICES ASSUME CopyInv, FailOverInv PROVE TypeOK
        OBVIOUS
    <2>1. Todo \subseteq Units /\ chan \subseteq Units
        BY TodoIs DEF CopyInv, CopyTypes
    <2>2. lost \subseteq Units
        <3>1. First \subseteq Units
            BY ChainCovers, HeadTail DEF First
        <3> QED
            BY <3>1 DEF CopyInv, LostIsFirst
    <2> QED
        BY <2>1, <2>2 DEF CopyInv, CopyTypes, FailOverInv, FailOverTypes, TypeOK
<1> QED
    BY <1>1, CopyInvariant, FailOverInvariant, PTL

\* What the transfers have passed is neither older than the snapshot nor
\* newer than the memory of the VM, whenever the VM writes and whenever the
\* next snapshot comes; at most the first transfer of a snapshot is lost, and
\* only if an end interrupt was pending when it was started (vmem.c:104).
THEOREM CopyIsBounded == WholeChunks => (Spec => []CopyBounds)
<1> SUFFICES ASSUME WholeChunks PROVE Spec => []CopyBounds
    OBVIOUS
<1>1. CopyInv => CopyBounds
    BY DEF CopyInv, CopyIsPast, CopyIsNew, LostIsFirst, CopyBounds, First
<1> QED
    BY <1>1, CopyInvariant, PTL

\* The chain of transfers and interrupts implements the background copy of
\* one unit at a time, apart from its fairness, also when snapshots overlap.
THEOREM SnapshotIsSafe ==
    WholeChunks => (Spec => Promise!Init /\ [][Promise!Next]_<<mem, copy, Todo, lost>>)
<1> SUFFICES ASSUME WholeChunks
             PROVE  Spec => Promise!Init /\ [][Promise!Next]_<<mem, copy, Todo, lost>>
    OBVIOUS
<1>1. Spec => Init /\ [][Next]_vars
    BY PTL DEF Spec
<1>2. CopyInv /\ [Next]_vars => [Promise!Next]_<<mem, copy, Todo, lost>>
    BY CopyStep DEF PromiseStep
<1> QED
    BY <1>1, <1>2, CopyInit, CopyInvariant, PTL

----------------------------------------------------------------------------
(* A memory that is not a whole number of transfers.                       *)

End == Total - 1

\* A queue with one more transfer at its end.
LEMMA Extended ==
    ASSUME NEW q \in Seq(Transfers), NEW t \in Transfers
    PROVE  /\ q \o <<t>> \in Seq(Transfers) /\ Len(q \o <<t>>) = Len(q) + 1
           /\ DOMAIN (q \o <<t>>) = 1 .. Len(q) + 1
           /\ \A i \in 1 .. Len(q) : (q \o <<t>>)[i] = q[i]
           /\ (q \o <<t>>)[Len(q) + 1] = t
OBVIOUS

\* Without WholeChunks no transfer moves the last unit of the memory: that
\* of the rest starts at its own length.
LEMMA ChainMissesEnd ==
    ASSUME Rest # 0
    PROVE  Chain \in Seq(Transfers) /\ Chain # <<>> /\ End \notin Flat(Chain)
<1> DEFINE n == Total \div Chunk
           full == FullFrom(n)
           last == Transfer(Rest, Rest)
<1>0. Chunk \in Nat \ {0} /\ Total \in Nat \ {0}
    BY VmSnapshotAssumption
<1>1. /\ n \in Nat /\ Rest \in 1 .. Chunk - 1 /\ Total = n * Chunk + Rest
      /\ n * Chunk \in Nat
    BY <1>0, Division
<1>2. last \in Transfers /\ Moves(last) = Rest .. Rest + Rest - 1
    BY <1>1 DEF Transfer, Transfers, Moves
<1>3. /\ full \in Seq(Transfers) /\ Len(full) = n
      /\ \A i \in 1 .. n : Moves(full[i]) = (i - 1) * Chunk .. i * Chunk - 1
      /\ \A i \in 1 .. n : (i - 1) * Chunk \in Nat /\ i * Chunk \in Nat
    BY <1>1, FullChunks
<1>4. Chain = full \o <<last>>
    BY <1>1 DEF Chain
<1>5. End \notin Moves(last)
    <2>1. CASE n = 0
        <3>1. n * Chunk = 0
            BY <1>0, <2>1
        <3>2. Total = Rest
            BY <1>1, <3>1
        <3> QED
            BY <1>1, <1>2, <3>2 DEF End
    <2>2. CASE n >= 1
        <3>1. 1 * Chunk <= n * Chunk
            BY <1>0, <1>1, <2>2, TimesMonotone
        <3> DEFINE a == n * Chunk
        <3>2. Chunk <= a /\ a \in Nat /\ Total = a + Rest
            BY <1>0, <1>1, <3>1
        <3> HIDE DEF a
        <3> QED
            BY <1>0, <1>1, <1>2, <3>2 DEF End
    <2> QED
        BY <1>1, <2>1, <2>2
<1>6. ASSUME NEW i \in 1 .. n PROVE End \notin Moves(full[i])
    <2> DEFINE a == n * Chunk
               b == i * Chunk
               c == (i - 1) * Chunk
    <2>1. b <= a
        BY <1>0, <1>1, TimesMonotone
    <2>2. a \in Nat /\ b \in Nat /\ c \in Nat /\ Total = a + Rest
        BY <1>1, <1>3
    <2>3. Moves(full[i]) = c .. b - 1
        BY <1>3
    <2> HIDE DEF a, b, c, full
    <2> QED
        BY <1>1, <2>1, <2>2, <2>3 DEF End
<1> HIDE DEF n, full, last
<1>7. /\ Chain \in Seq(Transfers) /\ Len(Chain) = n + 1 /\ DOMAIN Chain = 1 .. n + 1
      /\ \A i \in 1 .. n : Chain[i] = full[i]
      /\ Chain[n + 1] = last
    BY <1>1, <1>2, <1>3, <1>4, Extended
<1>8. ASSUME NEW i \in 1 .. n + 1 PROVE End \notin Moves(Chain[i])
    <2>1. i \in 1 .. n \/ i = n + 1
        BY <1>1
    <2> QED
        BY <1>5, <1>6, <1>7, <2>1
<1>9. Chain # <<>>
    BY <1>1, <1>7
<1> QED
    BY <1>7, <1>8, <1>9 DEF Flat

\* The last unit is in no transfer, and still unwritten.
EndInv ==
    /\ queue \in Seq(Transfers) /\ (busy => queue # <<>>)
    /\ End \notin chan \cup Flat(queue)
    /\ copy[End] = Unwritten

\* However often and whenever snapshots are taken, the backup never gets the
\* last unit of a memory that is not a whole number of transfers
\* (chain_enqueue, drivers/dma/sun4i-dma.c:67): this is why the theorems
\* above assume WholeChunks.
THEOREM TailIsForgotten == Rest # 0 => (Spec => [](copy[End] = Unwritten))
<1> SUFFICES ASSUME Rest # 0 PROVE Spec => [](copy[End] = Unwritten)
    OBVIOUS
<1>1. Init => EndInv
    <2>1. End \in Units
        BY VmSnapshotAssumption DEF End, Units
    <2> QED
        BY <2>1 DEF Init, EndInv, Flat
<1>2. EndInv /\ [Next]_vars => EndInv'
    <2> SUFFICES ASSUME EndInv, [Next]_vars PROVE EndInv'
        OBVIOUS
    <2>1. CASE Snapshot
        <3>1. queue' = Chain /\ busy' /\ chan' = chan /\ copy' = copy
            BY <2>1 DEF Snapshot, CopyMemory
        <3> QED
            BY <3>1, ChainMissesEnd DEF EndInv, Flat
    <2>9. CASE Started
        <3>1. /\ queue # <<>> /\ queue' = Tail(queue) /\ chan' = Moves(Head(queue))
              /\ copy' = copy /\ ~ busy'
            BY <2>9 DEF Started, Program, EndInv
        <3>2. /\ queue' \in Seq(Transfers)
              /\ End \notin Moves(Head(queue)) \cup Flat(Tail(queue))
            BY <3>1, HeadTail DEF EndInv
        <3> QED
            BY <3>1, <3>2 DEF EndInv, Flat
    <2>2. ASSUME NEW u \in Units, DmaMove(u) PROVE EndInv'
        <3>1. /\ u \in chan /\ copy' = [copy EXCEPT ![u] = mem[u]]
              /\ chan' = chan \ {u} /\ queue' = queue /\ busy' = busy
            BY <2>2 DEF DmaMove
        <3>2. copy'[End] = copy[End]
            BY <3>1 DEF EndInv
        <3> QED
            BY <3>1, <3>2 DEF EndInv, Flat
    <2>3. CASE DmaIrq
        <3>1. CASE queue # <<>>
            <4>1. /\ queue' = Tail(queue) /\ chan' = Moves(Head(queue))
                  /\ copy' = copy /\ ~ busy'
                BY <2>3, <3>1 DEF DmaIrq, NextTransfer, Program
            <4>2. /\ queue' \in Seq(Transfers)
                  /\ End \notin Moves(Head(queue)) \cup Flat(Tail(queue))
                BY <3>1, <4>1, HeadTail DEF EndInv
            <4> QED
                BY <4>1, <4>2 DEF EndInv, Flat
        <3>2. CASE queue = <<>>
            BY <2>3, <3>2 DEF DmaIrq, NextTransfer, EndInv, Flat
        <3> QED
            BY <3>1, <3>2
    <2>4. ASSUME UNCHANGED <<copy, queue, chan, busy>> PROVE EndInv'
        BY <2>4 DEF EndInv, Flat
    <2>5. CASE FailOver
        BY <2>4, <2>5 DEF FailOver, memVars
    <2>6. CASE \E u \in Units : Write(u)
        BY <2>4, <2>6 DEF Write
    <2>7. CASE SoftIrq \/ Enable \/ SpiIrq \/ Complete \/ Drain
        BY <2>4, <2>7 DEF SoftIrq, Enable, SpiIrq, Complete, Drain, memVars
    <2>8. CASE UNCHANGED vars
        BY <2>4, <2>8 DEF vars, memVars
    <2> QED
        BY <2>1, <2>2, <2>3, <2>5, <2>6, <2>7, <2>8, <2>9 DEF Next
<1>3. Spec => Init /\ [][Next]_vars
    BY PTL DEF Spec
<1>4. EndInv => copy[End] = Unwritten
    BY DEF EndInv
<1> QED
    BY <1>1, <1>2, <1>3, <1>4, PTL
=============================================================================
